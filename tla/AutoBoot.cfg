\* Every table of up to three entries, used or not, of sizes 1 to 3.  A boot ends:
\* deadlock is not checked.
SPECIFICATION FairSpec
CONSTANTS
  Type = {"zsl", "dtb", "fw", "other"}
  MaxLbas <- MCMaxLbas
  MaxParts = 3
  MaxSize = 3
  MaxFails = 1
INVARIANTS TypeOK SearchCorrect ErrorsHalt
PROPERTIES Terminates
CHECK_DEADLOCK FALSE
