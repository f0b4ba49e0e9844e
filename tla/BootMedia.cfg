\* Nine bytes, for the card three blocks of three read in segments of two, for
\* the EEPROM within one block and with a FIFO of four.  An answer may come too
\* late.  The boot ROM ends when a call fails: deadlock is not checked.
SPECIFICATION FairSpec
CONSTANTS
  Size = 9
  Medium <- MCMedium
  Margin = 3
  Chunk = 2
  Unread = 256
  BlockSize = 3
  NumBlocks = 3
  CmdTimeout = 3
  DataTimeout = 3
  BusyTimeout = 3
  MaxLatency = 2
  Lines = {"card", "silent"}
  CheckCrc = TRUE
  Fifo = 4
  Base = 3
  CoreFreqs <- MCCoreFreqs
INVARIANTS TypeOK CleanLine
PROPERTIES ReadEnds ImplementsBlockRead
CHECK_DEADLOCK FALSE
