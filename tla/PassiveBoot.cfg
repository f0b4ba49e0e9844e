\* Codes below the top bit; over JTAG those whose bit 0 is clear.  The hart ends in a
\* loop or in wfi: deadlock is not checked.
SPECIFICATION FairSpec
CONSTANTS
  TopBit = 4
  EntryLo = 5
  EntryHi = 6
  Addr = {a1, a2}
  Byte = {zero, code}
  ZeroByte = zero
  Image = code
  Codes = {0, 1, 2, 3}
  JtagCodes = {0, 2}
  PreloadModes = {"slink", "jtag"}
  LaunchWord = 2
  LlcNotBypass = TRUE
  MayAck = TRUE
INVARIANTS TypeOK ProgramIntact
PROPERTIES CodeStays LaunchTakesEffect EocSeen ImplementsProgramLoad
CHECK_DEADLOCK FALSE
