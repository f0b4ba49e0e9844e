\* JTAG, a program that returns 1.
SPECIFICATION FairSpec
CONSTANTS
  TopBit = 4
  EntryLo = 5
  EntryHi = 6
  Addr = {a1, a2}
  Byte = {zero, code}
  ZeroByte = zero
  Image = code
  Codes = {0, 1}
  JtagCodes = {0, 1}
  PreloadModes = {"jtag"}
  LaunchWord = 2
  LlcNotBypass = TRUE
  MayAck = FALSE
PROPERTIES CodeStays
CHECK_DEADLOCK FALSE
