\* BootMedia with the bytes behind the destination in view.
SPECIFICATION FairSpec
CONSTANTS
  Size = 9
  Medium <- MCMedium
  Margin = 3
  Chunk = 2
  Unread = 256
  BlockSize = 3
  NumBlocks = 3
  CmdTimeout = 3
  DataTimeout = 3
  BusyTimeout = 3
  MaxLatency = 2
  Lines = {"card", "silent"}
  CheckCrc = TRUE
  Fifo = 4
  Base = 3
  CoreFreqs <- MCCoreFreqs
INVARIANT OnlyDestination
CHECK_DEADLOCK FALSE
