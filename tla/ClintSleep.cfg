\* The instance of Clint.
SPECIFICATION Spec
CONSTANTS
  CyclesPerTick = 5
  Base = 4
  MaxDelay = 2
  Starts = {0, 9, 17}
  MaxStart = 24
  MaxNow = 59
  Targets = {0, 3, 5, 7}
  Ticks = {0, 1, 3}
  NumTicks = 2
PROPERTIES SleepWaits
CHECK_DEADLOCK FALSE
