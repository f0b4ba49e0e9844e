\* Words of two bytes, bursts of two words: sections end before, on and behind
\* the end of a burst.
SPECIFICATION Spec
CONSTANTS
  Files <- MCFiles
  Places <- MCPlaces
  Word = 2
  UartBurst = 4
  SlinkBurst = 4
INVARIANTS TypeOK ImageLoaded OnlyPadding
CHECK_DEADLOCK FALSE
