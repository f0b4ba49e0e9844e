\* Three harts, NONSMP_HART = 0 as the boot ROM is built.  The system halts
\* when the next stage returns or main does: deadlock is not checked.
SPECIFICATION FairSpec
CONSTANTS
  NUM_INT_HARTS = 3
  NONSMP_HART = 0
  Word = {zero, w1, w2}
  ZeroWord = zero
  NoWord = none
  MaxIpis = 2
INVARIANTS TypeOK HandoverInv EntryAgreement Barrier CleanHandover
PROPERTIES ImplementsHandover AllHartsBoot ParkedOnExit
CHECK_DEADLOCK FALSE
