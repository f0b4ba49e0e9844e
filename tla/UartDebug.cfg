\* Data bytes take the values of ACK and EOC; programs print ACK and a letter.
\* The session ends and the boot ROM halts: deadlock is not checked.
SPECIFICATION FairSpec
CONSTANTS
  Addr = {0, 1}
  Data = {6, 20}
  NoiseByte = {20}
  ConsoleByte = {6, 65}
  RxDepth = 2
  TxDepth = 2
  RetLen = 2
  MaxLen = 2
  MaxOps = 2
  MaxPrint = 2
  MaxNoise = 1
INVARIANTS TypeOK NoProtocolError HalfDuplex TransferComplete
PROPERTIES CommandsComplete CodeArrives ImplementsProgramLoad
CHECK_DEADLOCK FALSE
