SPECIFICATION FairSpec
\* Transfers end and the operators may stop acting: the system may rest.
CHECK_DEADLOCK FALSE
CONSTANTS
  t1 = t1
  x = x
  y = y
  Transfers <- One
  Contents <- Short
  Leavers <- Anyone
  MayBreak = TRUE
  MayTimeOut = TRUE
  MayEdit = TRUE
  MayFail = TRUE
INVARIANTS
  TypeOK
  SavedIsWhatWasOffered
  NoMoreThanOffered
  ToldOnce
  ChunksComeInOrder
  TruncatedIsReported
PROPERTIES
  KeepsPromise
  SendingEnds
