SPECIFICATION FairSpec
CONSTANTS
  Threads = {t1, t2}
  NoThread = NoThread
  MaxCalls = 1
INVARIANTS
  RecordIsTheReap
  NoSendAfterReap
  HoldFreezesReap
  DeadlineLooksOnce
PROPERTIES
  KeepsPromise
  CallsReturn
