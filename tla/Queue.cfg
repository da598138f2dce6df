CONSTANTS
  Producers = {s1, s2, s3}
  Consumers = {m}
  NoThread = NoThread
SPECIFICATION FairSpec
INVARIANTS
  NoLostWakeup
PROPERTIES ImplementsFifo GetReturns
