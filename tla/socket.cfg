SPECIFICATION Spec
CONSTANTS
  b1 = b1
  b2 = b2
  b3 = b3
  k1 = k1
  Broker <- MCBroker
  Client <- MCClient
  MaxBind = 3
INVARIANTS
  TypeOK
  StartsWhenAlone
  ReachableWhenAlone
PROPERTIES
  NewestIsReached
  NoClientLeftWaiting
