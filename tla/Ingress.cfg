CONSTANTS
  Word = {}
  Path = {}
  NoHost = NoHost
  Request = {r1, r2}
  LeaseId = {l1, l2}
  MaxInflight = 2
  MaxDeliveries = 1
SPECIFICATION Spec
SYMMETRY Symmetry
CHECK_DEADLOCK FALSE
INVARIANTS
  TypeOK
  InflightAccounting
  DeliveryAccounting
  HonestAggregate
  NothingRunsAfterAnswer
  ShortCircuitSendsNothing
PROPERTY ImplementsFanOut
