CONSTANTS
  Word = {}
  Path = {}
  NoHost = NoHost
  Request = {r1, r2, r3}
  LeaseId = {l1}
  MaxInflight = 2
  MaxDeliveries = 1
SPECIFICATION FairSpec
CHECK_DEADLOCK FALSE
PROPERTY DispatchEnds
