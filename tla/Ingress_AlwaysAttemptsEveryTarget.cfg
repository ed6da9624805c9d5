CONSTANTS
  Word = {}
  Path = {}
  NoHost = NoHost
  Request = {r1}
  LeaseId = {l1, l2}
  MaxInflight = 1
  MaxDeliveries = 1
SPECIFICATION FairSpec
CHECK_DEADLOCK FALSE
INVARIANT AlwaysAttemptsEveryTarget
