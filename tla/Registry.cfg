CONSTANTS
  Task = {t1, t2}
  LeaseId = {l1, l2, l3}
  NoHost = NoHost
  Word <- MCWord
  Path <- MCPath
  Request <- MCRequest
  Webhook <- MCWebhook
  LeaseTtl = 2
  MaxTargets = 2
  AllowNonLoopback = FALSE
  MaxClock = 4
SPECIFICATION Spec
SYMMETRY Symmetry
INVARIANTS
  TypeOK
  CapacityBound
  BoundedLifetime
PROPERTIES
  NoLiveEviction
  GoneForGood
  RenewedWhileLive
  CapacityRefusalHonest
