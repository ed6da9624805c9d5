CONSTANTS
  Client = {c1}
  LeaseId = {l1, l2}
  NoLease = NoLease
  LeaseTtl = 4
  MaxTargets = 2
  RequestTimeout = 1
  InitialDelay = 1
  MaxDelay = 1
SPECIFICATION FairSpec
CHECK_DEADLOCK FALSE
PROPERTIES
  OrphansExpire
  RegisteredAtLast
  ShutdownEnds
  KeepsAsking
