CONSTANTS
  Client = {c1}
  LeaseId = {l1, l2}
  NoLease = NoLease
  LeaseTtl = 3
  MaxTargets = 2
  RequestTimeout = 2
  InitialDelay = 1
  MaxDelay = 1
SPECIFICATION Spec
INVARIANT SurvivesMissedRenewals
