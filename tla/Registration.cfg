CONSTANTS
  Client = {c1, c2}
  LeaseId = {l1, l2, l3}
  NoLease = NoLease
  LeaseTtl = 4
  MaxTargets = 2
  RequestTimeout = 1
  InitialDelay = 1
  MaxDelay = 2
SPECIFICATION Spec
SYMMETRY Symmetry
INVARIANTS
  TypeOK
  HeldIsLive
PROPERTY HeldLeaseIsSafe
