CONSTANTS
  Request = {r1}
  Handler = {h1, h2}
  LeaseId = {l1}
  NoHost = NoHost
  Word <- MCWord
  Path <- MCPath
  Registration <- MCRegistration
  Webhook <- MCWebhook
  MaxInflight = 1
  MaxDeliveries = 1
  LeaseTtl = 2
  MaxTargets = 1
  AllowNonLoopback = FALSE
  MaxClock = 3
SPECIFICATION MultiplexerSpec
SYMMETRY Symmetry
CHECK_DEADLOCK FALSE
INVARIANTS
  NothingForTheGone
  AllMeansEveryRegistered
