CONSTANTS
  Server = {s1, s2, s3}
  Stopper = {k1}
  NoServer = NoServer
SPECIFICATION FairSpec
CHECK_DEADLOCK FALSE
INVARIANTS
  TypeOK
  RunningIsPublished
  LeftoversOnlyAfterUncleanExit
  StopMeansDrained
PROPERTIES
  ShutdownCompletes
  StopTakesEffect
