CONSTANTS
  Server = {s1}
  Stopper = {k1}
  Status = {q1}
  NoServer = NoServer
SPECIFICATION CommandsFairSpec
CHECK_DEADLOCK FALSE
PROPERTY StoppedExitsClean
