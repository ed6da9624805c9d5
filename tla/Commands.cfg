CONSTANTS
  Server = {s1, s2}
  Stopper = {k1}
  Status = {q1}
  NoServer = NoServer
SPECIFICATION CommandsSpec
CHECK_DEADLOCK FALSE
SYMMETRY Symmetry
INVARIANTS
  CommandsTypeOK
  SuccessMeansAsked
PROPERTIES
  BrokenDrainIsReported
  StoppedIsNotRunning
