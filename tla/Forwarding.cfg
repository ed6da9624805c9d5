CONSTANTS
  Public = Public
  Other = Other
  Word = {Public, Other}
  Path = {}
  NoHost = NoHost
  Field <- MCField
  FieldSets <- MCFieldSets
  HopByHop <- MCHopByHop
  NotAName = NotAName
  ConnectionLines <- MCConnectionLines
  HostLines <- MCHostLines
  Query <- MCQuery
  Opaque = Opaque
  None = None
SPECIFICATION Spec
CHECK_DEADLOCK FALSE
INVARIANTS
  QueryMeansTheSame
  PreservedHostIsRoutedHost
