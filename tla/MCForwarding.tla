---------------------------- MODULE MCForwarding ----------------------------
(* Instances of Forwarding for TLC.                                        *)
EXTENDS Forwarding

CONSTANTS Public, Other

MCField ==
  {"content-length", "transfer-encoding", "keep-alive", "x-local", "x-signature"}

MCFieldSets == {MCField, MCField \ {"x-local"}, {"x-signature"}}

MCHopByHop == {"keep-alive"}

(* Readable or not, naming a custom header, a mix of names and a token that *)
(* is none, or the Host header.                                            *)
ConnectionLine ==
  [readable: BOOLEAN, names: {{"x-local"}}] \cup
  [readable: {TRUE}, names: {{"keep-alive", NotAName, "x-signature"}, {"host"}}]

MCConnectionLines == BoundedSeq(ConnectionLine, 2)

MCHostLines ==
  LET public == [word |-> Public, case |-> "mixed"]
      other == [word |-> Other, case |-> "lower"]
  IN {<<>>, <<public>>, <<Opaque>>, <<other, public>>}

Raw(char) == [char |-> char, escapes |-> 0]
Escaped(char, times) == [char |-> char, escapes |-> times]

MCQuery ==
  {None, <<>>, <<Raw("a"), Escaped("&", 1)>>,
   <<Raw("'"), Escaped("'", 1), Escaped("'", 2)>>}
=============================================================================
