------------------------- MODULE Forwarding_proofs -------------------------
(***************************************************************************)
(* What a target receives of a webhook's query and host, proved for every  *)
(* query string, every sequence of Host lines and any registered host.     *)
(***************************************************************************)
EXTENDS Forwarding, TLAPS

(* The url crate's encoding changes how a character of a query is written, *)
(* never what it decodes to, and does not turn a query into none.          *)
LEMMA EncodeKeepsMeaning ==
  ASSUME NEW query \in Seq(QueryChar)
  PROVE  /\ Encode(query) \in Seq(QueryChar)
         /\ DOMAIN Encode(query) = DOMAIN query
         /\ \A i \in DOMAIN query :
              DecodedChar(Encode(query)[i]) = DecodedChar(query[i])
<1>1. /\ Len(query) \in Nat
      /\ DOMAIN query = 1 .. Len(query)
      /\ \A i \in DOMAIN query : query[i] \in QueryChar
  OBVIOUS
<1>2. ASSUME NEW i \in DOMAIN query
      PROVE  /\ Encode(query)[i] \in QueryChar
             /\ DecodedChar(Encode(query)[i]) = DecodedChar(query[i])
  <2>1. CASE query[i] = [char |-> "'", escapes |-> 0]
    <3>1. Encode(query)[i] = [char |-> "'", escapes |-> 1]
      BY <2>1 DEF Encode
    <3> QED
      BY <2>1, <3>1 DEF QueryChar, DecodedChar
  <2>2. CASE query[i] # [char |-> "'", escapes |-> 0]
    BY <2>2, <1>1 DEF Encode
  <2> QED
    BY <2>1, <2>2
<1>3. Encode(query) = [i \in 1 .. Len(query) |-> Encode(query)[i]]
  BY <1>1 DEF Encode
<1>4. Encode(query) \in Seq(QueryChar)
  BY <1>1, <1>2, <1>3
<1> QED
  BY <1>1, <1>2, <1>4 DEF Encode

-----------------------------------------------------------------------------
(* Every delivery was built from a validated URL and from the webhook whose*)
(* host selected the lease.                                                *)
THEOREM ForwardingInvariance == Spec => []ForwardingInvariant
<1>1. Init => ForwardingInvariant
  BY DEF Init, ForwardingInvariant, TypeOK, UrlWasValidated, HostWasRouted,
         SentAsBuilt, Delivered
<1>2. ForwardingInvariant /\ [Next]_vars => ForwardingInvariant'
  <2> SUFFICES ASSUME ForwardingInvariant, [Next]_vars
               PROVE  ForwardingInvariant'
    OBVIOUS
  <2> USE DEF ForwardingInvariant, TypeOK, UrlWasValidated, HostWasRouted,
              SentAsBuilt, Delivered
  <2>1. CASE Register
    BY <2>1 DEF Register
  <2>2. CASE Match
    BY <2>2 DEF Match
  <2>3. CASE Deliver
    BY <2>3 DEF Deliver
  <2>4. CASE UNCHANGED vars
    BY <2>4 DEF vars
  <2> QED
    BY <2>1, <2>2, <2>3, <2>4 DEF Next
<1> QED
  BY <1>1, <1>2, PTL DEF Spec

(* The query that a target decodes is the query that the sender encoded,   *)
(* although the url crate writes an apostrophe differently: nothing is     *)
(* encoded that is encoded already, however often it is.                   *)
THEOREM TheQueryMeansTheSame == Spec => []QueryMeansTheSame
<1>1. ForwardingInvariant => QueryMeansTheSame
  <2> SUFFICES ASSUME ForwardingInvariant, Delivered
               PROVE  Decoded(outgoing.url.query) = Decoded(incoming.query)
    BY DEF QueryMeansTheSame
  <2>1. url \in Url /\ incoming.query \in Query
    BY DEF ForwardingInvariant, TypeOK, Delivered, Incoming
  <2>2. outgoing.url.query =
          IF incoming.query = None THEN None ELSE Encode(incoming.query)
    BY <2>1 DEF ForwardingInvariant, SentAsBuilt, WithQuery, Url
  <2>3. CASE incoming.query = None
    BY <2>2, <2>3
  <2>4. CASE incoming.query # None
    <3> DEFINE query == incoming.query
    <3>1. query \in Seq(QueryChar)
      BY <2>1, <2>4, ForwardingAssumption
    <3>2. outgoing.url.query = Encode(query) /\ Encode(query) # None
      BY <2>2, <2>4, <3>1, EncodeKeepsMeaning, ForwardingAssumption
    <3>3. Decoded(Encode(query)) = [i \in DOMAIN query |-> DecodedChar(query[i])]
      BY <3>1, <3>2, EncodeKeepsMeaning DEF Decoded
    <3> QED
      BY <2>4, <3>2, <3>3 DEF Decoded
  <2> QED
    BY <2>3, <2>4
<1> QED
  BY <1>1, ForwardingInvariance, PTL

(* A preserved Host is the host that routing matched: both come from the   *)
(* request target first and from the first Host line otherwise.            *)
THEOREM ThePreservedHostIsTheRoutedHost == Spec => []PreservedHostIsRoutedHost
<1>1. ForwardingInvariant => PreservedHostIsRoutedHost
  BY DEF ForwardingInvariant, HostWasRouted, SentAsBuilt, ForwardedHost,
         PreservedHostIsRoutedHost, HostMatches, Delivered
<1> QED
  BY <1>1, ForwardingInvariance, PTL
=============================================================================
