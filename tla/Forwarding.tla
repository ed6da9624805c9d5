----------------------------- MODULE Forwarding -----------------------------
(***************************************************************************)
(* What a target receives of a webhook: the registered URL of              *)
(* src/domain.rs and the headers that deliver of src/ingress.rs sends.     *)
(*                                                                         *)
(* The header lines other than Connection and Host are a set of names; a   *)
(* Connection line is the names it lists, readable when to_str accepts its *)
(* value; a query is a sequence of characters, raw or percent-encoded, and *)
(* an encoded one may stand for a percent sign of another encoding.        *)
(***************************************************************************)
EXTENDS Domain, SequencesExt

CONSTANTS
  Field,            (* Header names other than connection and host.        *)
  HopByHop,         (* STANDARD_HOP_BY_HOP_HEADERS.                        *)
  NotAName,         (* A token that is not a header name.                  *)
  FieldSets,        (* Sets of those that senders send.                    *)
  ConnectionLines,  (* Sequences of Connection lines that senders send.    *)
  HostLines,        (* Sequences of Host lines that senders send.          *)
  Query,            (* Query strings, and None.                            *)
  Opaque,           (* A header value with bytes outside visible ASCII.    *)
  None              (* None, where an Option of a query is expected.       *)

(* A character of a query and how many times it is percent-encoded.        *)
QueryChar == [char: STRING, escapes: Nat]

ASSUME ForwardingAssumption ==
  /\ HopByHop \subseteq Field
  /\ {"content-length", "transfer-encoding"} \subseteq Field
  /\ FieldSets \subseteq SUBSET Field
  /\ NotAName \notin Field \cup {"host"}
  /\ Opaque \notin Text \cup {NoHost}
  /\ Query \subseteq Seq(QueryChar) \cup {None}
  /\ None \notin Seq(QueryChar)

VARIABLES
  url,       (* The URL that a registration asks for.                      *)
  lease,     (* host and preserve_host of the registration.                *)
  stage,     (* How far the registration and the webhook have come.        *)
  incoming,  (* The webhook.                                               *)
  outgoing   (* The request that its target receives.                      *)

vars == <<url, lease, stage, incoming, outgoing>>

(* A parsed url::Url; the rest of it is only copied.                       *)
Url ==
  [scheme: {"http", "https", "ftp"}, has_host: BOOLEAN, credentials: BOOLEAN,
   query: {None, <<[char |-> "own", escapes |-> 0]>>}, fragment: BOOLEAN]

Incoming ==
  [authority: RouteHost \cup {NoHost}, host: HostLines,
   connection: ConnectionLines, fields: FieldSets, query: Query]

-----------------------------------------------------------------------------
(* src/domain.rs.                                                          *)

(* validate_target_url.                                                    *)
ValidTargetUrl(u) ==
  /\ u.scheme \in {"http", "https"}
  /\ u.has_host
  /\ ~u.credentials
  /\ u.query = None /\ ~u.fragment

(* The url crate's encode set for the query of http and https URLs: of the *)
(* characters that a request line may carry raw, the apostrophe.           *)
Encode(query) ==
  [i \in DOMAIN query |->
     IF query[i] = [char |-> "'", escapes |-> 0]
     THEN [query[i] EXCEPT !.escapes = 1] ELSE query[i]]

(* A query that is only set when there is something in it.                 *)
WithQueryUnlessEmpty(u, query) ==
  [u EXCEPT !.query = IF query \in {None, <<>>} THEN None ELSE Encode(query)]

(* A query whose percent signs are encoded before it is set.               *)
EscapedOnceMore(query) ==
  [i \in DOMAIN query |->
     IF query[i].escapes > 0 THEN [query[i] EXCEPT !.escapes = @ + 1]
                             ELSE query[i]]

WithQueryEscaped(u, query) ==
  [u EXCEPT !.query =
     IF query = None THEN None ELSE Encode(EscapedOnceMore(query))]

(* TargetUrl::with_query.                                                  *)
WithQuery(u, query) ==
  [u EXCEPT !.query = IF query = None THEN None ELSE Encode(query)]

-----------------------------------------------------------------------------
(* src/ingress.rs.                                                         *)

(* effective_host: the first Host line counts, if it can be read.          *)
EffectiveHost(message) ==
  IF message.authority # NoHost THEN message.authority
  ELSE IF message.host = <<>> \/ Head(message.host) = Opaque THEN NoHost
  ELSE Head(message.host)

(* connection_header_names.                                                *)
ConnectionHeaderNames(message) ==
  (UNION {line.names : line \in {l \in ToSet(message.connection) : l.readable}})
    \ {NotAName}

(* forwarded_headers.  A Host header is inserted last.                     *)
ForwardedFields(message) ==
  message.fields
    \ ({"content-length", "transfer-encoding"} \cup HopByHop
       \cup ConnectionHeaderNames(message))

(* The Host line copied from the headers.                                  *)
ForwardedHostOfHeader(message, preserve_host) ==
  IF preserve_host /\ message.host # <<>> /\ Head(message.host) # Opaque
  THEN Head(message.host) ELSE NoHost

ForwardedHost(message, preserve_host) ==
  IF preserve_host THEN EffectiveHost(message) ELSE NoHost

-----------------------------------------------------------------------------
Init ==
  /\ url \in Url
  /\ lease \in [host: RouteHost \cup {NoHost}, preserve_host: BOOLEAN]
  /\ stage = "asked"
  /\ incoming = None
  /\ outgoing = None

(* `hmux register` and the control server parse the URL.                   *)
Register ==
  /\ stage = "asked"
  /\ stage' = IF ValidTargetUrl(url) THEN "registered" ELSE "refused"
  /\ UNCHANGED <<url, lease, incoming, outgoing>>

(* forward routes the webhook.                                             *)
Match ==
  /\ stage = "registered"
  /\ \E message \in Incoming :
       /\ stage' = IF HostMatches(lease.host, EffectiveHost(message))
                   THEN "matched" ELSE "passed"
       /\ incoming' = message
  /\ UNCHANGED <<url, lease, outgoing>>

(* deliver, with the Host that reqwest writes when it is given none.       *)
Deliver ==
  /\ stage = "matched"
  /\ stage' = "delivered"
  /\ outgoing' = [url |-> WithQuery(url, incoming.query),
                  fields |-> ForwardedFields(incoming),
                  host |-> ForwardedHost(incoming, lease.preserve_host)]
  /\ UNCHANGED <<url, lease, incoming>>

Next == Register \/ Match \/ Deliver

Spec == Init /\ [][Next]_vars

-----------------------------------------------------------------------------
Delivered == stage = "delivered"

(* Percent-decoding, which is done once.                                   *)
DecodedChar(c) == [c EXCEPT !.escapes = IF @ = 0 THEN 0 ELSE @ - 1]

Decoded(query) ==
  IF query = None THEN None ELSE [i \in DOMAIN query |-> DecodedChar(query[i])]

(* The query a target decodes is the query the sender encoded: what was    *)
(* encoded, perhaps twice, is not encoded once more, and an empty query is *)
(* not taken for none.                                                     *)
QueryMeansTheSame ==
  Delivered => Decoded(outgoing.url.query) = Decoded(incoming.query)

(* A lease that asks for a host and preserves it sees that host: routing   *)
(* and forwarding take the Host of an ambiguous webhook, with an absolute  *)
(* request target or two Host lines, from the same place.                  *)
PreservedHostIsRoutedHost ==
  (Delivered /\ lease.preserve_host /\ lease.host # NoHost) =>
    RouteHostMatches(lease.host, outgoing.host)

-----------------------------------------------------------------------------
(* The inductive invariant of Forwarding_proofs.                           *)

TypeOK ==
  /\ url \in Url
  /\ lease \in [host: RouteHost \cup {NoHost}, preserve_host: BOOLEAN]
  /\ stage \in {"asked", "refused", "registered", "passed", "matched", "delivered"}
  /\ stage \in {"passed", "matched", "delivered"} => incoming \in Incoming

(* Only a URL that validate_target_url accepted gets past registration.    *)
UrlWasValidated == stage \notin {"asked", "refused"} => ValidTargetUrl(url)

(* deliver runs only for a lease that the webhook's own host selected.     *)
HostWasRouted ==
  stage \in {"matched", "delivered"} =>
    HostMatches(lease.host, EffectiveHost(incoming))

(* What was sent is a function of the registered lease and the webhook.    *)
SentAsBuilt ==
  Delivered =>
    /\ outgoing.url = WithQuery(url, incoming.query)
    /\ outgoing.fields = ForwardedFields(incoming)
    /\ outgoing.host = ForwardedHost(incoming, lease.preserve_host)

ForwardingInvariant ==
  TypeOK /\ UrlWasValidated /\ HostWasRouted /\ SentAsBuilt

-----------------------------------------------------------------------------
(* Statements of the documentation that the code does not keep.            *)

(* docs/architecture.md:75: "The incoming method and query string are      *)
(* preserved."                                                             *)
QueryStringPreserved == Delivered => outgoing.url.query = incoming.query

(* README.md:128: "Hop-by-hop headers and headers named by `Connection`    *)
(* are not forwarded."                                                     *)
ConnectionNamedAreNotForwarded ==
  Delivered =>
    \A line \in ToSet(incoming.connection) :
      outgoing.fields \cap line.names = {}
=============================================================================
