------------------------------- MODULE Domain -------------------------------
(***************************************************************************)
(* The value types of src/domain.rs and src/protocol.rs that the rest of   *)
(* the program decides with: case-normalised methods and hosts, target     *)
(* URLs, and the response policy.                                          *)
(*                                                                         *)
(* A text is a word together with the letter case it is written in, which  *)
(* is all that matching and normalisation look at.                         *)
(***************************************************************************)
EXTENDS Integers

CONSTANTS
  Word,     (* Case-folded spellings of methods and hosts.                 *)
  Path,     (* URL paths, compared byte for byte.                          *)
  NoHost    (* None, where an Option<host> is expected.                    *)

LetterCase == {"lower", "upper", "mixed"}

Text == [word: Word, case: LetterCase]

(* sanitize(uppercase) and sanitize(lowercase) of the nutype attributes.   *)
Uppercase(text) == [text EXCEPT !.case = "upper"]
Lowercase(text) == [text EXCEPT !.case = "lower"]

(* Values these types can hold once parsed.                                *)
HttpMethod == {Uppercase(text) : text \in Text}
RouteHost  == {Lowercase(text) : text \in Text}

(* HttpMethod::matches compares with the incoming method byte for byte,    *)
(* RouteHost::matches ignores ASCII case, and a lease without a host       *)
(* accepts every incoming host, a missing one included.                    *)
MethodMatches(value, method) == value = method

RouteHostMatches(value, host) ==
  /\ host # NoHost
  /\ value.word = host.word

HostMatches(expected, actual) ==
  expected # NoHost => RouteHostMatches(expected, actual)

(* A target URL, reduced to the host that is_loopback inspects: a domain   *)
(* name, which passes only when it is localhost, or an IP literal.         *)
TargetUrl ==
  [kind: {"domain"}, localhost: BOOLEAN] \cup
  [kind: {"ipv4", "ipv6"}, loopback: BOOLEAN]

IsLoopback(target) ==
  IF target.kind = "domain" THEN target.localhost ELSE target.loopback

CreateLeaseRequest ==
  [method: HttpMethod, path: Path, host: RouteHost \cup {NoHost},
   target: TargetUrl, preserve_host: BOOLEAN]

(* What Registry::matching is asked: the head of an incoming webhook.      *)
IncomingHead == [method: Text, path: Path, host: Text \cup {NoHost}]

RouteMatches(request, head) ==
  /\ MethodMatches(request.method, head.method)
  /\ request.path = head.path
  /\ HostMatches(request.host, head.host)

ResponsePolicy == {"all", "any", "always"}

(* ResponsePolicy::accepts.                                                *)
Accepts(policy, succeeded, total) ==
  \/ policy = "all" /\ total > 0 /\ succeeded = total
  \/ policy = "any" /\ succeeded > 0
  \/ policy = "always" /\ total > 0
=============================================================================
