-------------------------------- MODULE Egress --------------------------------
(***************************************************************************)
(* A guest's way out (src/http/bridge.rs): the allowlist of a tenant, with *)
(* its matcher step by step, and an outbound call of HttpBridge from the   *)
(* filter over the redirects to the end of the response body.  Calls share *)
(* nothing that changes, so there is one at a time.                        *)
(*                                                                         *)
(* A rule or an authority is a record of scheme, host and port, the first  *)
(* and the last possibly None; a host is the sequence of its labels, up to *)
(* ASCII case.  A request goes to an authority with all three parts, the   *)
(* port being its scheme's where the URI has none.  IPv6 literals are left *)
(* out.                                                                    *)
(***************************************************************************)
EXTENDS Integers, Sequences

CONSTANTS
  Authority,     \* what requests are addressed and redirected to
  Policy,        \* the EgressPolicy values of configurations
  MaxRedirects,  \* RedirectPolicy::limited
  None

\* What splitting a host at its dots yields: at least one label.
Host == Seq(STRING) \ {<< >>}

\* What the theorems assume of the constants.
EgressConstants ==
  /\ \A p \in Policy : p.deny \in BOOLEAN /\ \A rule \in p.allow : rule.host \in Host
  /\ \A a \in Authority : a.host \in Host /\ a.scheme # None /\ a.port # None
  /\ MaxRedirects \in Nat
  /\ None # "403"

VARIABLES
  policy,  \* allow, a set of rules, and deny, for default_deny
  stage,   \* where the outbound call is
  asked,   \* the authority that the guest asked for
  to,      \* the authority that the request is sent to
  hops,    \* redirects followed
  reply    \* what the last call was answered

vars == <<policy, stage, asked, to, hops, reply>>

Star == "*"

(* The one type invariant of the module. *)
TypeOK ==
  /\ policy \in Policy
  /\ stage \in {"idle", "collect", "sent", "read"}
  /\ asked \in Authority \cup {None} /\ to \in Authority \cup {None}
  /\ hops \in 0..MaxRedirects
  /\ reply \in {None, "response", "403", "413", "500", "502"}

-----------------------------------------------------------------------------
\* Two optional parts differ only if both are given.
Differ(a, b) == a # None /\ b # None /\ a # b

\* Label by label: a lone * takes every host; a leading * takes any number of
\* labels, and what follows it is compared as it stands; another * takes one.
HostMatches(p, h) ==
  \/ Len(p) = 1 /\ p[1] = Star
  \/ /\ p[1] = Star
     /\ Len(h) >= Len(p) - 1
     /\ \A i \in 1..Len(p) - 1 : h[Len(h) - (Len(p) - 1) + i] = p[i + 1]
  \/ /\ p[1] # Star
     /\ Len(p) = Len(h)
     /\ \A i \in 1..Len(p) : p[i] \in {Star, h[i]}

PatternMatches(rule, a) ==
  /\ ~Differ(rule.scheme, a.scheme)
  /\ ~Differ(rule.port, a.port)
  /\ HostMatches(rule.host, a.host)

Allows(p, a) == (\E rule \in p.allow : PatternMatches(rule, a)) \/ ~p.deny

\* authority.host(), all that send hands to the policy.
HostOnly(a) == [scheme |-> None, host |-> a.host, port |-> None]

-----------------------------------------------------------------------------
Init ==
  /\ policy \in Policy
  /\ stage = "idle"
  /\ asked = None /\ to = None
  /\ hops = 0
  /\ reply = None

(* A request without an authority. *)
SendNowhere ==
  /\ stage = "idle"
  /\ asked' = None /\ to' = None
  /\ reply' = "500"
  /\ UNCHANGED <<policy, stage, hops>>

(* send: the filter. *)
Send(a) ==
  /\ stage = "idle"
  /\ asked' = a /\ to' = a
  /\ hops' = 0
  /\ \/ /\ Allows(policy, HostOnly(a))
        /\ stage' = "collect" /\ reply' = None
     \/ /\ ~Allows(policy, HostOnly(a))
        /\ stage' = "idle" /\ reply' = "403"
  /\ UNCHANGED policy

\* The call is over.
End(answer) ==
  /\ stage' = "idle"
  /\ reply' = answer
  /\ UNCHANGED <<policy, asked, to, hops>>

(* The guest's body breaks off, or is longer than max_body_bytes. *)
BodyRefused == stage = "collect" /\ (End("500") \/ End("413"))

Collected ==
  /\ stage = "collect"
  /\ stage' = "sent"
  /\ UNCHANGED <<policy, asked, to, hops, reply>>

(* The client follows a redirect, up to its limit, to wherever it points. *)
Redirected(a) ==
  /\ stage = "sent" /\ hops < MaxRedirects
  /\ hops' = hops + 1
  /\ to' = a
  /\ UNCHANGED <<policy, stage, asked, reply>>

(* The head of the response arrives: send returns, the body is read. *)
HeadArrives ==
  /\ stage = "sent"
  /\ stage' = "read"
  /\ UNCHANGED <<policy, asked, to, hops, reply>>

BodyArrives == stage = "read" /\ End("response")

(* A transport error or the time-out of the request, in either half, or one
   redirect too many. *)
UpstreamFails == stage \in {"sent", "read"} /\ End("502")

(* The guest's invocation ends, and its call is dropped. *)
Abandon == stage # "idle" /\ End(None)

Next ==
  \/ SendNowhere
  \/ \E a \in Authority : Send(a) \/ Redirected(a)
  \/ BodyRefused \/ Collected
  \/ HeadArrives \/ BodyArrives \/ UpstreamFails
  \/ Abandon

Spec == Init /\ [][Next]_vars

-----------------------------------------------------------------------------
(* What an allow entry stands for, from the comments on the matcher
   (src/http/bridge.rs:64-71 and 114-115) and not from its code. *)

\* x is h, with * for some of its segments.
Written(x, h) ==
  \E W \in SUBSET (1..Len(h)) : x = [i \in 1..Len(h) |-> IF i \in W THEN Star ELSE h[i]]

\* *.x stands for x and every host under it.
HostCovers(p, h) ==
  \/ Written(p, h)
  \/ /\ Len(p) > 1 /\ p[1] = Star
     /\ \E k \in 0..Len(h) : Written(Tail(p), SubSeq(h, k + 1, Len(h)))

\* A scheme or a port in the entry restricts it.
Covers(rule, a) ==
  /\ rule.scheme \in {None, a.scheme}
  /\ rule.port \in {None, a.port}
  /\ HostCovers(rule.host, a.host)

Permitted(p, a) == ~p.deny \/ \E rule \in p.allow : Covers(rule, a)

(* src/http/bridge.rs:9-11: every outbound request is filtered by the tenant's
   policy before it leaves the process; so wherever one is sent, over
   redirects too, an entry covers, or the policy denies nothing. *)
EveryRequestFiltered == stage \in {"sent", "read"} => Permitted(policy, to)

\* Where the matcher departs from the comments: a lone * takes every host,
\* and a * behind a leading * takes none but itself.
LoneStar(p) == Len(p) = 1 /\ p[1] = Star
StarBehindStar(p) == p[1] = Star /\ \E i \in 2..Len(p) : p[i] = Star

\* The entry without its restrictions.
AnyPort(rule) == [scheme |-> None, host |-> rule.host, port |-> None]

(* What the filter does hold: a call that is under way was let out on the host
   the guest asked for, by an entry that covers it when its scheme and port
   are disregarded, or by a lone *; no call is turned away that an entry
   covers, unless it has a * behind a leading *; and until a redirect is
   followed the request goes where the guest asked. *)
AskedHostFiltered ==
  /\ stage # "idle" =>
       /\ ~policy.deny
          \/ \E rule \in policy.allow : LoneStar(rule.host) \/ Covers(AnyPort(rule), asked)
       /\ hops = 0 => to = asked
  /\ reply = "403" =>
       policy.deny /\ \A rule \in policy.allow : Covers(rule, asked) => StarBehindStar(rule.host)
=============================================================================
