----------------------------- MODULE EgressProofs -----------------------------
(***************************************************************************)
(* What the matcher of the allowlist decides and what its comments say     *)
(* entries mean, compared for every rule and host; what is left of it when *)
(* it is asked with a host alone; and what the filter of an outbound call  *)
(* therefore guarantees, for every policy and every redirect.              *)
(***************************************************************************)
EXTENDS Egress, SequenceTheorems, TLAPS

(* A pattern is written like a host if they agree in length and in every
   segment that is not a star. *)
LEMMA WrittenLabels ==
  ASSUME NEW p \in Seq(STRING), NEW h \in Seq(STRING)
  PROVE  Written(p, h) <=> Len(p) = Len(h) /\ \A i \in 1..Len(p) : p[i] \in {Star, h[i]}
<1>1. /\ p \in [1..Len(p) -> STRING] /\ DOMAIN p = 1..Len(p)
      /\ Len(h) \in Nat /\ Len(p) \in Nat
  BY LenProperties
<1>2. ASSUME Len(p) = Len(h), \A i \in 1..Len(p) : p[i] \in {Star, h[i]}
      PROVE  Written(p, h)
  <2> DEFINE W == {i \in 1..Len(h) : p[i] = Star}
  <2>1. p = [i \in 1..Len(h) |-> IF i \in W THEN Star ELSE h[i]]
    BY <1>1, <1>2
  <2>2. W \in SUBSET (1..Len(h))
    OBVIOUS
  <2> QED
    BY <2>1, <2>2 DEF Written
<1>3. ASSUME Written(p, h)
      PROVE  Len(p) = Len(h) /\ \A i \in 1..Len(p) : p[i] \in {Star, h[i]}
  <2>1. PICK W \in SUBSET (1..Len(h)) :
          p = [i \in 1..Len(h) |-> IF i \in W THEN Star ELSE h[i]]
    BY <1>3 DEF Written
  <2>2. 1..Len(p) = 1..Len(h)
    BY <1>1, <2>1
  <2>3. Len(p) = Len(h)
    BY <1>1, <2>2
  <2> QED
    BY <2>1, <2>3
<1> QED
  BY <1>2, <1>3

(* What is left of a host when its first k labels are dropped. *)
LEMMA Suffix ==
  ASSUME NEW h \in Seq(STRING), NEW k \in 0..Len(h)
  PROVE  /\ SubSeq(h, k + 1, Len(h)) \in Seq(STRING)
         /\ Len(SubSeq(h, k + 1, Len(h))) = Len(h) - k
         /\ \A i \in 1..(Len(h) - k) : SubSeq(h, k + 1, Len(h))[i] = h[k + i]
<1> DEFINE s == SubSeq(h, k + 1, Len(h))
<1>1. Len(h) \in Nat
  BY LenProperties
<1>2. \A i \in (k + 1)..Len(h) : h[i] \in STRING
  BY <1>1, ElementOfSeq
<1>3. /\ s \in Seq(STRING)
      /\ Len(s) = IF k + 1 <= Len(h) THEN Len(h) - (k + 1) + 1 ELSE 0
      /\ \A i \in 1..(Len(h) - (k + 1) + 1) : s[i] = h[k + 1 + i - 1]
  BY <1>1, <1>2, SubSeqProperties
<1>4. Len(s) = Len(h) - k
  BY <1>1, <1>3
<1>5. \A i \in 1..(Len(h) - k) : s[i] = h[k + i]
  BY <1>1, <1>3
<1> QED
  BY <1>3, <1>4, <1>5

(* *.x in terms of labels: the last ones of the host are those of x. *)
LEMMA UnderLabels ==
  ASSUME NEW x \in Seq(STRING), NEW h \in Seq(STRING)
  PROVE  (\E k \in 0..Len(h) : Written(x, SubSeq(h, k + 1, Len(h)))) <=>
           Len(h) >= Len(x) /\ \A i \in 1..Len(x) : x[i] \in {Star, h[Len(h) - Len(x) + i]}
<1>1. Len(h) \in Nat /\ Len(x) \in Nat
  BY LenProperties
<1>2. ASSUME NEW k \in 0..Len(h)
      PROVE  Written(x, SubSeq(h, k + 1, Len(h))) <=>
               Len(x) = Len(h) - k /\ \A i \in 1..Len(x) : x[i] \in {Star, h[k + i]}
  <2> DEFINE s == SubSeq(h, k + 1, Len(h))
  <2>1. s \in Seq(STRING) /\ Len(s) = Len(h) - k /\ \A i \in 1..(Len(h) - k) : s[i] = h[k + i]
    BY Suffix
  <2> HIDE DEF s
  <2>2. Written(x, s) <=> Len(x) = Len(s) /\ \A i \in 1..Len(x) : x[i] \in {Star, s[i]}
    BY <2>1, WrittenLabels
  <2>3. Written(x, s) <=> Len(x) = Len(h) - k /\ \A i \in 1..Len(x) : x[i] \in {Star, h[k + i]}
    BY <2>1, <2>2
  <2> QED
    BY <2>3 DEF s
<1>3. ASSUME Len(h) >= Len(x), \A i \in 1..Len(x) : x[i] \in {Star, h[Len(h) - Len(x) + i]}
      PROVE  \E k \in 0..Len(h) : Written(x, SubSeq(h, k + 1, Len(h)))
  <2>1. Len(h) - Len(x) \in 0..Len(h) /\ Len(x) = Len(h) - (Len(h) - Len(x))
    BY <1>1, <1>3
  <2> QED
    BY <1>2, <1>3, <2>1
<1>4. ASSUME NEW k \in 0..Len(h), Written(x, SubSeq(h, k + 1, Len(h)))
      PROVE  Len(h) >= Len(x) /\ \A i \in 1..Len(x) : x[i] \in {Star, h[Len(h) - Len(x) + i]}
  <2>1. Len(x) = Len(h) - k /\ \A i \in 1..Len(x) : x[i] \in {Star, h[k + i]}
    BY <1>2, <1>4
  <2>2. k = Len(h) - Len(x) /\ Len(h) >= Len(x)
    BY <1>1, <2>1
  <2> QED
    BY <2>1, <2>2
<1> QED
  BY <1>3, <1>4

(* The matcher takes nothing that the comments exclude, but for a lone star,
   and leaves out nothing that they include, but behind a leading star. *)
LEMMA HostMatcher ==
  ASSUME NEW p \in Host, NEW h \in Host
  PROVE  /\ HostMatches(p, h) => HostCovers(p, h) \/ LoneStar(p)
         /\ HostCovers(p, h) /\ ~StarBehindStar(p) => HostMatches(p, h)
<1> DEFINE x == Tail(p)
<1>1. p \in Seq(STRING) /\ h \in Seq(STRING) /\ Len(h) \in Nat /\ Len(p) \in Nat
  BY LenProperties DEF Host
<1>2. /\ x \in Seq(STRING) /\ Len(x) = Len(p) - 1
      /\ \A i \in 1..Len(x) : x[i] = p[i + 1]
  BY HeadTailProperties DEF Host
<1>3. Len(p) >= 1 /\ Len(h) >= 1
  BY <1>1, EmptySeq DEF Host
<1> HIDE DEF x
<1>4. Written(p, h) <=> Len(p) = Len(h) /\ \A i \in 1..Len(p) : p[i] \in {Star, h[i]}
  BY <1>1, WrittenLabels
<1>5. (\E k \in 0..Len(h) : Written(x, SubSeq(h, k + 1, Len(h)))) <=>
        Len(h) >= Len(x) /\ \A i \in 1..Len(x) : x[i] \in {Star, h[Len(h) - Len(x) + i]}
  BY <1>1, <1>2, UnderLabels
<1>6. HostCovers(p, h) <=>
        \/ Written(p, h)
        \/ /\ Len(p) > 1 /\ p[1] = Star
           /\ Len(h) >= Len(x)
           /\ \A i \in 1..Len(x) : x[i] \in {Star, h[Len(h) - Len(x) + i]}
  BY <1>5 DEF HostCovers, x
<1>7. HostMatches(p, h) <=>
        \/ LoneStar(p)
        \/ /\ p[1] = Star /\ Len(h) >= Len(x)
           /\ \A i \in 1..Len(x) : h[Len(h) - Len(x) + i] = x[i]
        \/ /\ p[1] # Star /\ Len(p) = Len(h)
           /\ \A i \in 1..Len(p) : p[i] \in {Star, h[i]}
  BY <1>1, <1>2 DEF HostMatches, LoneStar
<1>8. ASSUME p[1] = Star, ~LoneStar(p) PROVE Len(p) > 1
  <2>1. Len(p) # 1
    BY <1>8 DEF LoneStar
  <2>2. Len(p) \in Nat /\ Len(p) >= 1
    BY <1>1, <1>3
  <2>3. \A n \in Nat : n >= 1 /\ n # 1 => n > 1
    OBVIOUS
  <2> QED
    BY <2>1, <2>2, <2>3
<1>9. ASSUME HostMatches(p, h), ~LoneStar(p) PROVE HostCovers(p, h)
  <2>1. CASE /\ p[1] = Star /\ Len(h) >= Len(x)
             /\ \A i \in 1..Len(x) : h[Len(h) - Len(x) + i] = x[i]
    <3>1. Len(p) > 1
      BY <1>8, <1>9, <2>1
    <3>2. \A i \in 1..Len(x) : x[i] \in {Star, h[Len(h) - Len(x) + i]}
      BY <2>1
    <3> QED
      BY <1>6, <2>1, <3>1, <3>2
  <2>2. CASE Len(p) = Len(h) /\ \A i \in 1..Len(p) : p[i] \in {Star, h[i]}
    BY <1>4, <1>6, <2>2
  <2> QED
    BY <1>7, <1>9, <2>1, <2>2
<1>10. ASSUME HostCovers(p, h), ~StarBehindStar(p), p[1] = Star, ~LoneStar(p)
       PROVE  HostMatches(p, h)
  <2>1. \A i \in 1..Len(x) : x[i] # Star
    BY <1>1, <1>2, <1>10 DEF StarBehindStar
  <2>2. CASE Written(p, h)
    <3>1. Len(x) = Len(h) - 1
      BY <1>1, <1>2, <1>4, <2>2
    <3>2. ASSUME NEW i \in 1..Len(x) PROVE h[Len(h) - Len(x) + i] = x[i]
      <4>1. i + 1 \in 1..Len(p) /\ Len(h) - Len(x) + i = i + 1
        BY <1>1, <1>2, <3>1
      <4>2. p[i + 1] \in {Star, h[i + 1]}
        BY <1>4, <2>2, <4>1
      <4> QED
        BY <1>2, <2>1, <4>1, <4>2
    <3> QED
      BY <1>1, <1>7, <1>10, <3>1, <3>2
  <2>3. CASE /\ Len(h) >= Len(x)
             /\ \A i \in 1..Len(x) : x[i] \in {Star, h[Len(h) - Len(x) + i]}
    BY <1>7, <1>10, <2>1, <2>3
  <2> QED
    BY <1>6, <1>10, <2>2, <2>3
<1>11. ASSUME HostCovers(p, h), p[1] # Star PROVE HostMatches(p, h)
  BY <1>4, <1>6, <1>7, <1>11
<1> QED
  BY <1>7, <1>9, <1>10, <1>11

(* pattern_matches, asked with a scheme, a host and a port, says yes to
   nothing that the documented meaning of the rule excludes, except for a
   lone star, and to all that it includes, except with a star behind a
   leading star. *)
THEOREM MatcherCorrect ==
  ASSUME NEW rule, NEW a, rule.host \in Host, a.host \in Host,
         a.scheme # None, a.port # None
  PROVE  /\ PatternMatches(rule, a) => Covers(rule, a) \/ LoneStar(rule.host)
         /\ Covers(rule, a) /\ ~StarBehindStar(rule.host) => PatternMatches(rule, a)
BY HostMatcher DEF PatternMatches, Covers, Differ

(* Asked with the host alone, as send asks it, the policy decides as if no
   entry named a scheme or a port: these restrictions are never enforced on an
   outbound call. *)
THEOREM HostAloneForgetsRestrictions ==
  ASSUME NEW p, NEW a
  PROVE  Allows(p, HostOnly(a)) <=>
           Allows([allow |-> {AnyPort(rule) : rule \in p.allow}, deny |-> p.deny], a)
<1> DEFINE q == [allow |-> {AnyPort(rule) : rule \in p.allow}, deny |-> p.deny]
<1>1. \A rule : PatternMatches(rule, HostOnly(a)) <=> HostMatches(rule.host, a.host)
  BY DEF PatternMatches, Differ, HostOnly
<1>2. \A rule : PatternMatches(AnyPort(rule), a) <=> HostMatches(rule.host, a.host)
  BY DEF PatternMatches, Differ, AnyPort
<1>3. q.allow = {AnyPort(rule) : rule \in p.allow} /\ q.deny = p.deny
  OBVIOUS
<1> HIDE DEF q
<1>4. (\E rule \in q.allow : PatternMatches(rule, a)) <=>
        \E rule \in p.allow : PatternMatches(AnyPort(rule), a)
  BY <1>3
<1>5. Allows(p, HostOnly(a)) <=> Allows(q, a)
  BY <1>1, <1>2, <1>3, <1>4 DEF Allows
<1> QED
  BY <1>5 DEF q

-----------------------------------------------------------------------------
(* The decision of send, in the documented meaning of the entries. *)
LEMMA SendDecides ==
  ASSUME EgressConstants, NEW p \in Policy, NEW a \in Authority
  PROVE  /\ Allows(p, HostOnly(a)) =>
              \/ ~p.deny
              \/ \E rule \in p.allow : LoneStar(rule.host) \/ Covers(AnyPort(rule), a)
         /\ ~Allows(p, HostOnly(a)) =>
              p.deny /\ \A rule \in p.allow : Covers(rule, a) => StarBehindStar(rule.host)
<1>1. p.deny \in BOOLEAN /\ a.host \in Host /\ \A rule \in p.allow : rule.host \in Host
  BY DEF EgressConstants
<1>2. Allows(p, HostOnly(a)) <=>
        (\E rule \in p.allow : HostMatches(rule.host, a.host)) \/ ~p.deny
  BY DEF Allows, PatternMatches, Differ, HostOnly
<1>3. ASSUME NEW rule \in p.allow
      PROVE  /\ HostMatches(rule.host, a.host) =>
                  LoneStar(rule.host) \/ Covers(AnyPort(rule), a)
             /\ Covers(rule, a) => HostMatches(rule.host, a.host) \/ StarBehindStar(rule.host)
  BY <1>1, HostMatcher DEF Covers, AnyPort
<1> QED
  BY <1>1, <1>2, <1>3

(* A policy is never changed under a call, and a 403 is about the authority
   asked for. *)
EgressInv == TypeOK /\ AskedHostFiltered

(* Before the first call nothing has been decided. *)
LEMMA EgressInit == EgressConstants /\ Init => EgressInv
<1> SUFFICES ASSUME EgressConstants, Init PROVE EgressInv
  OBVIOUS
<1>1. TypeOK
  BY DEF EgressConstants, Init, TypeOK
<1>2. AskedHostFiltered
  BY DEF EgressConstants, Init, AskedHostFiltered
<1> QED
  BY <1>1, <1>2 DEF EgressInv

(* Each step keeps the invariant: only send decides, and only a redirect moves
   the request. *)
LEMMA EgressStep ==
  ASSUME EgressConstants, EgressInv, [Next]_vars
  PROVE  EgressInv'
<1> USE DEF EgressInv, TypeOK
<1>1. CASE SendNowhere
  BY <1>1 DEF SendNowhere, AskedHostFiltered
<1>2. ASSUME NEW a \in Authority, Send(a) PROVE EgressInv'
  <2>1. policy \in Policy /\ policy' = policy /\ asked' = a /\ to' = a /\ hops' = 0
    BY <1>2 DEF Send
  <2>2. CASE Allows(policy, HostOnly(a)) /\ stage' = "collect" /\ reply' = None
    <3>1. \/ ~policy.deny
          \/ \E rule \in policy.allow : LoneStar(rule.host) \/ Covers(AnyPort(rule), a)
      BY <2>1, <2>2, SendDecides
    <3>2. reply' # "403"
      BY <2>2 DEF EgressConstants
    <3>3. AskedHostFiltered'
      BY <2>1, <3>1, <3>2 DEF AskedHostFiltered
    <3> QED
      BY <2>1, <2>2, <3>3 DEF EgressConstants
  <2>3. CASE ~Allows(policy, HostOnly(a)) /\ stage' = "idle" /\ reply' = "403"
    <3>1. policy.deny /\ \A rule \in policy.allow : Covers(rule, a) => StarBehindStar(rule.host)
      BY <2>1, <2>3, SendDecides
    <3>2. AskedHostFiltered'
      BY <2>1, <2>3, <3>1 DEF AskedHostFiltered
    <3> QED
      BY <2>1, <2>3, <3>2 DEF EgressConstants
  <2> QED
    BY <1>2, <2>2, <2>3 DEF Send
<1>3. ASSUME NEW a \in Authority, Redirected(a) PROVE EgressInv'
  <2>1. /\ hops \in Nat /\ hops' = hops + 1 /\ hops < MaxRedirects /\ MaxRedirects \in Nat
        /\ to' = a /\ UNCHANGED <<policy, stage, asked, reply>>
    BY <1>3 DEF Redirected, EgressConstants
  <2>2. hops' \in 0..MaxRedirects /\ hops' # 0
    BY <2>1
  <2>3. AskedHostFiltered'
    BY <2>1, <2>2 DEF AskedHostFiltered
  <2> QED
    BY <2>1, <2>2, <2>3
<1>4. CASE Collected \/ HeadArrives
  BY <1>4 DEF Collected, HeadArrives, AskedHostFiltered
<1>5. ASSUME NEW answer \in {None, "response", "413", "500", "502"}, End(answer)
      PROVE  EgressInv'
  <2>1. answer # "403"
    BY DEF EgressConstants
  <2>2. AskedHostFiltered'
    BY <1>5, <2>1 DEF End, AskedHostFiltered
  <2> QED
    BY <1>5, <2>2 DEF End
<1>6. CASE BodyRefused \/ BodyArrives \/ UpstreamFails \/ Abandon
  BY <1>5, <1>6 DEF BodyRefused, BodyArrives, UpstreamFails, Abandon
<1>7. CASE UNCHANGED vars
  BY <1>7 DEF vars, AskedHostFiltered
<1> QED
  BY <1>1, <1>2, <1>3, <1>4, <1>6, <1>7 DEF Next

(* Outbound calls keep their types, and no more redirects are followed than
   the client's limit. *)
THEOREM EgressTypeCorrect ==
  ASSUME EgressConstants
  PROVE  Spec => []TypeOK
<1>1. EgressInv /\ [Next]_vars => EgressInv'
  BY EgressStep
<1>2. Init => EgressInv
  BY EgressInit
<1>3. EgressInv => TypeOK
  BY DEF EgressInv
<1> QED
  BY <1>1, <1>2, <1>3, PTL DEF Spec

(* What the filter guarantees for every policy, guest and upstream: the host
   that the guest asks for is let out by an entry whose host covers it, or by
   a lone star, and a call that an entry covers is refused only with a star
   behind a leading star.  It says nothing of the scheme and the port, nor of
   where a redirect leads. *)
THEOREM EgressAskedHostFiltered ==
  ASSUME EgressConstants
  PROVE  Spec => []AskedHostFiltered
<1>1. EgressInv /\ [Next]_vars => EgressInv'
  BY EgressStep
<1>2. Init => EgressInv
  BY EgressInit
<1>3. EgressInv => AskedHostFiltered
  BY DEF EgressInv
<1> QED
  BY <1>1, <1>2, <1>3, PTL DEF Spec
=============================================================================
