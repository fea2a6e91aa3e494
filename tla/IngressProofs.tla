----------------------------- MODULE IngressProofs -----------------------------
(***************************************************************************)
(* Permits and calls agree for any number of connections, permits,         *)
(* workers, tenants and digests, through time-outs, disconnects, panics,   *)
(* drains and restarts.  The invariant of Invoke carries over: all steps   *)
(* here but the end and the restart of the process are steps of Invoke.    *)
(***************************************************************************)
EXTENDS Ingress, InvokeProofs, FiniteSetTheorems

CallsHeld == \A r \in Request : pc[r] # "idle" <=> stage[r] = "invoke"

PermitsHeld == Cardinality(Holders) <= Concurrency

(* The inductive invariant. *)
IngressInv ==
  InvokeInv /\ IngressTypeOK /\ CallsHeld /\ PermitsHeld

-----------------------------------------------------------------------------
(* Sets of requests are finite, and a smaller one has no more members. *)
LEMMA RequestsFinite ==
  ASSUME NEW S, NEW T, T \subseteq Request, S \subseteq T
  PROVE  /\ IsFiniteSet(S) /\ Cardinality(S) \in Nat
         /\ IsFiniteSet(T) /\ Cardinality(T) \in Nat
         /\ Cardinality(S) <= Cardinality(T)
<1>1. IsFiniteSet(T)
  BY InvokeAssumption, FS_Subset
<1>2. IsFiniteSet(S) /\ Cardinality(S) <= Cardinality(T)
  BY <1>1, FS_Subset
<1> QED
  BY <1>1, <1>2, FS_CardinalityType

(* A step inside invoke moves one request, which is inside already. *)
LEMMA CallMovesOne ==
  ASSUME TypeOK, NEW r \in Request, CallStep(r) \/ Release(r) \/ Cancel(r)
  PROVE  /\ pc[r] # "idle"
         /\ \A q \in Request : q # r => pc'[q] = pc[q]
BY DEF CallStep, TypeOK, AcquireHit, AcquireMiss, AcquireFull, Instantiated,
       InstantiateError, GuestAwait, GuestResume, GuestReturn, GuestTrap, WallTimeout, Release,
       Cancel, Leave

(* Release and cancellation end the call. *)
LEMMA CallEnds ==
  ASSUME TypeOK, NEW r \in Request, Release(r) \/ Cancel(r)
  PROVE  pc'[r] = "idle"
BY DEF TypeOK, Release, Cancel, Leave

(* A step of the ingress is one of Invoke, the end or the start of the
   process, or leaves Invoke's state alone. *)
LEMMA IngressIsInvoke ==
  ASSUME IngressNext
  PROVE  [Next]_vars \/ ProcessGone \/ Restart
BY DEF IngressNext, Next, Arrive, TakePermit, Refuse, DispatchTo, CallStep, Respond,
       ResponsePanics, Stop, Expire, Disconnect, DropHandler, EpochTicker, ReloadLoop,
       ShutdownSignal

(* Ending drops the pools, starting takes up whatever is active then. *)
LEMMA InvokeInvKept ==
  ASSUME InvokeInv, [IngressNext]_allVars
  PROVE  InvokeInv'
<1> USE InvokeAssumption
<1>1. CASE ProcessGone
  <2>1. << >> \in Seq(Clean) /\ << >> \in Seq(Prepared) /\ Len(<< >>) = 0
    BY EmptySeq
  <2>2. PoolInv'
    BY <1>1, <2>1 DEF ProcessGone, PoolInv, PoolBounded, PoolCap
  <2>3. TypeOK'
    BY <1>1, <2>1 DEF ProcessGone, InvokeInv, TypeOK
  <2>4. RequestInv' /\ LockHeldByInstantiation'
    <3>1. \A r \in Request : pc'[r] = "idle" /\ inst'[r] = None
      BY <1>1 DEF ProcessGone
    <3>2. \A t \in Tenant : lock'[t] = None
      BY <1>1 DEF ProcessGone
    <3> QED
      BY <3>1, <3>2 DEF RequestInv, LockHeldByInstantiation, Busy
  <2> QED
    BY <2>2, <2>3, <2>4 DEF InvokeInv
<1>2. CASE Restart
  BY <1>2, SamePools DEF Restart, InvokeInv, TypeOK, RequestInv, LockHeldByInstantiation
<1>3. CASE [Next]_vars
  BY <1>3, InvokeStep
<1>4. CASE UNCHANGED allVars
  BY <1>4, InvokeStep DEF allVars
<1> QED
  BY <1>1, <1>2, <1>3, <1>4, IngressIsInvoke

(* Requests enter and leave invoke together with their stage. *)
LEMMA StageStep ==
  ASSUME IngressInv, [IngressNext]_allVars
  PROVE  /\ CallsHeld'
         /\ life' \in {"serving", "draining", "stopped"}
         /\ stage' \in [Request -> {"none", "queued", "body", "invoke"}]
         /\ \A r \in Request :
              r \in Holders' => r \in Holders \/ TakePermit(r)
<1> DEFINE Goal == /\ CallsHeld'
                   /\ life' \in {"serving", "draining", "stopped"}
                   /\ stage' \in [Request -> {"none", "queued", "body", "invoke"}]
                   /\ \A r \in Request :
                        r \in Holders' => r \in Holders \/ TakePermit(r)
<1> USE DEF IngressInv, IngressTypeOK, InvokeInv, CallsHeld, Holders, MoveTo
<1>1. ASSUME NEW r \in Request, Arrive(r) \/ TakePermit(r) \/ Refuse(r)
      PROVE  Goal
  <2>1. UNCHANGED <<pc, life>>
    BY <1>1 DEF Arrive, TakePermit, Refuse, vars
  <2>2. /\ stage[r] # "invoke"
        /\ \E x \in {"none", "queued", "body"} :
             /\ stage' = [stage EXCEPT ![r] = x]
             /\ x = "body" => TakePermit(r)
    BY <1>1 DEF Arrive, TakePermit, Refuse
  <2> QED
    BY <2>1, <2>2
<1>2. ASSUME NEW r \in Request, NEW t \in Tenant, DispatchTo(r, t)
      PROVE  Goal
  BY <1>2 DEF DispatchTo, Begin, TypeOK
<1>3. ASSUME NEW r \in Request, CallStep(r) \/ Respond(r)
      PROVE  Goal
  <2>1. UNCHANGED life /\ Settle(r)
    BY <1>3 DEF CallStep, Respond
  <2>2. pc[r] # "idle" /\ \A q \in Request : q # r => pc'[q] = pc[q]
    BY <1>3, CallMovesOne DEF Respond
  <2> QED
    BY <2>1, <2>2 DEF Settle
<1>4. ASSUME NEW r \in Request, DropHandler(r)
      PROVE  Goal
  <2>1. UNCHANGED life /\ stage' = [stage EXCEPT ![r] = "none"]
    BY <1>4 DEF DropHandler
  <2>2. CASE stage[r] = "body" /\ UNCHANGED vars
    BY <2>1, <2>2 DEF vars
  <2>3. CASE stage[r] = "invoke" /\ Cancel(r)
    BY <2>1, <2>3, CallMovesOne, CallEnds
  <2> QED
    BY <1>4, <2>2, <2>3 DEF DropHandler
<1>5. ASSUME NEW r \in Request, Expire(r) \/ Disconnect(r)
      PROVE  Goal
  <2>1. CASE stage[r] = "queued" /\ MoveTo(r, "none") /\ UNCHANGED <<vars, life>>
    BY <2>1 DEF vars
  <2> QED
    BY <1>4, <1>5, <2>1 DEF Expire, Disconnect
<1>6. CASE EpochTicker \/ \E t \in Tenant : \E g \in Gen : ReloadLoop(t, g)
  BY <1>6 DEF EpochTicker, EpochTick, ReloadLoop, SwapActive, ingressVars
<1>7. CASE ProcessGone
  BY <1>7 DEF ProcessGone
<1>8. CASE ShutdownSignal \/ Restart
  BY <1>8 DEF ShutdownSignal, Restart, vars
<1>9. CASE UNCHANGED allVars
  BY <1>9 DEF allVars, vars, ingressVars
<1> QED
  BY <1>1, <1>2, <1>3, <1>5, <1>6, <1>7, <1>8, <1>9 DEF IngressNext, ResponsePanics, Stop

(* Only TakePermit adds a holder, one, and only below the limit. *)
LEMMA PermitStep ==
  ASSUME IngressInv, [IngressNext]_allVars
  PROVE  PermitsHeld'
<1> USE IngressAssumption
<1>1. Holders \subseteq Request /\ Holders' \subseteq Request
  BY DEF Holders
<1>2. CASE \E r \in Request : TakePermit(r)
  <2>1. PICK r \in Request : TakePermit(r)
    BY <1>2
  <2>2. Holders' = Holders \cup {r}
    BY <2>1 DEF IngressInv, IngressTypeOK, TakePermit, MoveTo, Holders
  <2>3. IsFiniteSet(Holders) /\ Cardinality(Holders) \in Nat
    BY <1>1, RequestsFinite
  <2>4. Cardinality(Holders \cup {r}) =
          IF r \in Holders THEN Cardinality(Holders) ELSE Cardinality(Holders) + 1
    BY <2>3, FS_AddElement, Zenon
  <2>5. Cardinality(Holders) < Concurrency
    BY <2>1 DEF TakePermit
  <2>6. Cardinality(Holders') \in Nat
    BY <1>1, RequestsFinite
  <2> QED
    BY <2>2, <2>3, <2>4, <2>5, <2>6 DEF PermitsHeld
<1>3. CASE ~\E r \in Request : TakePermit(r)
  <2>1. Holders' \subseteq Holders
    BY <1>1, <1>3, StageStep
  <2>2. /\ Cardinality(Holders') <= Cardinality(Holders)
        /\ Cardinality(Holders') \in Nat /\ Cardinality(Holders) \in Nat
    BY <1>1, <2>1, RequestsFinite
  <2> QED
    BY <2>2 DEF IngressInv, PermitsHeld
<1> QED
  BY <1>2, <1>3

(* Without connections there is nothing to bound. *)
LEMMA IngressInitInv == IngressInit => IngressInv
<1> SUFFICES ASSUME IngressInit PROVE IngressInv
  OBVIOUS
<1>1. InvokeInv
  BY InvokeInit DEF IngressInit
<1>2. Holders = {} /\ PermitsHeld
  <2>1. Holders = {}
    BY DEF IngressInit, Holders
  <2> QED
    BY <2>1, FS_EmptySet, IngressAssumption DEF PermitsHeld
<1>3. IngressTypeOK /\ CallsHeld
  BY DEF IngressInit, Init, IngressTypeOK, CallsHeld
<1> QED
  BY <1>1, <1>2, <1>3 DEF IngressInv

(* The invariant the theorems below follow from. *)
LEMMA IngressInvariant == IngressSpec => []IngressInv
<1>1. IngressInv /\ [IngressNext]_allVars => IngressInv'
  <2> SUFFICES ASSUME IngressInv, [IngressNext]_allVars PROVE IngressInv'
    OBVIOUS
  <2>1. InvokeInv'
    BY InvokeInvKept DEF IngressInv
  <2> QED
    BY <2>1, StageStep, PermitStep DEF IngressInv, IngressTypeOK
<1> QED
  BY IngressInitInv, <1>1, PTL DEF IngressSpec

-----------------------------------------------------------------------------
(* The stages and the process's life keep their types. *)
THEOREM IngressTypeCorrect == IngressSpec => []IngressTypeOK
<1>1. IngressInv => IngressTypeOK
  BY DEF IngressInv
<1> QED
  BY IngressInvariant, <1>1, PTL

(* Never more calls than permits, and no call without one, for any number of
   connections dropped at any await. *)
THEOREM IngressPermitsBoundCalls == IngressSpec => []PermitsBoundCalls
<1>1. ASSUME IngressInv PROVE PermitsBoundCalls
  <2> DEFINE In == {r \in Request : pc[r] # "idle"}
  <2>1. In \subseteq Holders /\ Holders \subseteq Request
    BY <1>1 DEF IngressInv, CallsHeld, Holders
  <2>2. /\ Cardinality(In) <= Cardinality(Holders)
        /\ Cardinality(In) \in Nat /\ Cardinality(Holders) \in Nat
    BY <2>1, RequestsFinite
  <2>3. Cardinality(In) <= Concurrency
    BY <1>1, <2>2, IngressAssumption DEF IngressInv, PermitsHeld
  <2> QED
    BY <1>1, <2>3 DEF IngressInv, CallsHeld, PermitsBoundCalls
<1> QED
  BY IngressInvariant, <1>1, PTL

(* Around the ingress, through drains and restarts, the pools, generations
   and Mutexes stay as consistent as they are without it. *)
THEOREM IngressKeepsInvoke ==
  IngressSpec => [](RunsSnapshot /\ PoolBounded /\ PooledClean /\ LockHeldByInstantiation)
<1>1. IngressInv => RunsSnapshot /\ PoolBounded /\ PooledClean /\ LockHeldByInstantiation
  BY InvokeInvImplies DEF IngressInv
<1> QED
  BY IngressInvariant, <1>1, PTL
=============================================================================
