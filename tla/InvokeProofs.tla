----------------------------- MODULE InvokeProofs -----------------------------
(***************************************************************************)
(* The data plane keeps generations, pools and the pools' Mutexes          *)
(* consistent for any number of tenants, requests and digests, any limits  *)
(* and any number of workers, whatever is swapped, trapped, timed out or   *)
(* cancelled.                                                              *)
(***************************************************************************)
EXTENDS Invoke, SequenceTheorems, TLAPS

Busy == {"instantiate", "suspended", "run", "wait", "release"}

(* What may be in a pool. *)
Clean == {p \in Prepared : p.clean}

(* A request inside invoke has its tenant and the digest it loaded; from the
   instantiation to the end of the release, and only then, it owns a store,
   which is of that digest; what it is about to release has returned. *)
RequestInv ==
  \A r \in Request :
    /\ pc[r] # "idle" => tenant[r] \in Tenant /\ snap[r] \in Gen
    /\ pc[r] \in Busy => inst[r] \in Prepared /\ inst[r].gen = snap[r]
    /\ pc[r] \notin Busy => inst[r] = None
    /\ pc[r] = "release" => inst[r] \in Clean

PoolInv == pool \in [Tenant -> Seq(Clean)] /\ PoolBounded

(* The inductive invariant. *)
InvokeInv == TypeOK /\ RequestInv /\ PoolInv /\ LockHeldByInstantiation

-----------------------------------------------------------------------------
(* A queue that loses its front still holds clean instances, and no more. *)
LEMMA PoppedQueue ==
  ASSUME NEW q \in Seq(Clean), NEW i \in 1..Len(q)
  PROVE  /\ SubSeq(q, i + 1, Len(q)) \in Seq(Clean)
         /\ Len(SubSeq(q, i + 1, Len(q))) <= Len(q)
<1>1. Len(q) \in Nat
  BY LenProperties
<1>2. \A j \in (i + 1)..Len(q) : q[j] \in Clean
  BY <1>1, ElementOfSeq
<1> QED
  BY <1>1, <1>2, SubSeqProperties

(* A pool of clean instances is a pool of instances. *)
LEMMA CleanQueues ==
  ASSUME NEW f \in [Tenant -> Seq(Clean)]
  PROVE  f \in [Tenant -> Seq(Prepared)]
<1>1. Clean \subseteq Prepared
  BY DEF Clean
<1>2. ASSUME NEW t \in Tenant PROVE f[t] \in Seq(Prepared)
  BY <1>1, SeqMonotonic
<1> QED
  BY <1>2

(* The passing of an epoch changes neither digest nor cleanliness. *)
LEMMA OlderPrepared ==
  ASSUME NEW p \in Prepared
  PROVE  /\ Older(p) \in Prepared
         /\ Older(p).gen = p.gen
         /\ p \in Clean => Older(p) \in Clean
<1>1. /\ p.left \in 0..EpochDelta /\ p.gen \in Gen /\ p.clean \in BOOLEAN
      /\ p = [gen |-> p.gen, left |-> p.left, clean |-> p.clean]
  BY DEF Prepared
<1>2. (IF p.left > 0 THEN p.left - 1 ELSE 0) \in 0..EpochDelta
  BY <1>1, InvokeAssumption
<1>3. Older(p) = [gen |-> p.gen, left |-> IF p.left > 0 THEN p.left - 1 ELSE 0,
                  clean |-> p.clean]
  BY <1>1 DEF Older
<1>4. Older(p) \in Prepared
  BY <1>1, <1>2, <1>3 DEF Prepared
<1>5. Older(p).gen = p.gen /\ Older(p).clean = p.clean
  BY <1>3
<1> QED
  BY <1>4, <1>5 DEF Clean

(* The epoch passes over a queue without changing its length. *)
LEMMA OlderQueue ==
  ASSUME NEW q \in Seq(Clean)
  PROVE  /\ [i \in 1..Len(q) |-> Older(q[i])] \in Seq(Clean)
         /\ Len([i \in 1..Len(q) |-> Older(q[i])]) = Len(q)
<1> DEFINE o == [i \in 1..Len(q) |-> Older(q[i])]
<1>1. Len(q) \in Nat
  BY LenProperties
<1>2. \A i \in 1..Len(q) : Older(q[i]) \in Clean
  BY ElementOfSeq, OlderPrepared DEF Clean
<1>3. o \in [1..Len(q) -> Clean]
  BY <1>2
<1>4. o \in Seq(Clean)
  BY <1>1, <1>3, SeqDef
<1>5. DOMAIN o = 1..Len(o) /\ Len(o) \in Nat
  BY <1>4, LenProperties
<1>6. DOMAIN o = 1..Len(q)
  OBVIOUS
<1>7. Len(o) = Len(q)
  BY <1>1, <1>5, <1>6
<1> QED
  BY <1>4, <1>7

-----------------------------------------------------------------------------
(* Leaving invoke gives up the tenant, the digest, the store and the Mutex:
   the other requests and the other Mutexes are as before. *)
LEMMA LeaveStep ==
  ASSUME InvokeInv, NEW r \in Request, Leave(r),
         active' \in [Tenant -> Gen],
         pool' \in [Tenant -> Seq(Clean)], PoolBounded'
  PROVE  InvokeInv'
<1> USE InvokeAssumption DEF InvokeInv, TypeOK, Leave
<1>1. pool' \in [Tenant -> Seq(Prepared)]
  BY CleanQueues
<1>2. TypeOK'
  BY <1>1
<1>3. RequestInv'
  BY DEF RequestInv, Busy
<1>4. LockHeldByInstantiation'
  BY DEF LockHeldByInstantiation, RequestInv
<1>5. PoolInv'
  BY DEF PoolInv
<1> QED
  BY <1>2, <1>3, <1>4, <1>5

(* A step that leaves the pools alone leaves their part of the invariant. *)
LEMMA SamePools ==
  ASSUME InvokeInv, UNCHANGED pool
  PROVE  PoolInv' /\ pool' \in [Tenant -> Seq(Prepared)]
BY DEF InvokeInv, PoolInv, PoolBounded, PoolCap, TypeOK

(* Every step of invoke, of the reload loop and of the ticker keeps the
   invariant. *)
LEMMA InvokeStep ==
  ASSUME InvokeInv, [Next]_vars
  PROVE  InvokeInv'
<1> USE InvokeAssumption
<1>1. ASSUME NEW t \in Tenant, NEW g \in Gen, SwapActive(t, g)
      PROVE  InvokeInv'
  BY <1>1, SamePools DEF SwapActive, InvokeInv, TypeOK, RequestInv, LockHeldByInstantiation
<1>2. ASSUME NEW r \in Request, NEW t \in Tenant, Begin(r, t)
      PROVE  InvokeInv'
  <2> USE <1>2 DEF Begin, InvokeInv
  <2>1. TypeOK' /\ PoolInv'
    BY SamePools DEF TypeOK
  <2>2. RequestInv'
    BY DEF TypeOK, RequestInv, Busy
  <2>3. LockHeldByInstantiation'
    BY DEF TypeOK, LockHeldByInstantiation
  <2> QED
    BY <2>1, <2>2, <2>3
<1>3. ASSUME NEW r \in Request, AcquireHit(r)
      PROVE  InvokeInv'
  <2> USE <1>3 DEF InvokeInv
  <2> DEFINE t == tenant[r]
  <2>1. t \in Tenant /\ snap[r] \in Gen /\ pc[r] = "acquire"
    BY DEF AcquireHit, RequestInv
  <2>2. PICK i \in Matches(t, snap[r]) :
          /\ inst' = [inst EXCEPT ![r] = [pool[t][i] EXCEPT !.clean = FALSE]]
          /\ pool' = [pool EXCEPT ![t] = SubSeq(@, i + 1, Len(@))]
    BY DEF AcquireHit
  <2>3. i \in 1..Len(pool[t]) /\ pool[t][i].gen = snap[r]
    BY DEF Matches
  <2>4. pool[t] \in Seq(Clean) /\ pool[t][i] \in Clean
    BY <2>1, <2>3, ElementOfSeq DEF PoolInv
  <2> DEFINE p == [pool[t][i] EXCEPT !.clean = FALSE]
  <2>5. p \in Prepared /\ p.gen = snap[r]
    BY <2>3, <2>4 DEF Prepared, Clean
  <2>6. PoolInv' /\ pool' \in [Tenant -> Seq(Prepared)]
    <3> DEFINE q == SubSeq(pool[t], i + 1, Len(pool[t]))
    <3>1. q \in Seq(Clean) /\ Len(q) <= Len(pool[t]) /\ Len(q) \in Nat
      BY <2>3, <2>4, PoppedQueue, LenProperties
    <3>2. q \in Seq(Prepared)
      BY <3>1, SeqMonotonic DEF Clean
    <3>3. pool' = [pool EXCEPT ![t] = q]
      BY <2>2
    <3>4. Len(q) <= PoolCap(t)
      BY <2>1, <2>4, <3>1, LenProperties DEF PoolInv, PoolBounded, PoolCap
    <3> HIDE DEF q
    <3> QED
      BY <2>1, <3>1, <3>2, <3>3, <3>4 DEF PoolInv, PoolBounded, PoolCap, TypeOK
  <2>7. /\ inst' = [inst EXCEPT ![r] = p] /\ pc' = [pc EXCEPT ![r] = "run"]
        /\ UNCHANGED <<active, lock, tenant, snap>>
    BY <2>2 DEF AcquireHit
  <2> HIDE DEF p
  <2>8. TypeOK'
    BY <2>5, <2>6, <2>7 DEF TypeOK
  <2>9. RequestInv'
    BY <2>1, <2>5, <2>7 DEF TypeOK, RequestInv, Busy
  <2>10. LockHeldByInstantiation'
    BY <2>1, <2>7 DEF TypeOK, LockHeldByInstantiation
  <2> QED
    BY <2>6, <2>8, <2>9, <2>10
<1>4. ASSUME NEW r \in Request, AcquireMiss(r)
      PROVE  InvokeInv'
  <2> USE <1>4 DEF InvokeInv
  <2> DEFINE t == tenant[r]
  <2>1. t \in Tenant /\ snap[r] \in Gen /\ pc[r] = "acquire" /\ lock[t] = None
    BY DEF AcquireMiss, RequestInv
  <2>2. NewStore(snap[r]) \in Prepared /\ NewStore(snap[r]).gen = snap[r]
    BY <2>1 DEF NewStore, Prepared
  <2>3. PoolInv' /\ pool' \in [Tenant -> Seq(Prepared)]
    <3>1. pool' = [pool EXCEPT ![t] = << >>]
      BY DEF AcquireMiss
    <3>2. << >> \in Seq(Clean) /\ << >> \in Seq(Prepared) /\ Len(<< >>) = 0
      BY EmptySeq
    <3>3. 0 <= PoolCap(t)
      BY <2>1 DEF PoolCap
    <3> QED
      BY <2>1, <3>1, <3>2, <3>3 DEF PoolInv, PoolBounded, PoolCap, TypeOK
  <2>4. TypeOK'
    BY <2>1, <2>2, <2>3 DEF TypeOK, AcquireMiss
  <2>5. RequestInv'
    BY <2>1, <2>2 DEF TypeOK, RequestInv, Busy, AcquireMiss
  <2>6. LockHeldByInstantiation'
    BY <2>1 DEF TypeOK, LockHeldByInstantiation, AcquireMiss, RequestInv
  <2> QED
    BY <2>3, <2>4, <2>5, <2>6
<1>13. ASSUME NEW r \in Request, AcquireFull(r)
       PROVE  InvokeInv'
  <2> USE <1>13 DEF InvokeInv
  <2>1. tenant[r] \in Tenant /\ PoolCap(tenant[r]) >= 0
    BY DEF AcquireFull, RequestInv, PoolCap
  <2>2. << >> \in Seq(Clean) /\ Len(<< >>) = 0
    BY EmptySeq
  <2>3. pool' \in [Tenant -> Seq(Clean)] /\ PoolBounded'
    BY <2>1, <2>2 DEF AcquireFull, PoolInv, PoolBounded, PoolCap
  <2> QED
    BY <2>3, LeaveStep DEF AcquireFull, TypeOK
<1>5. ASSUME NEW r \in Request, Instantiated(r)
      PROVE  InvokeInv'
  <2> USE <1>5 DEF InvokeInv, Instantiated
  <2>1. PoolInv' /\ TypeOK'
    BY SamePools DEF TypeOK, RequestInv
  <2>2. RequestInv'
    BY DEF TypeOK, RequestInv, Busy
  <2>3. LockHeldByInstantiation'
    BY DEF TypeOK, LockHeldByInstantiation, RequestInv
  <2> QED
    BY <2>1, <2>2, <2>3
<1>6. ASSUME NEW r \in Request, Leave(r), UNCHANGED <<active, pool>>
      PROVE  InvokeInv'
  BY <1>6, SamePools, LeaveStep DEF PoolInv, InvokeInv, TypeOK
<1>7. ASSUME NEW r \in Request,
             InstantiateError(r) \/ GuestTrap(r) \/ WallTimeout(r) \/ Cancel(r)
      PROVE  InvokeInv'
  BY <1>6, <1>7 DEF InstantiateError, GuestTrap, WallTimeout, Cancel
<1>8. ASSUME NEW r \in Request, GuestAwait(r) \/ GuestResume(r)
      PROVE  InvokeInv'
  <2> USE <1>8 DEF InvokeInv
  <2>1. /\ UNCHANGED <<active, pool, lock, tenant, snap, inst>>
        /\ \/ /\ pc[r] \in {"instantiate", "suspended"}
              /\ \E x \in {"instantiate", "suspended"} : pc' = [pc EXCEPT ![r] = x]
           \/ /\ pc[r] \in {"run", "wait"}
              /\ \E x \in {"run", "wait"} : pc' = [pc EXCEPT ![r] = x]
    <3>1. CASE GuestAwait(r) /\ pc[r] = "run"
      BY <3>1 DEF GuestAwait
    <3>2. CASE GuestAwait(r) /\ pc[r] = "instantiate"
      BY <3>2 DEF GuestAwait
    <3>3. CASE GuestResume(r) /\ pc[r] = "wait"
      BY <3>3 DEF GuestResume
    <3>4. CASE GuestResume(r) /\ pc[r] = "suspended"
      BY <3>4 DEF GuestResume
    <3> QED
      BY <3>1, <3>2, <3>3, <3>4 DEF GuestAwait, GuestResume
  <2>2. PoolInv' /\ TypeOK'
    BY <2>1, SamePools DEF TypeOK
  <2>3. RequestInv'
    BY <2>1 DEF TypeOK, RequestInv, Busy
  <2>4. LockHeldByInstantiation'
    <3>1. \A q \in Request :
            pc'[q] \in {"instantiate", "suspended"} <=> pc[q] \in {"instantiate", "suspended"}
      BY <2>1 DEF TypeOK
    <3> QED
      BY <2>1, <3>1 DEF TypeOK, LockHeldByInstantiation
  <2> QED
    BY <2>2, <2>3, <2>4
<1>9. ASSUME NEW r \in Request, GuestReturn(r)
      PROVE  InvokeInv'
  <2> USE <1>9 DEF InvokeInv
  <2> DEFINE p == [inst[r] EXCEPT !.clean = TRUE]
  <2>1. pc[r] = "run" /\ inst[r] \in Prepared /\ inst[r].gen = snap[r]
    BY DEF GuestReturn, RequestInv, Busy
  <2>2. p \in Prepared /\ p.gen = snap[r] /\ p.clean
    BY <2>1 DEF Prepared
  <2>3. p \in Clean
    BY <2>2 DEF Clean
  <2>4. /\ inst' = [inst EXCEPT ![r] = p] /\ pc' = [pc EXCEPT ![r] = "release"]
        /\ UNCHANGED <<active, pool, lock, tenant, snap>>
    BY DEF GuestReturn
  <2> HIDE DEF p
  <2>5. PoolInv' /\ TypeOK'
    BY <2>2, <2>4, SamePools DEF TypeOK
  <2>6. RequestInv'
    BY <2>1, <2>2, <2>3, <2>4 DEF TypeOK, RequestInv, Busy
  <2>7. LockHeldByInstantiation'
    BY <2>1, <2>4 DEF TypeOK, LockHeldByInstantiation
  <2> QED
    BY <2>5, <2>6, <2>7
<1>10. ASSUME NEW r \in Request, Release(r)
       PROVE  InvokeInv'
  <2> USE <1>10 DEF InvokeInv
  <2> DEFINE t == tenant[r]
             q == IF Len(pool[t]) < PoolCap(t) THEN Append(pool[t], inst[r]) ELSE pool[t]
  <2>1. t \in Tenant /\ inst[r] \in Clean
    BY DEF Release, RequestInv
  <2>2. pool[t] \in Seq(Clean) /\ Len(pool[t]) <= PoolCap(t) /\ Len(pool[t]) \in Nat
    BY <2>1, LenProperties DEF PoolInv, PoolBounded
  <2>3. PoolCap(t) \in Nat
    BY <2>1 DEF PoolCap
  <2>4. q \in Seq(Clean) /\ Len(q) <= PoolCap(t)
    BY <2>1, <2>2, <2>3, AppendProperties
  <2>5. pool' = [pool EXCEPT ![t] = q]
    BY DEF Release
  <2> HIDE DEF q
  <2>6. pool' \in [Tenant -> Seq(Clean)] /\ PoolBounded'
    BY <2>1, <2>4, <2>5 DEF PoolInv, PoolBounded, PoolCap
  <2> QED
    BY <2>6, LeaveStep DEF Release, TypeOK
<1>11. CASE EpochTick
  <2> USE <1>11 DEF InvokeInv
  <2>1. pool' \in [Tenant -> Seq(Clean)] /\ \A t \in Tenant : Len(pool'[t]) = Len(pool[t])
    BY OlderQueue DEF EpochTick, PoolInv
  <2>3. PoolInv' /\ pool' \in [Tenant -> Seq(Prepared)]
    BY <2>1, CleanQueues DEF PoolInv, PoolBounded, PoolCap
  <2>4. inst' \in [Request -> Prepared \cup {None}]
    BY OlderPrepared DEF EpochTick, TypeOK
  <2>5. TypeOK'
    BY <2>3, <2>4 DEF EpochTick, TypeOK
  <2>6. RequestInv'
    BY OlderPrepared DEF EpochTick, TypeOK, RequestInv
  <2>7. LockHeldByInstantiation'
    BY DEF EpochTick, LockHeldByInstantiation
  <2> QED
    BY <2>3, <2>5, <2>6, <2>7
<1>12. CASE UNCHANGED vars
  BY <1>12, SamePools DEF vars, InvokeInv, TypeOK, RequestInv, LockHeldByInstantiation
<1> QED
  BY <1>1, <1>2, <1>3, <1>4, <1>5, <1>7, <1>8, <1>9, <1>10, <1>11, <1>12, <1>13
     DEF Next

(* Before the first request every pool is empty and every Mutex free. *)
LEMMA InvokeInit == Init => InvokeInv
<1> SUFFICES ASSUME Init PROVE InvokeInv
  OBVIOUS
<1>1. << >> \in Seq(Clean) /\ << >> \in Seq(Prepared) /\ Len(<< >>) = 0
  BY EmptySeq
<1>2. PoolInv
  BY <1>1, InvokeAssumption DEF Init, PoolInv, PoolBounded, PoolCap
<1>3. TypeOK /\ RequestInv /\ LockHeldByInstantiation
  BY <1>1, InvokeAssumption DEF Init, TypeOK, RequestInv, Busy, LockHeldByInstantiation
<1> QED
  BY <1>2, <1>3 DEF InvokeInv

(* The invariant implies what the runs check. *)
LEMMA InvokeInvImplies ==
  ASSUME InvokeInv
  PROVE  TypeOK /\ RunsSnapshot /\ PoolBounded /\ PooledClean /\ LockHeldByInstantiation
<1>1. RunsSnapshot
  BY DEF InvokeInv, RequestInv, RunsSnapshot
<1>2. PooledClean
  <2> SUFFICES ASSUME NEW t \in Tenant, NEW i \in 1..Len(pool[t])
               PROVE  pool[t][i].clean
    BY DEF PooledClean
  <2>1. pool[t][i] \in Clean
    BY ElementOfSeq DEF InvokeInv, PoolInv
  <2> QED
    BY <2>1 DEF Clean
<1> QED
  BY <1>1, <1>2 DEF InvokeInv, PoolInv

(* The invariant the theorems below follow from. *)
LEMMA InvokeInvariant == Spec => []InvokeInv
<1>1. InvokeInv /\ [Next]_vars => InvokeInv'
  BY InvokeStep
<1> QED
  BY InvokeInit, <1>1, PTL DEF Spec

-----------------------------------------------------------------------------
(* Tenants, digests, stores and queues keep their types through every step of
   acquire, invoke and release. *)
THEOREM InvokeTypeCorrect == Spec => []TypeOK
BY InvokeInvariant, InvokeInvImplies, PTL

(* A request runs on the digest it loaded from `active`, for any number of
   requests and swaps. *)
THEOREM InvokeRunsSnapshot == Spec => []RunsSnapshot
BY InvokeInvariant, InvokeInvImplies, PTL

(* release never takes a pool beyond the capacity InstancePool::new gave it. *)
THEOREM InvokePoolBounded == Spec => []PoolBounded
BY InvokeInvariant, InvokeInvImplies, PTL

(* No instance that trapped, timed out or was cancelled in mid-call is in a
   pool. *)
THEOREM InvokePooledClean == Spec => []PooledClean
BY InvokeInvariant, InvokeInvImplies, PTL

(* The Mutex of a pool is held across an await exactly by the request that is
   instantiating for its tenant, so no failure and no cancellation leaks it. *)
THEOREM InvokeLockHeld == Spec => []LockHeldByInstantiation
BY InvokeInvariant, InvokeInvImplies, PTL
=============================================================================
