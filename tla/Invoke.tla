-------------------------------- MODULE Invoke --------------------------------
(***************************************************************************)
(* The data plane: a request's way through invoke and the tenant's         *)
(* InstancePool (src/runtime/invoke.rs), under the engine's pooling        *)
(* allocator and epoch ticker (src/runtime/engine.rs) and the time-out and *)
(* concurrency layers of the ingress (src/http/ingress.rs).                *)
(*                                                                         *)
(* A member of Request is a slot of ConcurrencyLimitLayer: it is reused by *)
(* one request after another.  Steps are cut where the code awaits.  A     *)
(* guest that computes, in a call or in the start code that instantiation  *)
(* runs, keeps its tokio worker: it neither yields nor lets a time-out be  *)
(* polled until it awaits an import of the host, returns or traps.         *)
(*                                                                         *)
(* An instance carries its generation (the digest it was built from), the  *)
(* epoch ticks left until its deadline, and whether its last call returned *)
(* normally.                                                               *)
(***************************************************************************)
EXTENDS Integers, Sequences, FiniteSets

CONSTANTS
  Tenant,
  Request,       \* slots of the ingress's concurrency limit
  Gen,           \* component digests
  MaxInstances,  \* MaxInstances[t]: limits.max_instances after clamping
  EngineMax,     \* total_instances of the pooling allocator
  EpochDelta,    \* limits.max_epoch_delta, at least 1
  Ticker,        \* whether epoch_interval is non-zero
  Workers,       \* tokio worker threads
  None

ASSUME InvokeAssumption ==
  /\ MaxInstances \in [Tenant -> Nat]
  /\ EngineMax \in Nat \ {0} /\ EpochDelta \in Nat \ {0}
  /\ Workers \in Nat \ {0} /\ Ticker \in BOOLEAN
  /\ IsFiniteSet(Request)
  /\ None \notin Request /\ None \notin Tenant /\ None \notin Gen

VARIABLES
  active,  \* active[t]: digest in the tenant's ArcSwap
  pool,    \* pool[t]: the VecDeque of prepared instances
  lock,    \* lock[t]: the request that holds the pool's Mutex across an await
  pc,      \* pc[r]: where r is inside invoke
  tenant,  \* tenant[r]: the tenant r is for
  snap,    \* snap[r]: the digest r loaded from `active`
  inst     \* inst[r]: the store r owns

vars == <<active, pool, lock, pc, tenant, snap, inst>>

Prepared == [gen : Gen, left : 0..EpochDelta, clean : BOOLEAN]

(* The one type invariant of the module. *)
TypeOK ==
  /\ active \in [Tenant -> Gen]
  /\ pool \in [Tenant -> Seq(Prepared)]
  /\ lock \in [Tenant -> Request \cup {None}]
  /\ pc \in [Request -> {"idle", "acquire", "instantiate", "suspended", "run",
                       "wait", "release"}]
  /\ tenant \in [Request -> Tenant \cup {None}]
  /\ snap \in [Request -> Gen \cup {None}]
  /\ inst \in [Request -> Prepared \cup {None}]

-----------------------------------------------------------------------------
\* InstancePool::new.
PoolCap(t) == IF MaxInstances[t] = 0 THEN 1 ELSE MaxInstances[t]

Running == {r \in Request : pc[r] \in {"instantiate", "run"}}

\* A worker is free to run a task other than the guests that compute.
FreeWorker == Cardinality(Running) < Workers

\* Instances in the pool of t, and requests that hold one of t's instances.
PooledOf(t) == {<<t, i>> : i \in 1..Len(pool[t])}
InUseOf(t) == {r \in Request : tenant[r] = t /\ pc[r] \notin {"idle", "acquire"}}

\* Instances of the tenants in T that the pooling allocator has live.
Live(T) == Cardinality(UNION {PooledOf(t) : t \in T})
             + Cardinality(UNION {InUseOf(t) : t \in T})

\* The allocator is full even after the instances pooled for t are dropped.
NoSlot(t) == Live(Tenant) - Len(pool[t]) >= EngineMax

\* Faulty: the digest is not compared.
MatchesAny(t, g) == 1..Len(pool[t])

\* Positions of t's pooled instances that a request for digest g may take.
Matches(t, g) == {i \in 1..Len(pool[t]) : pool[t][i].gen = g}

\* Faulty: the deadline is counted down past zero.
OlderUnbounded(p) == [p EXCEPT !.left = @ - 1]

\* One epoch less until an instance's deadline.
Older(p) == [p EXCEPT !.left = IF @ > 0 THEN @ - 1 ELSE 0]

\* Store::new and set_epoch_deadline, for a call that is about to start.
NewStore(g) == [gen |-> g, left |-> EpochDelta, clean |-> FALSE]

\* Faulty: the Mutex stays locked.
LeaveLocked(r) ==
  /\ pc' = [pc EXCEPT ![r] = "idle"]
  /\ tenant' = [tenant EXCEPT ![r] = None]
  /\ snap' = [snap EXCEPT ![r] = None]
  /\ inst' = [inst EXCEPT ![r] = None]
  /\ UNCHANGED lock

\* Request r leaves invoke; a store it still owns is dropped, and so is the
\* guard of the pool's Mutex if it holds it.
Leave(r) ==
  /\ pc' = [pc EXCEPT ![r] = "idle"]
  /\ tenant' = [tenant EXCEPT ![r] = None]
  /\ snap' = [snap EXCEPT ![r] = None]
  /\ inst' = [inst EXCEPT ![r] = None]
  /\ lock' = [t \in Tenant |-> IF lock[t] = r THEN None ELSE lock[t]]

-----------------------------------------------------------------------------
Init ==
  /\ active \in [Tenant -> Gen]
  /\ pool = [t \in Tenant |-> << >>]
  /\ lock = [t \in Tenant |-> None]
  /\ pc = [r \in Request |-> "idle"]
  /\ tenant = [r \in Request |-> None]
  /\ snap = [r \in Request |-> None]
  /\ inst = [r \in Request |-> None]

(* The reload loop publishes another generation (module HotReload). *)
SwapActive(t, g) ==
  /\ FreeWorker
  /\ active[t] # g
  /\ active' = [active EXCEPT ![t] = g]
  /\ UNCHANGED <<pool, lock, pc, tenant, snap, inst>>

(* invoke begins: the tenant is found and its active component loaded. *)
Begin(r, t) ==
  /\ FreeWorker
  /\ pc[r] = "idle"
  /\ pc' = [pc EXCEPT ![r] = "acquire"]
  /\ tenant' = [tenant EXCEPT ![r] = t]
  /\ snap' = [snap EXCEPT ![r] = active[t]]
  /\ UNCHANGED <<active, pool, lock, inst>>

(* acquire gets the Mutex and pops: instances of other digests are dropped
   until one matches, which ends the critical section. *)
AcquireHit(r) ==
  /\ FreeWorker
  /\ pc[r] = "acquire"
  /\ LET t == tenant[r] IN
       /\ lock[t] = None
       /\ \E i \in Matches(t, snap[r]) :
            /\ \A j \in Matches(t, snap[r]) : i <= j
            /\ inst' = [inst EXCEPT ![r] = [pool[t][i] EXCEPT !.clean = FALSE]]
            /\ pool' = [pool EXCEPT ![t] = SubSeq(@, i + 1, Len(@))]
  /\ pc' = [pc EXCEPT ![r] = "run"]
  /\ UNCHANGED <<active, lock, tenant, snap>>

\* Faulty: instances of other digests stay in the queue.
AcquireMissKeepsStale(r) ==
  /\ FreeWorker
  /\ pc[r] = "acquire"
  /\ LET t == tenant[r] IN
       /\ lock[t] = None
       /\ Matches(t, snap[r]) = {} /\ ~NoSlot(t)
       /\ lock' = [lock EXCEPT ![t] = r]
  /\ inst' = [inst EXCEPT ![r] = NewStore(snap[r])]
  /\ pc' = [pc EXCEPT ![r] = "instantiate"]
  /\ UNCHANGED <<active, pool, tenant, snap>>

(* No instance matches: the queue is empty now, and instantiation begins with
   the Mutex held. *)
AcquireMiss(r) ==
  /\ FreeWorker
  /\ pc[r] = "acquire"
  /\ LET t == tenant[r] IN
       /\ lock[t] = None
       /\ Matches(t, snap[r]) = {} /\ ~NoSlot(t)
       /\ pool' = [pool EXCEPT ![t] = << >>]
       /\ lock' = [lock EXCEPT ![t] = r]
  /\ inst' = [inst EXCEPT ![r] = NewStore(snap[r])]
  /\ pc' = [pc EXCEPT ![r] = "instantiate"]
  /\ UNCHANGED <<active, tenant, snap>>

(* The same, but the allocator has no slot left: instantiation fails. *)
AcquireFull(r) ==
  /\ FreeWorker
  /\ pc[r] = "acquire"
  /\ LET t == tenant[r] IN
       /\ lock[t] = None
       /\ Matches(t, snap[r]) = {} /\ NoSlot(t)
       /\ pool' = [pool EXCEPT ![t] = << >>]
  /\ Leave(r)
  /\ UNCHANGED active

(* Instantiation succeeds, the guard is dropped and the call starts. *)
Instantiated(r) ==
  /\ pc[r] = "instantiate"
  /\ lock' = [lock EXCEPT ![tenant[r]] = None]
  /\ pc' = [pc EXCEPT ![r] = "run"]
  /\ UNCHANGED <<active, pool, tenant, snap, inst>>

(* The component's start code traps. *)
InstantiateError(r) ==
  /\ pc[r] = "instantiate"
  /\ Leave(r)
  /\ UNCHANGED <<active, pool>>

(* The guest calls an asynchronous import and is suspended, then resumed. *)
GuestAwait(r) ==
  /\ pc[r] \in {"instantiate", "run"}
  /\ pc' = [pc EXCEPT ![r] = IF pc[r] = "run" THEN "wait" ELSE "suspended"]
  /\ UNCHANGED <<active, pool, lock, tenant, snap, inst>>

GuestResume(r) ==
  /\ FreeWorker
  /\ pc[r] \in {"suspended", "wait"}
  /\ pc' = [pc EXCEPT ![r] = IF pc[r] = "wait" THEN "run" ELSE "instantiate"]
  /\ UNCHANGED <<active, pool, lock, tenant, snap, inst>>

(* The handler returns a response: the instance is to be released. *)
GuestReturn(r) ==
  /\ pc[r] = "run"
  /\ inst' = [inst EXCEPT ![r].clean = TRUE]
  /\ pc' = [pc EXCEPT ![r] = "release"]
  /\ UNCHANGED <<active, pool, lock, tenant, snap>>

(* The guest traps by itself; Ok(Err(_)) drops the instance. *)
GuestTrap(r) ==
  /\ pc[r] = "run"
  /\ Leave(r)
  /\ UNCHANGED <<active, pool>>

(* The guest reaches an epoch check after its deadline. *)
EpochTrap(r) ==
  /\ inst[r] # None /\ inst[r].left = 0
  /\ InstantiateError(r) \/ GuestTrap(r)

\* Faulty: the instance of a timed-out call is released.
WallTimeoutReleases(r) ==
  /\ FreeWorker
  /\ pc[r] = "wait"
  /\ pc' = [pc EXCEPT ![r] = "release"]
  /\ UNCHANGED <<active, pool, lock, tenant, snap, inst>>

(* The wall-clock budget elapses; the suspended call is dropped.  The budget
   is around the call only, not around instantiation. *)
WallTimeout(r) ==
  /\ FreeWorker
  /\ pc[r] = "wait"
  /\ Leave(r)
  /\ UNCHANGED <<active, pool>>

\* Faulty: one more than the capacity.
ReleaseOneMore(r) ==
  /\ FreeWorker
  /\ pc[r] = "release"
  /\ LET t == tenant[r] IN
       /\ lock[t] = None
       /\ pool' = [pool EXCEPT ![t] =
                      IF Len(@) <= PoolCap(t) THEN Append(@, inst[r]) ELSE @]
  /\ Leave(r)
  /\ UNCHANGED active

(* release: back to the queue if there is room, dropped otherwise; then the
   response is returned. *)
Release(r) ==
  /\ FreeWorker
  /\ pc[r] = "release"
  /\ LET t == tenant[r] IN
       /\ lock[t] = None
       /\ pool' = [pool EXCEPT ![t] =
                      IF Len(@) < PoolCap(t) THEN Append(@, inst[r]) ELSE @]
  /\ Leave(r)
  /\ UNCHANGED active

(* The client disconnects or TimeoutLayer fires: the future of invoke is
   dropped at the await it is suspended in. *)
Cancel(r) ==
  /\ FreeWorker
  /\ pc[r] \in {"acquire", "suspended", "wait", "release"}
  /\ Leave(r)
  /\ UNCHANGED <<active, pool>>

(* The epoch ticker, a task like the others, bumps the engine's epoch. *)
EpochTick ==
  /\ Ticker
  /\ FreeWorker
  /\ pool' = [t \in Tenant |-> [i \in 1..Len(pool[t]) |-> Older(pool[t][i])]]
  /\ inst' = [r \in Request |-> IF inst[r] = None THEN None ELSE Older(inst[r])]
  /\ UNCHANGED <<active, lock, pc, tenant, snap>>

Next ==
  \/ \E t \in Tenant : \E g \in Gen : SwapActive(t, g)
  \/ \E r \in Request :
       \/ \E t \in Tenant : Begin(r, t)
       \/ AcquireHit(r) \/ AcquireMiss(r) \/ AcquireFull(r)
       \/ Instantiated(r) \/ InstantiateError(r)
       \/ GuestAwait(r) \/ GuestResume(r)
       \/ GuestReturn(r) \/ GuestTrap(r)
       \/ WallTimeout(r) \/ Release(r) \/ Cancel(r)
  \/ EpochTick

Spec == Init /\ [][Next]_vars

(* Tokio runs every task that is ready whenever workers keep coming free:
   hence strong fairness for the ticker, and for the two timers, the tenant's
   budget and TimeoutLayer's, which once elapsed drop the call at its next
   suspension.  A computing guest reaches an epoch check.  Nothing else is
   assumed of guests: they may compute, or wait, for ever. *)
FairSpec ==
  /\ Spec
  /\ SF_vars(EpochTick)
  /\ \A r \in Request :
       /\ SF_vars(WallTimeout(r))
       /\ SF_vars(Cancel(r))
       /\ WF_vars(EpochTrap(r))

-----------------------------------------------------------------------------
(* A request runs on the generation it loaded, whatever is swapped, pooled
   or drained meanwhile (docs/design/hot-reload.md:85). *)
RunsSnapshot ==
  \A r \in Request : inst[r] # None => inst[r].gen = snap[r]

(* A tenant never pools more instances than it may, although requests that
   all found the pool empty come back at once. *)
PoolBounded == \A t \in Tenant : Len(pool[t]) <= PoolCap(t)

(* Only instances whose last call returned normally are pooled: one that
   trapped, ran out of budget or was cancelled in mid-call is not used again. *)
PooledClean ==
  \A t \in Tenant : \A i \in 1..Len(pool[t]) : pool[t][i].clean

(* The Mutex is held across an await by a request that is instantiating for
   that tenant and by no other, so a failed or cancelled one gives it back. *)
LockHeldByInstantiation ==
  /\ \A t \in Tenant : lock[t] # None =>
       pc[lock[t]] \in {"instantiate", "suspended"} /\ tenant[lock[t]] = t
  /\ \A r \in Request :
       pc[r] \in {"instantiate", "suspended"} => lock[tenant[r]] = r

(* Every request leaves invoke, whatever its guest does. *)
RequestEnds == \A r \in Request : pc[r] # "idle" ~> pc[r] = "idle"

(* After the last swap of a tenant, traffic drains the old generations from
   its pool for good (src/runtime/invoke.rs:60-61). *)
StaleDrains ==
  \A t \in Tenant : \A g \in Gen :
    ((<>[](active[t] = g)) /\ []<>(\E r \in Running : tenant[r] = t))
      => <>[](\A i \in 1..Len(pool[t]) : pool[t][i].gen = g)

(* src/wasi/sandbox.rs:45: the epoch budget is per invocation, so a call
   starts with all of it. *)
BudgetPerInvocation ==
  [][\A r \in Request :
       (pc[r] = "acquire" /\ pc'[r] = "run") => inst'[r].left = EpochDelta]_vars
=============================================================================
