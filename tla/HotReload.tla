------------------------------ MODULE HotReload ------------------------------
(***************************************************************************)
(* The control plane of the runtime: how a tenant's component gets from    *)
(* the registry into its `active` slot.  Models Runtime::build,            *)
(* load_tenant, poll_once and swap (src/runtime.rs), Registry::pull and    *)
(* OciClient::fetch_component (src/registry.rs, src/registry/oci.rs), and  *)
(* HotReloadPolicy (src/registry/store.rs).                                *)
(*                                                                         *)
(* A "puller" is a task that pulls artifacts: Boot is the task running     *)
(* Runtime::build, the member of Poller is the loop of spawn_reload_loop,  *)
(* which runs poll_once.  A process has one such loop, and it starts after *)
(* build has returned, so no two pullers of a process are at work at once: *)
(* that is what allows ContentStore::put to be one step here (module       *)
(* ContentStore shows what becomes of two puts with one pid).  A puller's  *)
(* steps are cut where the code awaits the registry, and before the        *)
(* compilation that precedes the swap.                                     *)
(*                                                                         *)
(* An artifact is its content, a member of Digest: hashing is injective,   *)
(* so the digest of content d is written d.                                *)
(***************************************************************************)
EXTENDS Integers, Sequences, FiniteSets

CONSTANTS
  Tenant,          \* the configured tenants
  Digest,          \* contents an artifact may have
  Catalog,         \* Catalog[t]: contents ever published at t's source
  OciTenant,       \* tenants with ComponentSource::Oci; the rest are File
  Pin,             \* Pin[t]: the configured pin, or None
  Valid,           \* contents Loaded::from_bytes accepts
  Conforming,      \* contents ensure_contract accepts
  Compiling,       \* contents Component::from_binary accepts
  Poller,          \* the task that runs poll_once
  Boot,            \* the task that runs Runtime::build
  ConfigOrder,     \* the tenants in configuration order
  Orders,          \* iteration orders the tenant HashMap may have
  Debounce,        \* policy.debounce, in ticks
  MaxFailedPolls,  \* policy.max_failed_polls
  FailureBound,    \* bound: the failure counters saturate here
  None

Puller == Poller \cup {Boot}

ASSUME TenantAssumption ==
  /\ OciTenant \subseteq Tenant
  /\ Catalog \in [Tenant -> SUBSET Digest]
  /\ Pin \in [Tenant -> Digest \cup {None}]
  /\ \A t \in Tenant \ OciTenant : Pin[t] = None
  /\ None \notin Digest /\ None \notin [digest : Digest, bytes : Digest]
  /\ Boot \notin Poller
ASSUME PollerAssumption == \A p, r \in Poller : p = r
ASSUME OrderAssumption ==
  /\ ConfigOrder \in Seq(Tenant) /\ ConfigOrder # << >>
  /\ Tenant \subseteq {ConfigOrder[i] : i \in 1..Len(ConfigOrder)}
  /\ Orders # {}
  /\ \A o \in Orders : o \in Seq(Tenant) /\ o # << >>
ASSUME PolicyAssumption ==
  /\ Debounce \in Nat
  /\ MaxFailedPolls \in Nat \ {0}
  /\ FailureBound \in Nat /\ FailureBound > MaxFailedPolls

VARIABLES
  origin,    \* origin[t]: content at t's tag or path, None if it has no layer
  reachable, \* the registry answers and the cache directory takes writes
  cache,     \* digests present in the ContentStore; survives a restart
  phase,     \* "building", "serving" or "down"
  active,    \* active[t]: [digest, bytes] of the ActiveComponent, or None
  since,     \* since[t]: ticks since last_swap, saturating at Debounce
  failures,  \* failures[t]: the consecutive-failure counter
  order,     \* this process's HashMap iteration order
  pc,        \* pc[q]: what puller q does next
  todo,      \* todo[q]: tenants q has still to visit, the current one first
  window,    \* window[q][t]: since_last_swap as q's `now` makes it
  layer      \* layer[q]: the layer digest q's manifest named, or None

registryVars == <<origin, reachable>>
memVars == <<active, since, failures, order>>
pullVars == <<pc, todo, window, layer>>
vars == <<origin, reachable, cache, phase, active, since, failures,
          order, pc, todo, window, layer>>

Artifact == [digest : Digest, bytes : Digest]
Elapsed == 0..Debounce

(* The one type invariant of the module. *)
TypeOK ==
  /\ origin \in [Tenant -> Digest \cup {None}]
  /\ reachable \in BOOLEAN
  /\ cache \in SUBSET Digest
  /\ phase \in {"building", "serving", "down"}
  /\ active \in [Tenant -> Artifact \cup {None}]
  /\ since \in [Tenant -> Elapsed]
  /\ failures \in [Tenant -> 0..FailureBound]
  /\ order \in Seq(Tenant)
  /\ pc \in [Puller -> {"idle", "tenant", "manifest", "blob", "pulled", "swap", "hung"}]
  /\ todo \in [Puller -> Seq(Tenant)]
  /\ window \in [Puller -> [Tenant -> Elapsed]]
  /\ layer \in [Puller -> Digest \cup {None}]

-----------------------------------------------------------------------------
(* Decisions the code takes on values.                                      *)

Cur(q) == Head(todo[q])

\* HotReloadPolicy::should_reload, with the active digest as `prev`.
ShouldReload(prev, next) == prev # next

\* HotReloadPolicy::exhausted.
Exhausted(n) == n >= MaxFailedPolls

\* Faulty: the pin is not compared with the bytes.
PullAcceptsUnpinned(t, d) == d \in Valid

\* The end of fetch_component and Registry::pull: the cached bytes must
\* parse as a component, and must hash to the pin when there is one.
PullAccepts(t, d) ==
  /\ d \in Valid
  /\ Pin[t] # None => d = Pin[t]

\* Faulty: a compilation error is ignored.
CompilesAnyway(d) == d \in Digest

\* ensure_contract, and Component::from_binary.
EnsureContract(d) == d \in Conforming
Compiles(d) == d \in Compiling

\* Faulty: one tick too early.
DebounceElapsedEarly(p, t) == window[p][t] + 1 >= Debounce

\* The debounce check of poll_once.
DebounceElapsed(p, t) == window[p][t] >= Debounce

\* Faulty: the field is overwritten although there is no pin.
LoadedOfPin(t, d) == [digest |-> Pin[t], bytes |-> d]

\* What Registry::pull returns: the digest field becomes the pin.
LoadedOf(t, d) == [digest |-> IF Pin[t] # None THEN Pin[t] ELSE d, bytes |-> d]

-----------------------------------------------------------------------------
(* State changes shared by several actions.                                 *)

\* A puller moves on to its next tenant; after the last one it is done.
Advance(q) ==
  /\ todo' = [todo EXCEPT ![q] = Tail(@)]
  /\ pc' = [pc EXCEPT ![q] = IF Tail(todo[q]) = << >> THEN "idle" ELSE "tenant"]
  /\ layer' = [layer EXCEPT ![q] = None]

\* `?` in poll_once: the pass ends, tenants not yet visited are dropped.
AbortPass(p) ==
  /\ todo' = [todo EXCEPT ![p] = << >>]
  /\ pc' = [pc EXCEPT ![p] = "idle"]
  /\ layer' = [layer EXCEPT ![p] = None]

\* The new generation of t goes live: active slot, last_swap, failure
\* counter.  A swap after the poller's `now` makes its saturating elapsed 0.
Activate(t, a) ==
  /\ active' = [active EXCEPT ![t] = a]
  /\ since' = [since EXCEPT ![t] = 0]
  /\ window' = [q \in Puller |-> [window[q] EXCEPT ![t] = 0]]
  /\ failures' = [failures EXCEPT ![t] = 0]

\* The process is gone and everything it held in memory with it; blobs are
\* lost only if the machine stopped as well.
ProcessGone ==
  /\ phase' = "down"
  /\ active' = [t \in Tenant |-> None]
  /\ since' = [t \in Tenant |-> 0]
  /\ failures' = [t \in Tenant |-> 0]
  /\ order' = << >>
  /\ pc' = [q \in Puller |-> "idle"]
  /\ todo' = [q \in Puller |-> << >>]
  /\ window' = [q \in Puller |-> [t \in Tenant |-> 0]]
  /\ layer' = [q \in Puller |-> None]
  /\ cache' \in SUBSET cache
  /\ UNCHANGED <<origin, reachable>>

\* Faulty: a tenant that cannot be loaded is left out of the build.
PullFailedLenient(q) ==
  /\ Advance(q)
  /\ \/ /\ q = Boot /\ Tail(todo[q]) = << >>
        /\ phase' = "serving"
        /\ order' \in Orders
     \/ /\ q # Boot \/ Tail(todo[q]) # << >>
        /\ UNCHANGED <<phase, order>>
  /\ UNCHANGED <<origin, reachable, cache, active, since, failures, window>>

\* The Err arm of poll_once, and `?` in load_tenant, which fails the build.
PullFailed(q) ==
  \/ /\ q = Boot
     /\ UNCHANGED cache
     /\ ProcessGone
  \/ /\ q # Boot
     /\ failures' = [failures EXCEPT ![Cur(q)] =
                       IF @ < FailureBound THEN @ + 1 ELSE @]
     /\ Advance(q)
     /\ UNCHANGED <<origin, reachable, cache, phase, active, since,
                    order, window>>

-----------------------------------------------------------------------------
Init ==
  /\ origin \in {o \in [Tenant -> Digest \cup {None}] :
                   \A t \in Tenant : o[t] \in Catalog[t] \cup {None}}
  /\ reachable = TRUE
  /\ cache = {}
  /\ phase = "down"
  /\ active = [t \in Tenant |-> None]
  /\ since = [t \in Tenant |-> 0]
  /\ failures = [t \in Tenant |-> 0]
  /\ order = << >>
  /\ pc = [q \in Puller |-> "idle"]
  /\ todo = [q \in Puller |-> << >>]
  /\ window = [q \in Puller |-> [t \in Tenant |-> 0]]
  /\ layer = [q \in Puller |-> None]

(* The environment. *)

\* A tag is moved, or a file replaced.
Publish(t, d) ==
  /\ origin[t] # d
  /\ origin' = [origin EXCEPT ![t] = d]
  /\ UNCHANGED <<reachable, cache, phase, memVars, pullVars>>

\* The registry, the network or the disk starts failing, or recovers.
ToggleReachable ==
  /\ reachable' = ~reachable
  /\ UNCHANGED <<origin, cache, phase, memVars, pullVars>>

\* One tick of the monotonic clock.
Tick ==
  /\ \E t \in Tenant : since[t] < Debounce
  /\ since' = [t \in Tenant |->
                 IF since[t] < Debounce THEN since[t] + 1 ELSE since[t]]
  /\ UNCHANGED <<registryVars, cache, phase, active, failures, order,
                 pullVars>>

\* A request is accepted or its connection lost without notice, and no answer
\* ever comes: the client is built without a time-out, and nothing is put
\* around the pull.
Unanswered(q) ==
  /\ pc[q] \in {"manifest", "blob"}
  /\ pc' = [pc EXCEPT ![q] = "hung"]
  /\ UNCHANGED <<registryVars, cache, phase, memVars, todo, window, layer>>

\* A kill, which leaves the store as it is, or a power loss.
Crash ==
  /\ phase # "down"
  /\ ProcessGone

(* Start of Runtime::build. *)
Start ==
  /\ phase = "down"
  /\ phase' = "building"
  /\ todo' = [todo EXCEPT ![Boot] = ConfigOrder]
  /\ pc' = [pc EXCEPT ![Boot] = "tenant"]
  /\ UNCHANGED <<registryVars, cache, memVars, window, layer>>

(* load_tenant begins.  A file source is read here and then goes through
   the same checks as a pulled one. *)
LoadTenant ==
  /\ pc[Boot] = "tenant"
  /\ \/ /\ Cur(Boot) \in OciTenant
        /\ pc' = [pc EXCEPT ![Boot] = "manifest"]
        /\ UNCHANGED layer
     \/ /\ Cur(Boot) \notin OciTenant
        /\ origin[Cur(Boot)] # None
        /\ pc' = [pc EXCEPT ![Boot] = "pulled"]
        /\ layer' = [layer EXCEPT ![Boot] = origin[Cur(Boot)]]
  /\ UNCHANGED <<registryVars, cache, phase, memVars, todo, window>>

\* Loaded::from_path finds no file.
LoadFileMissing ==
  /\ pc[Boot] = "tenant"
  /\ Cur(Boot) \notin OciTenant
  /\ origin[Cur(Boot)] = None
  /\ PullFailed(Boot)

(* poll_once begins: `now` is taken and the tenants are listed, once. *)
BeginPass(p) ==
  /\ phase = "serving"
  /\ pc[p] = "idle"
  /\ todo' = [todo EXCEPT ![p] = order]
  /\ pc' = [pc EXCEPT ![p] = "tenant"]
  /\ window' = [window EXCEPT ![p] = since]
  /\ UNCHANGED <<registryVars, cache, phase, memVars, layer>>

\* Faulty: a parked tenant is not polled any more.
VisitTenantParked(p) ==
  /\ pc[p] = "tenant"
  /\ LET t == Cur(p)
         poll == /\ t \in OciTenant /\ DebounceElapsed(p, t)
                 /\ ~Exhausted(failures[t])
     IN \/ /\ poll
           /\ pc' = [pc EXCEPT ![p] = "manifest"]
           /\ UNCHANGED <<todo, layer>>
        \/ /\ ~poll
           /\ Advance(p)
  /\ UNCHANGED <<registryVars, cache, phase, memVars, window>>

(* A tenant is skipped, or its pull begins. *)
VisitTenant(p) ==
  /\ pc[p] = "tenant"
  /\ LET t == Cur(p)
         poll == t \in OciTenant /\ DebounceElapsed(p, t)
     IN \/ /\ poll
           /\ pc' = [pc EXCEPT ![p] = "manifest"]
           /\ UNCHANGED <<todo, layer>>
        \/ /\ ~poll
           /\ Advance(p)
  /\ UNCHANGED <<registryVars, cache, phase, memVars, window>>

(* The registry answers with the manifest; a blob already in the store is
   not pulled again. *)
ManifestReply(q) ==
  /\ pc[q] = "manifest"
  /\ reachable
  /\ origin[Cur(q)] # None
  /\ layer' = [layer EXCEPT ![q] = origin[Cur(q)]]
  /\ pc' = [pc EXCEPT ![q] = IF origin[Cur(q)] \in cache THEN "pulled" ELSE "blob"]
  /\ UNCHANGED <<registryVars, cache, phase, memVars, todo, window>>

\* No answer, or a manifest without a layer.
ManifestError(q) ==
  /\ pc[q] = "manifest"
  /\ ~reachable \/ origin[Cur(q)] = None
  /\ PullFailed(q)

\* Faulty: the blob is used without being stored.
BlobReplyUncached(q) ==
  /\ pc[q] = "blob"
  /\ reachable
  /\ pc' = [pc EXCEPT ![q] = "pulled"]
  /\ UNCHANGED <<registryVars, cache, phase, memVars, todo, window, layer>>

(* The blob arrives, hashes to the layer's digest and is stored. *)
BlobReply(q) ==
  /\ pc[q] = "blob"
  /\ reachable
  /\ cache' = cache \cup {layer[q]}
  /\ pc' = [pc EXCEPT ![q] = "pulled"]
  /\ UNCHANGED <<registryVars, phase, memVars, todo, window, layer>>

\* Transport error, bytes of another digest, or a failed write.
BlobError(q) ==
  /\ pc[q] = "blob"
  /\ ~reachable
  /\ PullFailed(q)

\* from_bytes rejects the artifact, or it is not the pinned one.
Rejected(q) ==
  /\ pc[q] = "pulled"
  /\ ~PullAccepts(Cur(q), layer[q])
  /\ PullFailed(q)

(* The rest of load_tenant: contract, compilation, registration.  After the
   last tenant the background loops start. *)
ActivateInitial ==
  /\ pc[Boot] = "pulled"
  /\ PullAccepts(Cur(Boot), layer[Boot])
  /\ EnsureContract(layer[Boot]) /\ Compiles(layer[Boot])
  /\ Activate(Cur(Boot), LoadedOf(Cur(Boot), layer[Boot]))
  /\ Advance(Boot)
  /\ \/ /\ Tail(todo[Boot]) # << >>
        /\ UNCHANGED <<phase, order>>
     \/ /\ Tail(todo[Boot]) = << >>
        /\ phase' = "serving"
        /\ order' \in Orders
  /\ UNCHANGED <<registryVars, cache>>

\* ensure_contract or the compilation fails: `?` fails the build.
BuildRejects ==
  /\ pc[Boot] = "pulled"
  /\ PullAccepts(Cur(Boot), layer[Boot])
  /\ ~(EnsureContract(layer[Boot]) /\ Compiles(layer[Boot]))
  /\ UNCHANGED cache
  /\ ProcessGone

(* poll_once after a successful pull: contract check, then the comparison
   with the digest active now. *)
Decide(p) ==
  /\ pc[p] = "pulled"
  /\ PullAccepts(Cur(p), layer[p])
  /\ LET t == Cur(p)
         next == LoadedOf(t, layer[p]).digest
     IN \/ /\ ~EnsureContract(layer[p])
           /\ AbortPass(p)
           /\ UNCHANGED failures
        \/ /\ EnsureContract(layer[p])
           /\ ShouldReload(active[t].digest, next)
           /\ pc' = [pc EXCEPT ![p] = "swap"]
           /\ UNCHANGED <<failures, todo, layer>>
        \/ /\ EnsureContract(layer[p])
           /\ ~ShouldReload(active[t].digest, next)
           /\ failures' = [failures EXCEPT ![t] = 0]
           /\ Advance(p)
  /\ UNCHANGED <<registryVars, cache, phase, active, since, order, window>>

(* Runtime::swap: compile, then publish the new generation. *)
Swap(p) ==
  /\ pc[p] = "swap"
  /\ \/ /\ Compiles(layer[p])
        /\ Activate(Cur(p), LoadedOf(Cur(p), layer[p]))
        /\ Advance(p)
     \/ /\ ~Compiles(layer[p])
        /\ AbortPass(p)
        /\ UNCHANGED <<active, since, failures, window>>
  /\ UNCHANGED <<registryVars, cache, phase, order>>

-----------------------------------------------------------------------------
PullStep(q) ==
  \/ ManifestReply(q) \/ ManifestError(q)
  \/ BlobReply(q) \/ BlobError(q)
  \/ Rejected(q)

BuildStep == LoadTenant \/ LoadFileMissing \/ PullStep(Boot)
               \/ ActivateInitial \/ BuildRejects

PollStep(p) == BeginPass(p) \/ VisitTenant(p) \/ PullStep(p) \/ Decide(p) \/ Swap(p)

Next ==
  \/ \E t \in Tenant : \E d \in Catalog[t] \cup {None} : Publish(t, d)
  \/ ToggleReachable
  \/ Tick
  \/ \E q \in Puller : Unanswered(q)
  \/ Crash
  \/ Start
  \/ BuildStep
  \/ \E p \in Poller : PollStep(p)

Spec == Init /\ [][Next]_vars

(* The clock advances, and a task that can run is run: the loop's interval
   keeps ticking.  A request to the registry is answered, fails or hangs for
   ever.  Nothing is assumed of restarts, publishers or outages. *)
FairSpec ==
  /\ Spec
  /\ WF_vars(Tick)
  /\ WF_vars(BuildStep)
  /\ \A p \in Poller : WF_vars(PollStep(p))

-----------------------------------------------------------------------------
(* What may go live for t: an artifact of its own source that parses, meets
   the contract, compiles, and is the pinned one if there is a pin. *)
Fit == [t \in Tenant |->
          {d \in Catalog[t] \cap Valid \cap Conforming \cap Compiling :
             Pin[t] # None => d = Pin[t]}]

(* A tenant runs only artifacts that are fit for it, whatever the tag did
   between the manifest, the blob and the swap, and the digest it reports
   (Registry::pull overwrites the field with the pin) is that of the bytes it
   runs. *)
ActiveFit ==
  \A t \in Tenant : active[t] # None =>
     /\ active[t].bytes \in Fit[t]
     /\ active[t].digest = active[t].bytes

(* What a pulled tenant runs is in the content store, so a restart during a
   registry that lost the blob can still read it (fetch_component puts before
   it gets). *)
ActiveCached ==
  \A t \in OciTenant : active[t] # None => active[t].bytes \in cache

(* Once build has returned, every configured tenant has a component, and no
   failed pull, refused swap or aborted pass ever leaves one without. *)
ServingComplete ==
  phase = "serving" => \A t \in Tenant : active[t] # None

(* Two swaps of a tenant are at least `debounce` apart, although the check
   of poll_once reads last_swap before the pull it awaits and the swap comes
   after it (docs/design/hot-reload.md:70-71). *)
SwapsAreSpaced ==
  [][\A t \in Tenant :
       (active[t] # None /\ active'[t] # None /\ active'[t] # active[t])
       => since[t] = Debounce]_vars

\* Publishing d at t's tag should make t run it.
Deployable(t, d) == t \in OciTenant /\ d \in Fit[t]

\* The registry is reachable, the process stays up, no request of its loop is
\* left without an answer and t's tag stays at d.
Settled(t, d) ==
  /\ reachable /\ phase = "serving" /\ origin[t] = d
  /\ \A p \in Poller : pc[p] # "hung"

\* u's tag names an artifact that is pulled but then refused, which makes
\* poll_once return early.
Poison(u) ==
  /\ u \in OciTenant /\ origin[u] # None
  /\ PullAccepts(u, origin[u])
  /\ ~(EnsureContract(origin[u]) /\ Compiles(origin[u]))

Runs(t, d) == active[t] # None /\ active[t].bytes = d

(* A tag that settles on a fit artifact is picked up for good, whatever
   outages, failed pulls, parked counters and restarts came before, as long as
   no tenant's tag stays on an artifact that is refused after its pull and no
   request to the registry hangs: nothing in the code ends one that does, and
   the loop never polls again. *)
Converges ==
  \A t \in Tenant : \A d \in Digest : Deployable(t, d) =>
     ((<>[](Settled(t, d) /\ \A u \in Tenant : ~Poison(u))) => <>[]Runs(t, d))

\* The refinement mapping: what a tenant runs is the bytes in its active slot.
RunningOf(a) == IF a = None THEN None ELSE a.bytes
Contract == INSTANCE Deployment
              WITH live <- phase = "serving",
                   running <- [t \in Tenant |-> RunningOf(active[t])]

(* The control plane implements the deployment contract: start-up is all or
   nothing, and every change of a live tenant is one step to a fit artifact.
   Steps that touch the registry, the store or the counters stutter. *)
ImplementsDeployment == Contract!DSpec

-----------------------------------------------------------------------------
(* The parts of the inductive invariant behind ActiveFit, ActiveCached,
   ServingComplete and ImplementsDeployment. *)

\* A puller that is not idle has a tenant; Boot works exactly while building,
\* pollers only while serving, when the iteration order is known.
TaskInv ==
  /\ \A q \in Puller : pc[q] # "idle" => todo[q] # << >>
  /\ pc[Boot] # "idle" <=> phase = "building"
  /\ phase # "serving" => \A p \in Poller : pc[p] = "idle"
  /\ phase = "serving" => order # << >>
  /\ phase = "down" => \A t \in Tenant : active[t] = None

\* What a puller has of an artifact comes from its tenant's source, is in
\* the store once pulled, and has passed the checks before the swap.
PullInv ==
  /\ \A t \in Tenant : origin[t] \in Catalog[t] \cup {None}
  /\ \A q \in Puller :
       /\ pc[q] \in {"blob", "pulled", "swap"} => layer[q] \in Catalog[Cur(q)]
       /\ pc[q] \in {"pulled", "swap"} /\ Cur(q) \in OciTenant => layer[q] \in cache
       /\ pc[q] = "swap" => PullAccepts(Cur(q), layer[q]) /\ EnsureContract(layer[q])

\* While building, a tenant without a component is still to be loaded.
LoadInv ==
  phase = "building" =>
    \A t \in Tenant : active[t] = None =>
      \E i \in 1..Len(todo[Boot]) : todo[Boot][i] = t

ReloadInv ==
  /\ TypeOK
  /\ TaskInv
  /\ PullInv
  /\ LoadInv
  /\ ActiveFit
  /\ ActiveCached
  /\ ServingComplete

-----------------------------------------------------------------------------
(* A statement of the repository's documents that the code does not meet. *)

(* docs/getting-started.md:101-103: republishing a tag is all a reload
   takes; nothing there depends on the other tenants' artifacts. *)
ConvergesDespiteOthers ==
  \A t \in Tenant : \A d \in Digest : Deployable(t, d) =>
     ((<>[]Settled(t, d)) => <>[]Runs(t, d))
=============================================================================
