--------------------------- MODULE HotReloadProofs ---------------------------
(***************************************************************************)
(* What the control plane guarantees for any tenants, artifacts, pins,     *)
(* orders and policy: type correctness, that tenants run only fit,         *)
(* verified and stored artifacts, and that it implements Deployment.  All  *)
(* of it is about a process with one reload loop (PollerAssumption): only  *)
(* then are two puts never under way with one temporary name, and a blob   *)
(* is stored whole, in one step.                                           *)
(***************************************************************************)
EXTENDS HotReload, TLAPS

(* A busy puller's current tenant is a tenant, and so are the ones after it. *)
LEMMA CurTyped ==
  ASSUME TypeOK, TaskInv, NEW q \in Puller, pc[q] # "idle"
  PROVE  Cur(q) \in Tenant /\ Tail(todo[q]) \in Seq(Tenant)
BY DEF TypeOK, TaskInv, Cur

(* A puller that moves on, or gives up, stays typed. *)
LEMMA AdvanceTyped ==
  ASSUME TypeOK, TaskInv, NEW q \in Puller, pc[q] # "idle",
         Advance(q) \/ AbortPass(q)
  PROVE  /\ todo' \in [Puller -> Seq(Tenant)]
         /\ pc' \in [Puller -> {"idle", "tenant", "manifest", "blob", "pulled", "swap", "hung"}]
         /\ layer' \in [Puller -> Digest \cup {None}]
<1>1. Tail(todo[q]) \in Seq(Tenant) /\ << >> \in Seq(Tenant)
  BY CurTyped
<1>2. todo' \in [Puller -> Seq(Tenant)]
  BY <1>1 DEF TypeOK, Advance, AbortPass
<1>3. pc' \in [Puller -> {"idle", "tenant", "manifest", "blob", "pulled", "swap", "hung"}]
  BY DEF TypeOK, Advance, AbortPass
<1>4. layer' \in [Puller -> Digest \cup {None}]
  BY DEF TypeOK, Advance, AbortPass
<1> QED
  BY <1>2, <1>3, <1>4

(* What goes live is an artifact. *)
LEMMA LoadedTyped ==
  ASSUME NEW t \in Tenant, NEW d \in Digest
  PROVE  LoadedOf(t, d) \in Artifact
BY TenantAssumption DEF LoadedOf, Artifact

(* Activating an artifact stays typed. *)
LEMMA ActivateTyped ==
  ASSUME TypeOK, NEW t \in Tenant, NEW a \in Artifact, Activate(t, a)
  PROVE  /\ active' \in [Tenant -> Artifact \cup {None}]
         /\ since' \in [Tenant -> Elapsed]
         /\ failures' \in [Tenant -> 0..FailureBound]
         /\ window' \in [Puller -> [Tenant -> Elapsed]]
<1>1. 0 \in Elapsed /\ 0 \in 0..FailureBound /\ a.digest \in Digest
  BY PolicyAssumption DEF Elapsed, Artifact
<1>2. active' \in [Tenant -> Artifact \cup {None}]
  BY DEF TypeOK, Activate
<1>3. since' \in [Tenant -> Elapsed]
  BY <1>1 DEF TypeOK, Activate
<1>4. failures' \in [Tenant -> 0..FailureBound]
  BY <1>1 DEF TypeOK, Activate
<1>6. \A q \in Puller : [window[q] EXCEPT ![t] = 0] \in [Tenant -> Elapsed]
  BY <1>1 DEF TypeOK
<1>7. window' \in [Puller -> [Tenant -> Elapsed]]
  BY <1>6 DEF Activate
<1> QED
  BY <1>2, <1>3, <1>4, <1>7

(* The state of a process that is gone is typed. *)
LEMMA GoneTyped ==
  ASSUME TypeOK, ProcessGone
  PROVE  TypeOK'
<1>1. 0 \in Elapsed /\ 0 \in 0..FailureBound
  BY PolicyAssumption DEF Elapsed
<1>2. since' \in [Tenant -> Elapsed] /\ failures' \in [Tenant -> 0..FailureBound]
  BY <1>1 DEF ProcessGone
<1>3. window' \in [Puller -> [Tenant -> Elapsed]]
  BY <1>1 DEF ProcessGone
<1>4. << >> \in Seq(Tenant)
  OBVIOUS
<1>5. todo' \in [Puller -> Seq(Tenant)] /\ order' \in Seq(Tenant)
  BY <1>4 DEF ProcessGone
<1> QED
  BY <1>2, <1>3, <1>5 DEF TypeOK, ProcessGone

(* A failed pull, of either kind of puller, stays typed. *)
LEMMA FailedTyped ==
  ASSUME TypeOK, TaskInv, NEW q \in Puller, pc[q] # "idle", PullFailed(q)
  PROVE  TypeOK'
<1>1. CASE q = Boot /\ ProcessGone
  BY <1>1, GoneTyped
<1>2. CASE q # Boot /\ Advance(q)
           /\ failures' = [failures EXCEPT ![Cur(q)] =
                             IF @ < FailureBound THEN @ + 1 ELSE @]
           /\ UNCHANGED <<origin, reachable, cache, phase, active, since,
                          order, window>>
  <2>1. \A n \in 0..FailureBound :
          (IF n < FailureBound THEN n + 1 ELSE n) \in 0..FailureBound
    BY PolicyAssumption
  <2>2. failures' \in [Tenant -> 0..FailureBound]
    BY <1>2, <2>1, CurTyped DEF TypeOK
  <2> QED
    BY <1>2, <2>2, AdvanceTyped DEF TypeOK
<1> QED
  BY <1>1, <1>2 DEF PullFailed

(* Every action keeps the variables in their types. *)
LEMMA TypeStep ==
  ASSUME TypeOK, TaskInv, PullInv, [Next]_vars
  PROVE  TypeOK'
<1> USE DEF TypeOK
<1>boot. Boot \in Puller /\ \A p \in Poller : p \in Puller
  BY DEF Puller
<1>pub. ASSUME NEW t \in Tenant, NEW d \in Catalog[t] \cup {None}, Publish(t, d)
        PROVE  TypeOK'
  BY <1>pub, TenantAssumption DEF Publish, memVars, pullVars
<1>tog. ASSUME ToggleReachable PROVE TypeOK'
  BY <1>tog DEF ToggleReachable, memVars, pullVars
<1>tick. ASSUME Tick PROVE TypeOK'
  <2>1. since' \in [Tenant -> Elapsed]
    BY <1>tick, PolicyAssumption DEF Tick, Elapsed
  <2> QED
    BY <1>tick, <2>1 DEF Tick, registryVars, pullVars
<1>hung. ASSUME NEW q \in Puller, Unanswered(q) PROVE TypeOK'
  BY <1>hung DEF Unanswered, registryVars, memVars
<1>crash. ASSUME Crash PROVE TypeOK'
  BY <1>crash, GoneTyped DEF Crash
<1>start. ASSUME Start PROVE TypeOK'
  BY <1>start, <1>boot, OrderAssumption DEF Start, registryVars, memVars
<1>load. ASSUME LoadTenant PROVE TypeOK'
  <2>1. Cur(Boot) \in Tenant
    BY <1>load, <1>boot, CurTyped DEF LoadTenant
  <2> QED
    BY <1>load, <1>boot, <2>1 DEF LoadTenant, registryVars, memVars
<1>miss. ASSUME LoadFileMissing PROVE TypeOK'
  BY <1>miss, <1>boot, FailedTyped DEF LoadFileMissing
<1>begin. ASSUME NEW p \in Poller, BeginPass(p) PROVE TypeOK'
  BY <1>begin, <1>boot DEF BeginPass, registryVars, memVars
<1>visit. ASSUME NEW p \in Poller, VisitTenant(p) PROVE TypeOK'
  <2>1. p \in Puller /\ pc[p] # "idle"
    BY <1>visit, <1>boot DEF VisitTenant
  <2>2. CASE Advance(p)
    BY <1>visit, <2>1, <2>2, AdvanceTyped DEF VisitTenant, registryVars, memVars
  <2>3. CASE pc' = [pc EXCEPT ![p] = "manifest"] /\ UNCHANGED <<todo, layer>>
    BY <1>visit, <2>1, <2>3 DEF VisitTenant, registryVars, memVars
  <2> QED
    BY <1>visit, <2>2, <2>3 DEF VisitTenant
<1>man. ASSUME NEW q \in Puller, ManifestReply(q) PROVE TypeOK'
  <2>1. Cur(q) \in Tenant
    BY <1>man, CurTyped DEF ManifestReply
  <2> QED
    BY <1>man, <2>1 DEF ManifestReply, registryVars, memVars
<1>blob. ASSUME NEW q \in Puller, BlobReply(q) PROVE TypeOK'
  <2>1. Cur(q) \in Tenant /\ layer[q] \in Catalog[Cur(q)]
    BY <1>blob, CurTyped DEF BlobReply, PullInv
  <2>2. layer[q] \in Digest
    BY <2>1, TenantAssumption
  <2> QED
    BY <1>blob, <2>2 DEF BlobReply, registryVars, memVars
<1>fail. ASSUME NEW q \in Puller, ManifestError(q) \/ BlobError(q) \/ Rejected(q)
         PROVE  TypeOK'
  BY <1>fail, FailedTyped DEF ManifestError, BlobError, Rejected
<1>act. ASSUME ActivateInitial PROVE TypeOK'
  <2>1. pc[Boot] # "idle" /\ Cur(Boot) \in Tenant /\ layer[Boot] \in Catalog[Cur(Boot)]
    BY <1>act, <1>boot, CurTyped DEF ActivateInitial, PullInv
  <2>2. LoadedOf(Cur(Boot), layer[Boot]) \in Artifact
    BY <2>1, LoadedTyped, TenantAssumption
  <2>3. phase' \in {"building", "serving", "down"} /\ order' \in Seq(Tenant)
        /\ UNCHANGED <<origin, reachable, cache>>
    BY <1>act, OrderAssumption DEF ActivateInitial, registryVars
  <2> QED
    BY <1>act, <1>boot, <2>1, <2>2, <2>3, ActivateTyped, AdvanceTyped
       DEF ActivateInitial
<1>rej. ASSUME BuildRejects PROVE TypeOK'
  BY <1>rej, GoneTyped DEF BuildRejects
<1>dec. ASSUME NEW p \in Poller, Decide(p) PROVE TypeOK'
  <2>1. p \in Puller /\ pc[p] # "idle" /\ Cur(p) \in Tenant
    BY <1>dec, <1>boot, CurTyped DEF Decide
  <2>a. failures' = failures \/ failures' = [failures EXCEPT ![Cur(p)] = 0]
    BY <1>dec DEF Decide
  <2>b. 0 \in 0..FailureBound
    BY PolicyAssumption
  <2>2. failures' \in [Tenant -> 0..FailureBound]
    BY <2>1, <2>a, <2>b
  <2>3. CASE Advance(p) \/ AbortPass(p)
    BY <1>dec, <2>1, <2>2, <2>3, AdvanceTyped DEF Decide, registryVars
  <2>4. CASE pc' = [pc EXCEPT ![p] = "swap"] /\ UNCHANGED <<todo, layer>>
    BY <1>dec, <2>1, <2>2, <2>4 DEF Decide, registryVars
  <2> QED
    BY <1>dec, <2>3, <2>4 DEF Decide
<1>swap. ASSUME NEW p \in Poller, Swap(p) PROVE TypeOK'
  <2>1. p \in Puller /\ pc[p] # "idle" /\ Cur(p) \in Tenant /\ layer[p] \in Catalog[Cur(p)]
    BY <1>swap, <1>boot, CurTyped DEF Swap, PullInv
  <2>2. LoadedOf(Cur(p), layer[p]) \in Artifact
    BY <2>1, LoadedTyped, TenantAssumption
  <2>3. CASE Activate(Cur(p), LoadedOf(Cur(p), layer[p])) /\ Advance(p)
    BY <1>swap, <2>1, <2>2, <2>3, ActivateTyped, AdvanceTyped DEF Swap, registryVars
  <2>4. CASE AbortPass(p) /\ UNCHANGED <<active, since, failures, window>>
    BY <1>swap, <2>1, <2>4, AdvanceTyped DEF Swap, registryVars
  <2> QED
    BY <1>swap, <2>3, <2>4 DEF Swap
<1>stut. ASSUME UNCHANGED vars PROVE TypeOK'
  BY <1>stut DEF vars
<1> QED
  BY <1>boot, <1>pub, <1>tog, <1>tick, <1>hung, <1>crash, <1>start, <1>load, <1>miss,
     <1>begin, <1>visit, <1>man, <1>blob, <1>fail, <1>act, <1>rej, <1>dec,
     <1>swap, <1>stut DEF Next, BuildStep, PollStep, PullStep

-----------------------------------------------------------------------------
(* An artifact that passed every check is fit, and its digest is its bytes'. *)
LEMMA FitArtifact ==
  ASSUME NEW t \in Tenant, NEW d \in Catalog[t],
         PullAccepts(t, d), EnsureContract(d), Compiles(d)
  PROVE  LET a == LoadedOf(t, d)
         IN  a # None /\ a.bytes = d /\ a.digest = d /\ d \in Fit[t]
<1>1. d \in Digest
  BY TenantAssumption
<1>2. LoadedOf(t, d) # None
  BY <1>1, LoadedTyped, TenantAssumption DEF Artifact
<1>3. LoadedOf(t, d).bytes = d /\ LoadedOf(t, d).digest = d
  BY DEF PullAccepts, LoadedOf
<1>4. d \in Fit[t]
  BY DEF PullAccepts, EnsureContract, Compiles, Fit
<1> QED
  BY <1>2, <1>3, <1>4

(* A process that is gone satisfies the invariant. *)
LEMMA GoneStep ==
  ASSUME ReloadInv, ProcessGone
  PROVE  ReloadInv'
<1>1. TypeOK'
  BY GoneTyped DEF ReloadInv
<1>2. TaskInv'
  BY TenantAssumption DEF ProcessGone, TaskInv, Puller
<1>3. PullInv'
  BY DEF ReloadInv, ProcessGone, PullInv, Cur, PullAccepts, EnsureContract
<1>4. LoadInv' /\ ServingComplete' /\ ActiveFit' /\ ActiveCached'
  BY TenantAssumption DEF ProcessGone, LoadInv, ServingComplete, ActiveFit, ActiveCached
<1> QED
  BY <1>1, <1>2, <1>3, <1>4 DEF ReloadInv

(* A poller that moves on or gives up, with nothing activated, keeps the
   invariant. *)
LEMMA MoveOnStep ==
  ASSUME ReloadInv, NEW p \in Poller, pc[p] # "idle",
         Advance(p) \/ AbortPass(p),
         UNCHANGED <<origin, reachable, cache, phase, active, since,
                     order, window>>,
         failures' \in [Tenant -> 0..FailureBound]
  PROVE  ReloadInv'
<1>1. p \in Puller /\ p # Boot /\ Boot \in Puller
  BY TenantAssumption DEF Puller
<1>2. TypeOK'
  BY <1>1, AdvanceTyped DEF ReloadInv, TypeOK
<1>3. /\ \A q \in Puller : q # p => pc'[q] = pc[q] /\ todo'[q] = todo[q] /\ layer'[q] = layer[q]
      /\ pc'[p] = "idle" \/ (pc'[p] = "tenant" /\ todo'[p] # << >>)
  BY <1>1 DEF ReloadInv, TypeOK, Advance, AbortPass
<1>4. phase = "serving"
  BY DEF ReloadInv, TaskInv
<1>5. TaskInv'
  BY <1>1, <1>3, <1>4 DEF ReloadInv, TaskInv, Puller
<1>6. PullInv'
  BY <1>3 DEF ReloadInv, PullInv, Cur, PullAccepts, EnsureContract
<1>7. LoadInv' /\ ServingComplete' /\ ActiveFit' /\ ActiveCached'
  BY <1>4 DEF ReloadInv, LoadInv, ServingComplete, ActiveFit, ActiveCached
<1> QED
  BY <1>2, <1>5, <1>6, <1>7 DEF ReloadInv

(* A failed pull keeps the invariant: it fails the build or only counts. *)
LEMMA FailedStep ==
  ASSUME ReloadInv, NEW q \in Puller, pc[q] # "idle", PullFailed(q)
  PROVE  ReloadInv'
<1>1. CASE q = Boot
  BY <1>1, GoneStep DEF PullFailed
<1>2. CASE q # Boot
  <2>1. TypeOK'
    BY FailedTyped DEF ReloadInv
  <2>2. q \in Poller /\ failures' \in [Tenant -> 0..FailureBound]
    BY <1>2, <2>1 DEF Puller, TypeOK
  <2> QED
    BY <1>2, <2>2, MoveOnStep DEF PullFailed
<1> QED
  BY <1>1, <1>2

(* A puller that takes another step with the same tenant keeps what does not
   mention it. *)
LEMMA StayStep ==
  ASSUME ReloadInv, TypeOK', NEW q \in Puller, pc[q] # "idle", pc'[q] # "idle",
         UNCHANGED <<origin, phase, active, order, todo>>,
         cache \subseteq cache',
         \A r \in Puller : r # q => pc'[r] = pc[r] /\ layer'[r] = layer[r],
         pc'[q] \in {"blob", "pulled", "swap"} => layer'[q] \in Catalog[Cur(q)],
         pc'[q] \in {"pulled", "swap"} /\ Cur(q) \in OciTenant => layer'[q] \in cache',
         pc'[q] = "swap" => PullAccepts(Cur(q), layer'[q]) /\ EnsureContract(layer'[q])
  PROVE  ReloadInv'
<1>1. TaskInv'
  <2>1. \A r \in Puller : pc'[r] # "idle" <=> pc[r] # "idle"
    OBVIOUS
  <2> QED
    BY <2>1 DEF ReloadInv, TaskInv, Puller
<1>2. PullInv'
  BY DEF ReloadInv, PullInv, Cur, PullAccepts, EnsureContract
<1>3. LoadInv' /\ ServingComplete' /\ ActiveFit' /\ ActiveCached'
  BY DEF ReloadInv, LoadInv, ServingComplete, ActiveFit, ActiveCached
<1> QED
  BY <1>1, <1>2, <1>3 DEF ReloadInv

(* Activating a checked artifact for the current tenant keeps the facts about
   active components. *)
LEMMA ActivateStep ==
  ASSUME ReloadInv, NEW q \in Puller, pc[q] \in {"pulled", "swap"},
         PullAccepts(Cur(q), layer[q]), EnsureContract(layer[q]), Compiles(layer[q]),
         Activate(Cur(q), LoadedOf(Cur(q), layer[q])),
         UNCHANGED cache
  PROVE  /\ ActiveFit' /\ ActiveCached'
         /\ active'[Cur(q)] # None
         /\ \A t \in Tenant : t # Cur(q) => active'[t] = active[t]
<1> DEFINE t0 == Cur(q)
           a == LoadedOf(Cur(q), layer[q])
<1>1. t0 \in Tenant /\ layer[q] \in Catalog[t0]
      /\ (t0 \in OciTenant => layer[q] \in cache)
  BY CurTyped DEF ReloadInv, PullInv
<1>2. a # None /\ a.bytes = layer[q] /\ a.digest = layer[q] /\ layer[q] \in Fit[t0]
  BY <1>1, FitArtifact
<1>3. active' = [active EXCEPT ![t0] = a]
  BY DEF Activate
<1>4. active'[t0] = a /\ \A t \in Tenant : t # t0 => active'[t] = active[t]
  BY <1>1, <1>3 DEF ReloadInv, TypeOK
<1>5. ActiveFit'
  BY <1>2, <1>4 DEF ReloadInv, ActiveFit, Fit
<1>6. ActiveCached'
  BY <1>1, <1>2, <1>4, TenantAssumption DEF ReloadInv, ActiveCached
<1> QED
  BY <1>2, <1>4, <1>5, <1>6

(* The build's activation: the tenant loaded is no longer to be loaded, and
   after the last one every tenant has a component. *)
LEMMA InitialStep ==
  ASSUME ReloadInv, TypeOK', ActivateInitial
  PROVE  ReloadInv'
<1> DEFINE t0 == Cur(Boot)
<1>1. Boot \in Puller /\ pc[Boot] = "pulled" /\ phase = "building" /\ todo[Boot] # << >>
      /\ todo[Boot] \in Seq(Tenant)
  BY DEF ActivateInitial, ReloadInv, TaskInv, TypeOK, Puller
<1>2. ActiveFit' /\ ActiveCached' /\ active'[t0] # None
      /\ \A t \in Tenant : t # t0 => active'[t] = active[t]
  BY <1>1, ActivateStep DEF ActivateInitial
<1>3. /\ \A q \in Puller : q # Boot => pc'[q] = pc[q] /\ todo'[q] = todo[q] /\ layer'[q] = layer[q]
      /\ todo'[Boot] = Tail(todo[Boot])
      /\ pc'[Boot] = IF Tail(todo[Boot]) = << >> THEN "idle" ELSE "tenant"
  BY <1>1 DEF ActivateInitial, Advance, ReloadInv, TypeOK
<1>4. \A p \in Poller : p \in Puller /\ p # Boot /\ pc[p] = "idle"
  BY <1>1, TenantAssumption DEF ReloadInv, TaskInv, Puller
<1>5. \A t \in Tenant : active'[t] = None =>
        \E i \in 1..Len(Tail(todo[Boot])) : Tail(todo[Boot])[i] = t
  <2> SUFFICES ASSUME NEW t \in Tenant, active'[t] = None
               PROVE  \E i \in 1..Len(Tail(todo[Boot])) : Tail(todo[Boot])[i] = t
    OBVIOUS
  <2>1. t # t0 /\ active[t] = None
    BY <1>2
  <2>2. PICK i \in 1..Len(todo[Boot]) : todo[Boot][i] = t
    BY <1>1, <2>1 DEF ReloadInv, LoadInv
  <2>3. i # 1
    BY <1>1, <2>1, <2>2 DEF Cur
  <2>4. i - 1 \in 1..Len(Tail(todo[Boot])) /\ Tail(todo[Boot])[i - 1] = t
    BY <1>1, <2>2, <2>3
  <2> QED
    BY <2>4
<1>6. CASE Tail(todo[Boot]) # << >>
  <2>1. phase' = phase /\ order' = order
    BY <1>6 DEF ActivateInitial
  <2>2. TaskInv'
    BY <1>1, <1>3, <1>4, <1>6, <2>1 DEF ReloadInv, TaskInv, Puller
  <2>3. LoadInv' /\ ServingComplete'
    BY <1>1, <1>3, <1>5, <2>1 DEF LoadInv, ServingComplete
  <2>4. PullInv'
    BY <1>3, <1>6 DEF ReloadInv, PullInv, ActivateInitial, registryVars, Cur,
                      PullAccepts, EnsureContract
  <2> QED
    BY <1>2, <2>2, <2>3, <2>4 DEF ReloadInv
<1>7. CASE Tail(todo[Boot]) = << >>
  <2>1. phase' = "serving" /\ order' # << >>
    BY <1>7, OrderAssumption DEF ActivateInitial
  <2>2. TaskInv'
    BY <1>1, <1>3, <1>4, <1>7, <2>1 DEF ReloadInv, TaskInv, Puller
  <2>a. Len(<< >>) = 0
    OBVIOUS
  <2>3. Len(Tail(todo[Boot])) = 0
    BY <1>7, <2>a
  <2>4. LoadInv' /\ ServingComplete'
    BY <1>5, <2>1, <2>3 DEF LoadInv, ServingComplete
  <2>5. PullInv'
    BY <1>3, <1>7 DEF ReloadInv, PullInv, ActivateInitial, registryVars, Cur,
                      PullAccepts, EnsureContract
  <2> QED
    BY <1>2, <2>2, <2>4, <2>5 DEF ReloadInv
<1> QED
  BY <1>6, <1>7

(* A reload: the swap of a checked artifact into a live tenant. *)
LEMMA ReloadStep ==
  ASSUME ReloadInv, TypeOK', NEW p \in Poller, Swap(p), Compiles(layer[p])
  PROVE  ReloadInv'
<1>1. p \in Puller /\ p # Boot /\ Boot \in Puller /\ pc[p] = "swap" /\ phase = "serving"
  BY TenantAssumption DEF Swap, ReloadInv, TaskInv, Puller
<1>2. Activate(Cur(p), LoadedOf(Cur(p), layer[p])) /\ Advance(p)
      /\ UNCHANGED <<origin, reachable, cache, phase, order>>
  BY DEF Swap, registryVars
<1>3. ActiveFit' /\ ActiveCached' /\ active'[Cur(p)] # None
      /\ \A t \in Tenant : t # Cur(p) => active'[t] = active[t]
  BY <1>1, <1>2, ActivateStep DEF ReloadInv, PullInv
<1>4. /\ \A q \in Puller : q # p => pc'[q] = pc[q] /\ todo'[q] = todo[q] /\ layer'[q] = layer[q]
      /\ pc'[p] = "idle" \/ (pc'[p] = "tenant" /\ todo'[p] # << >>)
  BY <1>1, <1>2 DEF ReloadInv, TypeOK, Advance
<1>5. TaskInv'
  BY <1>1, <1>2, <1>4 DEF ReloadInv, TaskInv, Puller
<1>6. PullInv'
  BY <1>2, <1>4 DEF ReloadInv, PullInv, Cur, PullAccepts, EnsureContract
<1>7. LoadInv' /\ ServingComplete'
  BY <1>1, <1>2, <1>3 DEF ReloadInv, LoadInv, ServingComplete
<1> QED
  BY <1>3, <1>5, <1>6, <1>7 DEF ReloadInv

(* Every step of the control plane keeps the invariant. *)
LEMMA InvStep ==
  ASSUME ReloadInv, [Next]_vars
  PROVE  ReloadInv'
<1>type. TypeOK'
  BY TypeStep DEF ReloadInv
<1>boot. Boot \in Puller /\ \A p \in Poller : p \in Puller /\ p # Boot
  BY TenantAssumption DEF Puller
<1>pub. ASSUME NEW t \in Tenant, NEW d \in Catalog[t] \cup {None}, Publish(t, d)
        PROVE  ReloadInv'
  <2>1. UNCHANGED <<cache, phase, active, order, pc, todo, layer>>
    BY <1>pub DEF Publish, memVars, pullVars
  <2>2. PullInv'
    BY <1>pub, <2>1 DEF Publish, ReloadInv, TypeOK, PullInv, Cur, PullAccepts, EnsureContract
  <2> QED
    BY <1>type, <2>1, <2>2 DEF ReloadInv, TaskInv, LoadInv, ActiveFit, ActiveCached,
                      ServingComplete
<1>quiet. ASSUME ToggleReachable \/ Tick \/ UNCHANGED vars PROVE ReloadInv'
  <2>1. UNCHANGED <<origin, cache, phase, active, order, pc, todo, layer>>
    BY <1>quiet DEF ToggleReachable, Tick, vars, registryVars, memVars, pullVars
  <2> QED
    BY <1>type, <2>1 DEF ReloadInv, TaskInv, PullInv, LoadInv, ActiveFit, ActiveCached,
                      ServingComplete, Cur, PullAccepts, EnsureContract
<1>hung. ASSUME NEW q \in Puller, Unanswered(q) PROVE ReloadInv'
  <2>1. /\ UNCHANGED <<origin, phase, active, order, todo, cache, layer>>
        /\ pc[q] # "idle" /\ pc'[q] = "hung"
        /\ \A r \in Puller : r # q => pc'[r] = pc[r]
    BY <1>hung DEF Unanswered, registryVars, memVars, ReloadInv, TypeOK
  <2> QED
    BY <1>type, <2>1, StayStep
<1>crash. ASSUME Crash \/ BuildRejects PROVE ReloadInv'
  BY <1>crash, GoneStep DEF Crash, BuildRejects
<1>start. ASSUME Start PROVE ReloadInv'
  <2>1. UNCHANGED <<origin, cache, active, order, layer>> /\ phase = "down" /\ phase' = "building"
    BY <1>start DEF Start, registryVars, memVars
  <2>2. /\ todo'[Boot] = ConfigOrder /\ pc'[Boot] = "tenant"
        /\ \A q \in Puller : q # Boot => pc'[q] = pc[q] /\ todo'[q] = todo[q]
    BY <1>start, <1>boot DEF Start, ReloadInv, TypeOK
  <2>3. TaskInv'
    BY <1>boot, <2>1, <2>2, OrderAssumption DEF ReloadInv, TaskInv, Puller
  <2>4. PullInv'
    BY <2>1, <2>2 DEF ReloadInv, PullInv, Cur, PullAccepts, EnsureContract
  <2>5. LoadInv'
    BY <2>2, OrderAssumption DEF LoadInv
  <2>6. ActiveFit' /\ ActiveCached' /\ ServingComplete'
    BY <2>1 DEF ReloadInv, ActiveFit, ActiveCached, ServingComplete
  <2> QED
    BY <1>type, <2>3, <2>4, <2>5, <2>6 DEF ReloadInv
<1>load. ASSUME LoadTenant PROVE ReloadInv'
  <2>1. UNCHANGED <<origin, phase, active, order, todo, cache>> /\ pc[Boot] = "tenant"
    BY <1>load DEF LoadTenant, registryVars, memVars
  <2>2. Cur(Boot) \in Tenant
    BY <1>boot, <2>1, CurTyped DEF ReloadInv
  <2>3. \A r \in Puller : r # Boot => pc'[r] = pc[r] /\ layer'[r] = layer[r]
    BY <1>load, <1>boot DEF LoadTenant, ReloadInv, TypeOK
  <2>4. \/ pc'[Boot] = "manifest"
        \/ /\ pc'[Boot] = "pulled" /\ Cur(Boot) \notin OciTenant
           /\ layer'[Boot] = origin[Cur(Boot)] /\ layer'[Boot] # None
    BY <1>load, <1>boot DEF LoadTenant, ReloadInv, TypeOK
  <2>5. origin[Cur(Boot)] # None => origin[Cur(Boot)] \in Catalog[Cur(Boot)]
    BY <2>2 DEF ReloadInv, PullInv
  <2> QED
    BY <1>type, <1>boot, <2>1, <2>3, <2>4, <2>5, StayStep
<1>begin. ASSUME NEW p \in Poller, BeginPass(p) PROVE ReloadInv'
  <2>1. UNCHANGED <<origin, cache, phase, active, order, layer>> /\ phase = "serving"
    BY <1>begin DEF BeginPass, registryVars, memVars
  <2>2. /\ todo'[p] = order /\ pc'[p] = "tenant"
        /\ \A q \in Puller : q # p => pc'[q] = pc[q] /\ todo'[q] = todo[q]
    BY <1>begin, <1>boot DEF BeginPass, ReloadInv, TypeOK
  <2>3. TaskInv'
    BY <1>boot, <2>1, <2>2 DEF ReloadInv, TaskInv, Puller
  <2>4. PullInv'
    BY <2>1, <2>2 DEF ReloadInv, PullInv, Cur, PullAccepts, EnsureContract
  <2>5. LoadInv' /\ ActiveFit' /\ ActiveCached' /\ ServingComplete'
    BY <2>1 DEF ReloadInv, LoadInv, ActiveFit, ActiveCached, ServingComplete
  <2> QED
    BY <1>type, <2>3, <2>4, <2>5 DEF ReloadInv
<1>visit. ASSUME NEW p \in Poller, VisitTenant(p) PROVE ReloadInv'
  <2>1. p \in Puller /\ pc[p] = "tenant"
        /\ UNCHANGED <<origin, reachable, cache, phase, active, since, failures, order, window>>
    BY <1>visit, <1>boot DEF VisitTenant, registryVars, memVars
  <2>2. CASE Advance(p)
    BY <2>1, <2>2, MoveOnStep DEF ReloadInv, TypeOK
  <2>3. CASE pc' = [pc EXCEPT ![p] = "manifest"] /\ UNCHANGED <<todo, layer>>
    <3>1. pc'[p] = "manifest" /\ \A r \in Puller : r # p => pc'[r] = pc[r]
      BY <2>1, <2>3 DEF ReloadInv, TypeOK
    <3> QED
      BY <1>type, <2>1, <2>3, <3>1, StayStep
  <2> QED
    BY <1>visit, <2>2, <2>3 DEF VisitTenant
<1>man. ASSUME NEW q \in Puller, ManifestReply(q) PROVE ReloadInv'
  <2>1. UNCHANGED <<origin, phase, active, order, todo, cache>> /\ pc[q] = "manifest"
    BY <1>man DEF ManifestReply, registryVars, memVars
  <2>2. Cur(q) \in Tenant
    BY <2>1, CurTyped DEF ReloadInv
  <2>3. layer'[q] = origin[Cur(q)] /\ origin[Cur(q)] \in Catalog[Cur(q)]
    BY <1>man, <2>2 DEF ManifestReply, ReloadInv, PullInv, TypeOK
  <2>4. \A r \in Puller : r # q => pc'[r] = pc[r] /\ layer'[r] = layer[r]
    BY <1>man DEF ManifestReply, ReloadInv, TypeOK
  <2>5. pc'[q] = IF origin[Cur(q)] \in cache THEN "pulled" ELSE "blob"
    BY <1>man DEF ManifestReply, ReloadInv, TypeOK
  <2> QED
    BY <1>type, <2>1, <2>3, <2>4, <2>5, StayStep
<1>blob. ASSUME NEW q \in Puller, BlobReply(q) PROVE ReloadInv'
  <2>1. UNCHANGED <<origin, phase, active, order, todo, layer>> /\ pc[q] = "blob"
        /\ cache' = cache \cup {layer[q]}
    BY <1>blob DEF BlobReply, registryVars, memVars
  <2>2. pc'[q] = "pulled" /\ \A r \in Puller : r # q => pc'[r] = pc[r]
    BY <1>blob DEF BlobReply, ReloadInv, TypeOK
  <2>3. layer[q] \in Catalog[Cur(q)]
    BY <2>1 DEF ReloadInv, PullInv
  <2> QED
    BY <1>type, <2>1, <2>2, <2>3, StayStep
<1>fail. ASSUME NEW q \in Puller,
                ManifestError(q) \/ BlobError(q) \/ Rejected(q)
                  \/ (q = Boot /\ LoadFileMissing)
         PROVE  ReloadInv'
  BY <1>fail, FailedStep DEF ManifestError, BlobError, Rejected, LoadFileMissing
<1>act. ASSUME ActivateInitial PROVE ReloadInv'
  BY <1>type, <1>act, InitialStep
<1>dec. ASSUME NEW p \in Poller, Decide(p) PROVE ReloadInv'
  <2>1. p \in Puller /\ pc[p] = "pulled" /\ PullAccepts(Cur(p), layer[p])
        /\ UNCHANGED <<origin, reachable, cache, phase, active, since, order, window>>
    BY <1>dec, <1>boot DEF Decide, registryVars
  <2>2. failures' \in [Tenant -> 0..FailureBound]
    BY <1>type DEF TypeOK
  <2>3. CASE Advance(p) \/ AbortPass(p)
    BY <2>1, <2>2, <2>3, MoveOnStep
  <2>4. CASE EnsureContract(layer[p]) /\ pc' = [pc EXCEPT ![p] = "swap"] /\ UNCHANGED <<todo, layer>>
    <3>1. pc'[p] = "swap" /\ \A r \in Puller : r # p => pc'[r] = pc[r]
      BY <2>1, <2>4 DEF ReloadInv, TypeOK
    <3>2. layer[p] \in Catalog[Cur(p)] /\ (Cur(p) \in OciTenant => layer[p] \in cache)
      BY <2>1 DEF ReloadInv, PullInv
    <3> QED
      BY <1>type, <2>1, <2>4, <3>1, <3>2, StayStep
  <2> QED
    BY <1>dec, <2>3, <2>4 DEF Decide
<1>swap. ASSUME NEW p \in Poller, Swap(p) PROVE ReloadInv'
  <2>1. CASE Compiles(layer[p])
    BY <1>type, <1>swap, <2>1, ReloadStep
  <2>2. CASE ~Compiles(layer[p])
    <3>1. pc[p] = "swap" /\ AbortPass(p)
          /\ UNCHANGED <<origin, reachable, cache, phase, active, since, failures, order, window>>
      BY <1>swap, <2>2 DEF Swap, registryVars
    <3> QED
      BY <3>1, MoveOnStep DEF ReloadInv, TypeOK
  <2> QED
    BY <2>1, <2>2
<1> QED
  BY <1>boot, <1>pub, <1>quiet, <1>hung, <1>crash, <1>start, <1>load, <1>begin, <1>visit,
     <1>man, <1>blob, <1>fail, <1>act, <1>dec, <1>swap
     DEF Next, BuildStep, PollStep, PullStep

(* The invariant holds before the first start. *)
LEMMA InitInv == Init => ReloadInv
<1> SUFFICES ASSUME Init PROVE ReloadInv
  OBVIOUS
<1>1. 0 \in Elapsed /\ 0 \in 0..FailureBound /\ << >> \in Seq(Tenant)
  BY PolicyAssumption DEF Elapsed
<1>2. since \in [Tenant -> Elapsed] /\ failures \in [Tenant -> 0..FailureBound]
  BY <1>1 DEF Init
<1>3. window \in [Puller -> [Tenant -> Elapsed]] /\ todo \in [Puller -> Seq(Tenant)]
  BY <1>1 DEF Init
<1>4. TypeOK
  BY <1>1, <1>2, <1>3 DEF Init, TypeOK
<1>5. TaskInv /\ PullInv /\ LoadInv
  BY TenantAssumption DEF Init, TaskInv, PullInv, LoadInv, Puller
<1>6. ActiveFit /\ ActiveCached /\ ServingComplete
  BY TenantAssumption DEF Init, ActiveFit, ActiveCached, ServingComplete
<1> QED
  BY <1>4, <1>5, <1>6 DEF ReloadInv

(* The inductive invariant holds of every behaviour. *)
LEMMA InvHolds == Spec => []ReloadInv
<1>1. ReloadInv /\ [Next]_vars => ReloadInv'
  BY InvStep
<1> QED
  BY InitInv, <1>1, PTL DEF Spec

(* Type correctness of the control plane. *)
THEOREM ReloadTypeCorrect == Spec => []TypeOK
<1>1. ReloadInv => TypeOK
  BY DEF ReloadInv
<1> QED
  BY InvHolds, <1>1, PTL

(* A tenant only ever runs an artifact of its own source that parsed, meets
   the contract, compiles and matches the pin, under the digest of its bytes
   (Registry::pull, load_tenant, poll_once, swap). *)
THEOREM ReloadActiveFit == Spec => []ActiveFit
<1>1. ReloadInv => ActiveFit
  BY DEF ReloadInv
<1> QED
  BY InvHolds, <1>1, PTL

(* What a pulled tenant runs is in the content store. *)
THEOREM ReloadActiveCached == Spec => []ActiveCached
<1>1. ReloadInv => ActiveCached
  BY DEF ReloadInv
<1> QED
  BY InvHolds, <1>1, PTL

(* While the runtime serves, every tenant has a component. *)
THEOREM ReloadServingComplete == Spec => []ServingComplete
<1>1. ReloadInv => ServingComplete
  BY DEF ReloadInv
<1> QED
  BY InvHolds, <1>1, PTL

-----------------------------------------------------------------------------
\* The mapped value of the abstract variable `running`.
Mapped == [t \in Tenant |-> RunningOf(active[t])]

(* Activating d for t is seen as running d, and nothing else changes. *)
LEMMA MappedActivate ==
  ASSUME ReloadInv, NEW t \in Tenant, NEW d \in Catalog[t],
         PullAccepts(t, d), EnsureContract(d), Compiles(d),
         Activate(t, LoadedOf(t, d))
  PROVE  Mapped' = [Mapped EXCEPT ![t] = d]
<1> DEFINE a == LoadedOf(t, d)
<1>1. a # None /\ a.bytes = d
  BY FitArtifact
<1>2. active' = [active EXCEPT ![t] = a] /\ active \in [Tenant -> Artifact \cup {None}]
  BY DEF Activate, ReloadInv, TypeOK
<1>3. \A u \in Tenant : RunningOf(active'[u]) = IF u = t THEN d ELSE RunningOf(active[u])
  BY <1>1, <1>2 DEF RunningOf
<1> QED
  BY <1>3 DEF Mapped

(* A process that is gone is a Stop of the abstract specification. *)
LEMMA GoneMaps ==
  ASSUME ProcessGone
  PROVE  Contract!Stop
BY DEF ProcessGone, Contract!Stop, RunningOf

(* Every step of the control plane is a step of Deployment, or none. *)
LEMMA StepMaps ==
  ASSUME ReloadInv, ReloadInv', [Next]_vars
  PROVE  [Contract!DNext]_(Contract!dvars)
<1>boot. Boot \in Puller /\ \A p \in Poller : p \in Puller /\ p # Boot
  BY TenantAssumption DEF Puller
<1>gone. ASSUME ProcessGone PROVE Contract!DNext
  BY <1>gone, GoneMaps DEF Contract!DNext
<1>same. ASSUME UNCHANGED active, (phase' = "serving") = (phase = "serving")
         PROVE  UNCHANGED Contract!dvars
  BY <1>same DEF Contract!dvars
<1>fail. ASSUME NEW q \in Puller, PullFailed(q)
         PROVE  [Contract!DNext]_(Contract!dvars)
  BY <1>fail, <1>gone, <1>same DEF PullFailed
<1>act. ASSUME ActivateInitial PROVE Contract!DNext
  <2> DEFINE t == Cur(Boot)
             d == layer[Boot]
  <2>1. phase = "building" /\ pc[Boot] = "pulled"
    BY <1>act, <1>boot DEF ActivateInitial, ReloadInv, TaskInv
  <2>2. t \in Tenant /\ d \in Catalog[t]
    BY <1>boot, <2>1, CurTyped DEF ReloadInv, PullInv
  <2>3. PullAccepts(t, d) /\ EnsureContract(d) /\ Compiles(d) /\ Activate(t, LoadedOf(t, d))
    BY <1>act DEF ActivateInitial
  <2>4. d \in Fit[t]
    BY <2>2, <2>3, FitArtifact
  <2>5. Mapped' = [Mapped EXCEPT ![t] = d]
    BY <2>2, <2>3, MappedActivate
  <2>6. phase' = "serving" => \A u \in Tenant : Mapped'[u] # None
    <3>1. \A u \in Tenant : active'[u] # None => active'[u].bytes \in Digest
      BY DEF ReloadInv, TypeOK, Artifact
    <3> QED
      BY <3>1, TenantAssumption DEF ReloadInv, ServingComplete, Mapped, RunningOf
  <2>7. (phase' = "serving") \in {FALSE, \A u \in Tenant : Mapped'[u] # None}
    BY <2>6
  <2>8. Contract!Load(t, d)
    BY <2>1, <2>5, <2>7 DEF Contract!Load, Mapped
  <2> QED
    BY <2>2, <2>4, <2>8 DEF Contract!DNext
<1>swap. ASSUME NEW p \in Poller, Swap(p) PROVE [Contract!DNext]_(Contract!dvars)
  <2> DEFINE t == Cur(p)
             d == layer[p]
  <2>1. phase = "serving" /\ phase' = phase /\ pc[p] = "swap" /\ p \in Puller
    BY <1>swap, <1>boot DEF Swap, ReloadInv, TaskInv
  <2>2. CASE Compiles(d)
    <3>1. t \in Tenant /\ d \in Catalog[t] /\ PullAccepts(t, d) /\ EnsureContract(d)
      BY <2>1, CurTyped DEF ReloadInv, PullInv
    <3>2. d \in Fit[t]
      BY <2>2, <3>1, FitArtifact
    <3>3. Mapped' = [Mapped EXCEPT ![t] = d]
      BY <1>swap, <2>2, <3>1, MappedActivate DEF Swap
    <3>4. Contract!Reload(t, d)
      BY <2>1, <3>3 DEF Contract!Reload, Mapped
    <3> QED
      BY <3>1, <3>2, <3>4 DEF Contract!DNext
  <2>3. CASE ~Compiles(d)
    BY <1>swap, <1>same, <2>1, <2>3 DEF Swap
  <2> QED
    BY <2>2, <2>3
<1>quiet. ASSUME \/ \E t \in Tenant : \E d \in Catalog[t] \cup {None} : Publish(t, d)
                 \/ ToggleReachable \/ Tick \/ Start \/ LoadTenant
                 \/ \E p \in Poller : BeginPass(p) \/ VisitTenant(p) \/ Decide(p)
                 \/ \E q \in Puller : ManifestReply(q) \/ BlobReply(q) \/ Unanswered(q)
                 \/ UNCHANGED vars
          PROVE  UNCHANGED Contract!dvars
  <2>1. UNCHANGED active
    BY <1>quiet DEF Publish, ToggleReachable, Tick, Start, LoadTenant, BeginPass,
         VisitTenant, Decide, ManifestReply, BlobReply, Unanswered, vars, memVars
  <2>2. (phase' = "serving") = (phase = "serving")
    BY <1>quiet DEF Publish, ToggleReachable, Tick, Start, LoadTenant, BeginPass,
         VisitTenant, Decide, ManifestReply, BlobReply, Unanswered, vars
  <2> QED
    BY <1>same, <2>1, <2>2
<1> QED
  BY <1>boot, <1>gone, <1>fail, <1>act, <1>swap, <1>quiet
     DEF Next, BuildStep, PollStep, PullStep, Crash, BuildRejects,
         LoadFileMissing, ManifestError, BlobError, Rejected

(* The control plane implements the deployment contract: all tenants start or
   none does, a live tenant runs a fit artifact, and it changes in one step. *)
THEOREM ReloadImplementsDeployment == Spec => ImplementsDeployment
<1>1. Init => Contract!DInit
  BY DEF Init, Contract!DInit, RunningOf
<1>2. ReloadInv /\ ReloadInv' /\ [Next]_vars => [Contract!DNext]_(Contract!dvars)
  BY StepMaps
<1> QED
  BY InvHolds, <1>1, <1>2, PTL DEF Spec, ImplementsDeployment, Contract!DSpec

-----------------------------------------------------------------------------
(* Debouncing.  A tenant is loaded once when the configuration names it
   once. *)
NamedOnce ==
  \A i, j \in 1..Len(ConfigOrder) : ConfigOrder[i] = ConfigOrder[j] => i = j

\* The elapsed time a pass works with is never ahead of the clock, and from
\* the check to the swap it is the full debounce.
Pulling == {"manifest", "blob", "pulled", "swap"}
SpacedInv ==
  /\ \A q \in Puller : \A t \in Tenant : window[q][t] <= since[t]
  /\ \A p \in Poller : pc[p] \in Pulling => window[p][Cur(p)] = Debounce

\* The build has still to load each remaining tenant, for the first time.
LoadsOnce ==
  phase = "building" =>
    /\ \A i, j \in 1..Len(todo[Boot]) : todo[Boot][i] = todo[Boot][j] => i = j
    /\ \A i \in 1..Len(todo[Boot]) : active[todo[Boot][i]] = None

(* A step that leaves the clock alone and starts no pull keeps the spacing. *)
LEMMA SpacedKept ==
  ASSUME SpacedInv, UNCHANGED <<window, since>>,
         \A p \in Poller : pc'[p] \in Pulling => pc[p] \in Pulling /\ todo'[p] = todo[p]
  PROVE  SpacedInv'
BY DEF SpacedInv, Cur

(* A step that neither loads nor restarts keeps what the build has to do. *)
LEMMA LoadsOnceKept ==
  ASSUME LoadsOnce, UNCHANGED <<phase, active>>,
         phase = "building" => todo'[Boot] = todo[Boot]
  PROVE  LoadsOnce'
BY DEF LoadsOnce

(* Nothing is left to be kept when the process is gone. *)
LEMMA SpacedGone ==
  ASSUME ProcessGone
  PROVE  SpacedInv' /\ LoadsOnce'
<1>1. /\ \A q \in Puller : \A t \in Tenant : window'[q][t] = 0 /\ since'[t] = 0
      /\ \A p \in Poller : pc'[p] = "idle"
      /\ phase' = "down"
  BY DEF ProcessGone, Puller
<1> QED
  BY <1>1 DEF SpacedInv, LoadsOnce, Pulling

(* A poller that moves on, or gives up, is past its pull. *)
LEMMA SpacedMoveOn ==
  ASSUME ReloadInv, SpacedInv, LoadsOnce, NEW p \in Poller,
         pc[p] # "idle", Advance(p) \/ AbortPass(p),
         UNCHANGED <<phase, active, since, window>>
  PROVE  SpacedInv' /\ LoadsOnce'
<1>1. p \in Puller /\ p # Boot /\ Boot \in Puller /\ \A r \in Poller : r \in Puller
  BY TenantAssumption DEF Puller
<1>2. /\ \A q \in Puller : q # p => pc'[q] = pc[q] /\ todo'[q] = todo[q]
      /\ pc'[p] \in {"idle", "tenant"}
  BY <1>1 DEF ReloadInv, TypeOK, Advance, AbortPass
<1>3. SpacedInv'
  BY <1>1, <1>2, SpacedKept DEF Pulling
<1>4. LoadsOnce'
  BY <1>1, <1>2, LoadsOnceKept
<1> QED
  BY <1>3, <1>4

(* An activation restarts the tenant's clock for everyone. *)
LEMMA ActivateResets ==
  ASSUME ReloadInv, SpacedInv, NEW t0 \in Tenant, NEW a, Activate(t0, a)
  PROVE  /\ \A q \in Puller : \A t \in Tenant : window'[q][t] <= since'[t]
         /\ \A t \in Tenant : t # t0 => active'[t] = active[t]
<1>1. \A q \in Puller : \A t \in Tenant :
        window'[q][t] = IF t = t0 THEN 0 ELSE window[q][t]
  BY DEF ReloadInv, TypeOK, Activate
<1>2. \A t \in Tenant : since'[t] = IF t = t0 THEN 0 ELSE since[t]
  BY DEF ReloadInv, TypeOK, Activate
<1>3. \A t \in Tenant : t # t0 => active'[t] = active[t]
  BY DEF ReloadInv, TypeOK, Activate
<1> QED
  BY <1>1, <1>2, <1>3 DEF SpacedInv

(* The build loads a tenant. *)
LEMMA SpacedInitial ==
  ASSUME ReloadInv, SpacedInv, LoadsOnce, ActivateInitial
  PROVE  SpacedInv' /\ LoadsOnce' /\ active[Cur(Boot)] = None
<1> DEFINE s == todo[Boot]
<1>1. /\ Boot \in Puller /\ pc[Boot] = "pulled" /\ phase = "building" /\ s # << >>
      /\ s \in Seq(Tenant) /\ \A p \in Poller : pc[p] = "idle" /\ p # Boot /\ p \in Puller
  BY TenantAssumption DEF ActivateInitial, ReloadInv, TaskInv, TypeOK, Puller
<1>2. Cur(Boot) \in Tenant
  BY <1>1, CurTyped DEF ReloadInv
<1>3. Activate(Cur(Boot), LoadedOf(Cur(Boot), layer[Boot])) /\ Advance(Boot)
  BY DEF ActivateInitial
<1>4. /\ \A q \in Puller : \A t \in Tenant : window'[q][t] <= since'[t]
      /\ \A t \in Tenant : t # Cur(Boot) => active'[t] = active[t]
  BY <1>2, <1>3, ActivateResets
<1>5. \A p \in Poller : pc'[p] = "idle"
  BY <1>1, <1>3 DEF ReloadInv, TypeOK, Advance
<1>6. SpacedInv'
  BY <1>4, <1>5 DEF SpacedInv, Pulling
<1>7. todo'[Boot] = Tail(s)
  BY <1>1, <1>3 DEF ReloadInv, TypeOK, Advance
<1>8. /\ Len(s) \in Nat /\ 1 \in 1..Len(s) /\ Cur(Boot) = s[1]
      /\ Tail(s) \in Seq(Tenant) /\ Len(Tail(s)) = Len(s) - 1
      /\ \A i \in 1..Len(Tail(s)) : Tail(s)[i] = s[i + 1] /\ i + 1 \in 1..Len(s)
  BY <1>1 DEF Cur
<1>9. /\ \A i, j \in 1..Len(s) : s[i] = s[j] => i = j
      /\ \A i \in 1..Len(s) : active[s[i]] = None
  BY <1>1 DEF LoadsOnce
<1> HIDE DEF s
<1>10. \A i, j \in 1..Len(Tail(s)) : Tail(s)[i] = Tail(s)[j] => i = j
  BY <1>8, <1>9
<1>11. ASSUME NEW i \in 1..Len(Tail(s)) PROVE active'[Tail(s)[i]] = None
  <2>1. i + 1 \in 1..Len(s) /\ i + 1 # 1 /\ Tail(s)[i] = s[i + 1]
    BY <1>8
  <2>2. s[i + 1] # Cur(Boot) /\ active[s[i + 1]] = None /\ s[i + 1] \in Tenant
    BY <1>1, <1>8, <1>9, <2>1
  <2> QED
    BY <1>4, <2>1, <2>2
<1>12. LoadsOnce'
  BY <1>7, <1>10, <1>11 DEF LoadsOnce
<1> QED
  BY <1>6, <1>8, <1>9, <1>12

(* The swap of the one poller: nobody else is on its way to one. *)
LEMMA SpacedSwap ==
  ASSUME ReloadInv, SpacedInv, LoadsOnce, NEW p \in Poller, Swap(p)
  PROVE  SpacedInv' /\ LoadsOnce' /\ since[Cur(p)] = Debounce
<1>1. /\ p \in Puller /\ p # Boot /\ Boot \in Puller /\ pc[p] = "swap" /\ phase = "serving"
      /\ phase' = phase
  BY TenantAssumption DEF Swap, ReloadInv, TaskInv, Puller
<1>2. Cur(p) \in Tenant
  BY <1>1, CurTyped DEF ReloadInv
<1>3. since[Cur(p)] = Debounce
  <2>1. window[p][Cur(p)] = Debounce /\ window[p][Cur(p)] <= since[Cur(p)]
    BY <1>1, <1>2 DEF SpacedInv, Pulling
  <2>2. since[Cur(p)] \in 0..Debounce
    BY <1>2 DEF ReloadInv, TypeOK, Elapsed
  <2> QED
    BY <2>1, <2>2, PolicyAssumption
<1>4. LoadsOnce'
  BY <1>1 DEF LoadsOnce
<1>5. CASE Activate(Cur(p), LoadedOf(Cur(p), layer[p])) /\ Advance(p)
  <2>1. \A q \in Puller : \A t \in Tenant : window'[q][t] <= since'[t]
    BY <1>2, <1>5, ActivateResets
  <2>2. pc'[p] \in {"idle", "tenant"}
    BY <1>1, <1>5 DEF ReloadInv, TypeOK, Advance
  <2> QED
    BY <1>3, <1>4, <2>1, <2>2, PollerAssumption DEF SpacedInv, Pulling
<1>6. CASE AbortPass(p) /\ UNCHANGED <<active, since, failures, window>>
  BY <1>1, <1>3, <1>6, SpacedMoveOn
<1> QED
  BY <1>5, <1>6 DEF Swap

\* What SwapsAreSpaced says of a step.
SpacedStep ==
  \A t \in Tenant :
    (active[t] # None /\ active'[t] # None /\ active'[t] # active[t]) => since[t] = Debounce

(* Every step keeps the spacing, and changes a component only when it may. *)
LEMMA SpacingStep ==
  ASSUME ReloadInv, SpacedInv, LoadsOnce, NamedOnce, [Next]_vars
  PROVE  SpacedInv' /\ LoadsOnce' /\ SpacedStep
<1>boot. Boot \in Puller /\ \A p \in Poller : p \in Puller /\ p # Boot
  BY TenantAssumption DEF Puller
<1>same. ASSUME UNCHANGED active PROVE SpacedStep
  BY <1>same DEF SpacedStep
<1>gone. ASSUME ProcessGone PROVE SpacedInv' /\ LoadsOnce' /\ SpacedStep
  <2>1. \A t \in Tenant : active'[t] = None
    BY <1>gone DEF ProcessGone
  <2> QED
    BY <1>gone, <2>1, SpacedGone DEF SpacedStep
<1>quiet. ASSUME \/ \E t \in Tenant : \E d \in Catalog[t] \cup {None} : Publish(t, d)
                 \/ ToggleReachable \/ UNCHANGED vars
          PROVE  SpacedInv' /\ LoadsOnce' /\ SpacedStep
  <2>1. UNCHANGED <<phase, active, since, pc, todo, window>>
    BY <1>quiet DEF Publish, ToggleReachable, vars, memVars, pullVars
  <2> QED
    BY <2>1, <1>same, SpacedKept, LoadsOnceKept
<1>tick. ASSUME Tick PROVE SpacedInv' /\ LoadsOnce' /\ SpacedStep
  <2>1. UNCHANGED <<phase, active, pc, todo, window>>
    BY <1>tick DEF Tick, pullVars
  <2>2. \A t \in Tenant : since[t] \in Nat /\ since'[t] >= since[t] /\ since'[t] \in Nat
    BY <1>tick, PolicyAssumption DEF Tick, ReloadInv, TypeOK, Elapsed
  <2>3. \A q \in Puller : \A t \in Tenant : window[q][t] \in Nat
    BY PolicyAssumption DEF ReloadInv, TypeOK, Elapsed
  <2>4. SpacedInv'
    BY <2>1, <2>2, <2>3 DEF SpacedInv, Cur
  <2> QED
    BY <2>1, <2>4, <1>same, LoadsOnceKept
<1>hung. ASSUME NEW q \in Puller, Unanswered(q)
         PROVE  SpacedInv' /\ LoadsOnce' /\ SpacedStep
  <2>1. UNCHANGED <<phase, active, since, todo, window>>
    BY <1>hung DEF Unanswered, memVars
  <2>2. \A p \in Poller : pc'[p] \in Pulling => pc[p] \in Pulling
    BY <1>hung, <1>boot DEF Unanswered, ReloadInv, TypeOK, Pulling
  <2> QED
    BY <2>1, <2>2, <1>same, SpacedKept, LoadsOnceKept
<1>start. ASSUME Start PROVE SpacedInv' /\ LoadsOnce' /\ SpacedStep
  <2>1. UNCHANGED <<active, since, window>> /\ phase = "down"
    BY <1>start DEF Start, memVars
  <2>2. /\ todo'[Boot] = ConfigOrder
        /\ \A p \in Poller : pc'[p] = pc[p] /\ todo'[p] = todo[p]
    BY <1>start, <1>boot DEF Start, ReloadInv, TypeOK
  <2>3. \A i \in 1..Len(ConfigOrder) : active'[ConfigOrder[i]] = None
    BY <2>1, OrderAssumption DEF ReloadInv, TaskInv
  <2>4. LoadsOnce'
    BY <2>2, <2>3 DEF LoadsOnce, NamedOnce
  <2> QED
    BY <2>1, <2>2, <2>4, <1>same, SpacedKept
<1>load. ASSUME LoadTenant PROVE SpacedInv' /\ LoadsOnce' /\ SpacedStep
  <2>1. UNCHANGED <<phase, active, since, todo, window>>
    BY <1>load DEF LoadTenant, memVars
  <2>2. \A p \in Poller : pc'[p] = pc[p]
    BY <1>load, <1>boot DEF LoadTenant, ReloadInv, TypeOK
  <2> QED
    BY <2>1, <2>2, <1>same, SpacedKept, LoadsOnceKept
<1>begin. ASSUME NEW p \in Poller, BeginPass(p)
          PROVE  SpacedInv' /\ LoadsOnce' /\ SpacedStep
  <2>1. UNCHANGED <<phase, active, since>> /\ phase = "serving"
    BY <1>begin DEF BeginPass, memVars
  <2>2. /\ \A q \in Puller : q # p => pc'[q] = pc[q] /\ todo'[q] = todo[q]
        /\ pc'[p] = "tenant"
    BY <1>begin, <1>boot DEF BeginPass, ReloadInv, TypeOK
  <2>3. \A q \in Puller : window'[q] = IF q = p THEN since ELSE window[q]
    BY <1>begin, <1>boot DEF BeginPass, ReloadInv, TypeOK
  <2>4. \A t \in Tenant : since[t] <= since[t]
    BY PolicyAssumption DEF ReloadInv, TypeOK, Elapsed
  <2>5. SpacedInv'
    BY <1>boot, <2>1, <2>2, <2>3, <2>4, PollerAssumption DEF SpacedInv, Pulling
  <2> QED
    BY <2>1, <2>5, <1>same, LoadsOnceKept
<1>visit. ASSUME NEW p \in Poller, VisitTenant(p)
          PROVE  SpacedInv' /\ LoadsOnce' /\ SpacedStep
  <2>1. UNCHANGED <<phase, active, since, window>> /\ pc[p] = "tenant"
    BY <1>visit DEF VisitTenant, memVars
  <2>2. CASE Advance(p)
    BY <2>1, <2>2, <1>same, SpacedMoveOn
  <2>3. CASE DebounceElapsed(p, Cur(p)) /\ pc' = [pc EXCEPT ![p] = "manifest"]
             /\ UNCHANGED <<todo, layer>>
    <3>1. Cur(p) \in Tenant
      BY <1>boot, <2>1, CurTyped DEF ReloadInv
    <3>2. window[p][Cur(p)] \in 0..Debounce
      BY <1>boot, <3>1 DEF ReloadInv, TypeOK, Elapsed
    <3>3. window[p][Cur(p)] = Debounce
      BY <2>3, <3>2, PolicyAssumption DEF DebounceElapsed
    <3>4. SpacedInv'
      BY <2>1, <2>3, <3>3, PollerAssumption DEF SpacedInv, Cur
    <3> QED
      BY <2>1, <2>3, <3>4, <1>same, LoadsOnceKept
  <2> QED
    BY <1>visit, <2>2, <2>3 DEF VisitTenant
<1>reply. ASSUME NEW q \in Puller, ManifestReply(q) \/ BlobReply(q)
          PROVE  SpacedInv' /\ LoadsOnce' /\ SpacedStep
  <2>1. UNCHANGED <<phase, active, since, todo, window>> /\ pc[q] \in Pulling
    BY <1>reply DEF ManifestReply, BlobReply, memVars, Pulling
  <2>2. \A r \in Puller : r # q => pc'[r] = pc[r]
    BY <1>reply DEF ManifestReply, BlobReply, ReloadInv, TypeOK
  <2> QED
    BY <1>boot, <2>1, <2>2, <1>same, SpacedKept, LoadsOnceKept
<1>fail. ASSUME NEW q \in Puller, pc[q] # "idle", PullFailed(q)
         PROVE  SpacedInv' /\ LoadsOnce' /\ SpacedStep
  <2>1. CASE q = Boot
    BY <1>fail, <1>gone, <2>1 DEF PullFailed
  <2>2. CASE q # Boot
    <3>1. q \in Poller /\ Advance(q) /\ UNCHANGED <<phase, active, since, window>>
      BY <1>fail, <2>2 DEF PullFailed, Puller
    <3> QED
      BY <1>fail, <3>1, <1>same, SpacedMoveOn
  <2> QED
    BY <2>1, <2>2
<1>act. ASSUME ActivateInitial PROVE SpacedInv' /\ LoadsOnce' /\ SpacedStep
  <2>1. Cur(Boot) \in Tenant
    BY <1>act, <1>boot, CurTyped DEF ActivateInitial, ReloadInv
  <2>2. \A t \in Tenant : t # Cur(Boot) => active'[t] = active[t]
    BY <1>act, <2>1, ActivateResets DEF ActivateInitial
  <2> QED
    BY <1>act, <2>2, SpacedInitial DEF SpacedStep
<1>dec. ASSUME NEW p \in Poller, Decide(p)
        PROVE  SpacedInv' /\ LoadsOnce' /\ SpacedStep
  <2>1. UNCHANGED <<phase, active, since, window>> /\ pc[p] = "pulled"
    BY <1>dec DEF Decide
  <2>2. CASE Advance(p) \/ AbortPass(p)
    BY <2>1, <2>2, <1>same, SpacedMoveOn
  <2>3. CASE pc' = [pc EXCEPT ![p] = "swap"] /\ UNCHANGED todo
    <3>1. \A r \in Poller : r = p
      BY PollerAssumption
    <3>2. pc[p] \in Pulling
      BY <2>1 DEF Pulling
    <3> QED
      BY <2>1, <2>3, <3>1, <3>2, <1>same, SpacedKept, LoadsOnceKept
  <2> QED
    BY <1>dec, <2>2, <2>3 DEF Decide
<1>swap. ASSUME NEW p \in Poller, Swap(p)
         PROVE  SpacedInv' /\ LoadsOnce' /\ SpacedStep
  <2>1. Cur(p) \in Tenant
    BY <1>swap, <1>boot, CurTyped DEF Swap, ReloadInv
  <2>2. \A t \in Tenant : t # Cur(p) => active'[t] = active[t]
    BY <1>swap, <2>1, ActivateResets DEF Swap
  <2> QED
    BY <1>swap, <2>2, SpacedSwap DEF SpacedStep
<1> QED
  BY <1>boot, <1>gone, <1>quiet, <1>tick, <1>hung, <1>start, <1>load, <1>begin,
     <1>visit, <1>reply, <1>fail, <1>act, <1>dec, <1>swap
     DEF Next, BuildStep, PollStep, PullStep, Crash, BuildRejects,
         LoadFileMissing, ManifestError, BlobError, Rejected

(* Swaps of a tenant are a full debounce apart, although poll_once checks
   before a pull and swaps after it, for a configuration that names each tenant
   once. *)
THEOREM ReloadSwapsAreSpaced ==
  ASSUME NamedOnce
  PROVE  Spec => SwapsAreSpaced
<1>1. Init => SpacedInv /\ LoadsOnce
  <2> SUFFICES ASSUME Init PROVE SpacedInv /\ LoadsOnce
    OBVIOUS
  <2>1. /\ \A q \in Puller : \A t \in Tenant : window[q][t] = 0 /\ since[t] = 0
        /\ \A p \in Poller : pc[p] = "idle"
        /\ phase = "down"
    BY DEF Init, Puller
  <2> QED
    BY <2>1 DEF SpacedInv, LoadsOnce, Pulling
<1>2. ReloadInv /\ SpacedInv /\ LoadsOnce /\ [Next]_vars => SpacedInv' /\ LoadsOnce'
  BY SpacingStep
<1>3. ReloadInv /\ SpacedInv /\ LoadsOnce /\ [Next]_vars => [SpacedStep]_vars
  BY SpacingStep
<1>4. Spec => [][SpacedStep]_vars
  BY InvHolds, <1>1, <1>2, <1>3, PTL DEF Spec
<1> QED
  BY <1>4 DEF SwapsAreSpaced, SpacedStep

=============================================================================
