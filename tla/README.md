# A TLA+ verification of Ember

Ember is a multi-tenant WebAssembly runtime: it pulls each tenant's component
from an OCI registry or a file, keeps it up to date while it serves, and runs
requests on pooled instances inside per-tenant limits.  This directory holds
TLA+ models of its stateful parts, the TLC instances that check them, and
TLAPS proofs of the results that hold for every instance.  Paths below are
relative to the repository's root.

## 1. The system

| Part | State | Operations | Talks to |
|---|---|---|---|
| Start-up and hot reload (`src/runtime.rs`) | tenant map; per tenant `active`, `last_swap`, `failures` | `build`, `load_tenant`, `poll_once`, `swap`, the reload loop | registry client, loader, Wasmtime, telemetry |
| Registry client (`src/registry.rs`, `registry/oci.rs`) | none of its own | `pull`, `fetch_component`, `verify_digest` | the registry, the content store |
| Content store (`src/registry/store.rs`) | the cache directory, shared by processes and surviving them | `put`, `get`, `contains` | the file system |
| Reload policy, `PinSet` (same file) | policy constants; a map | `should_reload`, `exhausted`; `pin`, `unpin` | `poll_once`; nobody |
| Invocation (`src/runtime/invoke.rs`) | a queue of prepared instances per tenant, under a tokio Mutex | `invoke`, `acquire`, `release` | `active`, engine, guest |
| Engine (`src/runtime/engine.rs`) | instance slots, the epoch | `build`, the epoch ticker | all stores |
| Configuration (`src/config.rs`) | none after start-up | `load`, `apply_env`, `validate` | `main`, `build` |
| Sandbox limits (`src/wasi/sandbox.rs`) | none after start-up | `validate`, `clamp_to` | engine, pools |
| Scratch files (`src/wasi/sandbox.rs`, `src/component/linker.rs`) | file map under a Mutex, an atomic counter | `write`, `remove`, `used_bytes` | guests of a tenant |
| Loader (`src/component/loader.rs`) | none | `from_bytes`, `ensure_contract` | `load_tenant`, `poll_once` |
| Ingress (`src/http/ingress.rs`), errors (`src/error.rs`) | permits of the concurrency limit; whether a signal has come | `router`, `dispatch`, `serve`, `shutdown_signal`, `status` | `invoke`, clients |
| Egress (`src/http/bridge.rs`) | the tenant's policy, fixed once the bridge is built | `allows`, `extend`, `send`, `send_request` | guests, the network |
| Telemetry (`src/telemetry.rs`) | counters and gauges | `record_*` | all |

What is hard in it, and hard to test:

* **Time of check, time of use.** `poll_once` reads `last_swap`, awaits two
  registry calls and a compilation, then swaps.  A tag may move between
  manifest, blob and swap.
* **Errors that end more than they should.**  `?` inside the loop over tenants
  ends the pass for all of them.
* **No answer.**  No request to the registry has a time-out, and a pass asks for
  one tenant after another.
* **Panics.**  The shipped build aborts on a panic, which a component's response
  can cause.
* **Crashes.**  The store must survive a kill or a power loss between any two
  system calls, and a restart repeats every pull against tags that have moved.
* **Cancellation.**  A request can be dropped at every await: waiting for the
  pool, instantiating with the pool's Mutex held, running, releasing; and the
  permit it holds and its instance go with it.
* **Draining.**  After a signal the requests in flight must still end, with the
  help of tasks that nobody waits for.
* **Starvation.**  The epoch ticker runs on the threads the guests compute on.
* **Checks before changes.**  `validate` checks tenants' limits and then clamps
  them; `build` checks what came out again, one tenant at a time.
* **Shared counters.**  The scratch counter is visible between the steps of a
  write.

`PROJECT.json` lists these hazards by source line with the properties that
cover them.

## 2. Modules

### HotReload: the control plane

`src/runtime.rs`, `src/registry.rs`, `src/registry/oci.rs` and the policy of
`src/registry/store.rs`.  A *puller* is a task that pulls: `Boot` runs
`Runtime::build`, the one member of `Poller` runs `poll_once`, as
`start_background` spawns one reload loop per process (`PollerAssumption`).
This is also what makes it right to take `put` as one step: two loops of one
process would share a temporary file, and `store_shared` shows what that does.

| Variable | Code |
|---|---|
| `origin`, `reachable` | the registry's tags, the files; outages (external) |
| `cache` | the digests `ContentStore::contains` finds |
| `phase` | whether `build` runs or has returned, or there is no process |
| `active`, `since`, `failures` | `Tenant::active`, time since `last_swap`, `failures` |
| `order` | the iteration order of the tenant `HashMap` |
| `pc`, `todo`, `window`, `layer` | a puller's position, the tenants left in its loop, its `now` relative to each `last_swap`, the layer its manifest named |

`poll_once` is cut at its awaits and before the compilation: `BeginPass`,
`VisitTenant`, `ManifestReply`/`ManifestError`, `BlobReply`/`BlobError`,
`Rejected`, `Decide`, `Swap`.  A request may also never be answered
(`Unanswered`): the client sets no time-out (`oci.rs:70`) and nothing wraps a
pull in one, so the task is `hung` until the process ends.  `load_tenant` uses the same pull steps and ends
in `ActivateInitial` or `BuildRejects`; any failure of it fails `build`, which
ends the process (`main` returns the error).  The stores to `active`,
`last_swap` and `failures` in `swap` are one step: no other statement of the
code reads two of them.

Time is counted in ticks and only up to `Debounce`, where it saturates; more
elapsed time makes no difference to the code.  `window[p][t]` is what
`now.saturating_duration_since(last_swap)` yields for the `now` of pass `p`:
it is set from `since` when the pass starts and goes to 0 when `t` is swapped
meanwhile.  `failures` saturates at `FailureBound`, above the park limit.
Bytes are identified with their digest, so SHA-256 is taken as injective, and
whether bytes parse, conform and compile are sets of digests.

### Deployment: what the control plane promises

The abstract specification: tenants go live together or not at all; a live
tenant always runs one whole artifact that is fit for it (from its own source,
valid, conforming, compiling, equal to the pin if any); it changes in one
step.  `HotReload!ImplementsDeployment` instantiates it with
`live <- phase = "serving"` and `running[t]` the bytes in `active[t]`.

### ContentStore: the cache directory

`put` as exists, create (truncating), write chunk by chunk, fsync, rename.
Inodes are explicit, so two callers that share a temporary name share a file.
`Kill` leaves the page cache as it is; `PowerLoss` may lose any chunk that was
not fsynced and any directory entry, since the directory is never fsynced; a
rename that is lost may leave the temporary name where it was.
Restarted processes keep their temporary name: a file left behind is truncated
and reused.

### BlobCache: what the store promises

The abstract store, a set of whole blobs that only grows while the machine is
up; a stop may lose some (`put` does not fsync the directory) and damages
none.  `ContentStore!ImplementsBlobCache` maps `stored` to the blobs whose path
holds them and shows that `put`, its errors and its interleavings are `Add`s
or stutters.  The `cache` of `HotReload` is such a set: `fetch_component` can
therefore read a blob after having asked for it (`oci.rs:123`, `oci.rs:133`).

### Invoke: the data plane

A member of `Request` is a slot of the ingress's concurrency limit.  Its `pc`
follows `invoke`: `acquire` (waiting for the pool's Mutex), `instantiate` (the
guest's start code on a tokio worker, with the Mutex held), `suspended` (start
code that awaits an import, still with the Mutex), `run` (guest code on a
worker), `wait` (guest suspended in an asynchronous import), `release`.  Only a suspended
request can time out or be cancelled: this is how futures work, and why a
guest that computes needs the epoch ticker.  `Workers` is the number of tokio
workers; all actions but those of a computing guest need a free one.  An
instance is its digest, the epochs left to its deadline, and whether its last
call returned.  `AcquireFull` is the engine out of slots.  `MaxInstances` is the
value after clamping.  Early returns of
`invoke` that touch nothing (unknown tenant, bad request) leave no trace in
the model.  Metrics and the `invocations` counter are written and never read,
and left out.

### Ingress: around invoke

Extends `Invoke` and takes over its actions: `Begin` becomes `DispatchTo`,
`Release` becomes `Respond`, or `ResponsePanics`, `Cancel` into `Expire`
and `Disconnect`, and the others are the disjuncts of `CallStep`.  Here a
member of `Request` is a connection.  `stage` follows its request: `queued` in
the concurrency layer's `poll_ready`, which runs before the time-out of the
layer around it is armed; `body`, with a permit, while `dispatch` collects the
body; `invoke`, as far as `pc` says.  A request is in the model from the end of
its head to the moment its response is handed over; half a head, or a client
that does not read its response, is met by no timer of the program and is
outside.  `life` is the process: a signal stops new requests, the drain waits
for the others, and `Stop` is `serve` and `main` returning, which drops the
pools and ends the background tasks.  The reload loop and the ticker go on
during the drain (`TasksRun`).

The program is the release build: `Cargo.toml:93` makes a panic abort, and
`Dockerfile:22` ships that build.  A response with an impossible status panics in
its conversion, after the release (`linker.rs:178`), so `ResponsePanics` ends the
process (`ProcessGone`); `CatchPanicLayer`, which catches unwinding panics, has
no part in the model.

The route is read as it is meant, one tenant segment and a rest
(`ingress.rs:72`; axum 0.8 writes the latter `{*rest}`), and each route has
permits of its own, as axum applies a layer to every route.  Health and metrics
change nothing.  Statuses are not modelled.

### Egress: policy and outbound calls

A rule or an authority is a record of scheme, host and port with the first and
the last optional, a host the sequence of its labels, up to case: this is what
`split_scheme` and `split_authority` compute.  `HostMatches` follows the
matcher label by label.  `Covers`, the reference, is taken from the comments on
it and not from its code: `*` is one segment, `*.x` is `x` and all under it, a
scheme or a port in an entry restricts it (`bridge.rs:64-71`, `114-115`).
`Send` is the filter of `send`, which hands over the host alone, and the rest of
a call is `collect` (the guest's body), `sent` (until the head of the response)
and `read` (its body).  `Redirected` moves the request, `to`, to any authority,
up to the client's limit, without asking the policy; `asked` stays what the
guest gave.  A time-out of the bridge is one of the ways `UpstreamFails`.  A
host has at least one label (`Host`), as `split` always returns a piece.
`extend` has no caller and is left out.

### Scratch: MemFs

`write` and `remove` step by step, because the counter is an atomic that
`scratch-bytes` reads without the Mutex.  Files are lengths, and what is held
is the number of bytes in the map, each at its offset of its file (`Stored`).
The counter wraps at `2 * Half` (`Half` is 2^63), and the quota check compares
as `i64` (`Signed`), which makes a quota of `Half` or more negative.  The sum
in the check is of bytes in memory and does not overflow.  `remove` is part of
`MemFs` although no guest import calls it.

### Config: from a file to tenants

`Config::load` (parse, environment, validate, clamp), then the part of `build`
that depends on it: `load_tenant`'s own checks and the insertion into the
tenant map.  Byte counts are digits with a unit and keep the width of
`usize`; strings are well-formed or not.  `FileText` is what serde's types admit
before the byte counts are parsed; a file outside it is no TOML of this shape
(`None`).  `stage` tells refused by `load`
(`refused`) from refused by `build`'s repeated checks (`failed`) and from a
component that could not be had (`unavailable`, the subject of `HotReload`).
`Exit` ends the process from any stage, `--check` included.  The remaining
fields (egress rules, registry endpoint, intervals, the rest of the http
section) are copied unchecked and left out; both `max_body_bytes` are byte counts
like the others.

## 3. What is checked

Passing runs (`MC*.tla` with the `.cfg` named):

| Run | Instance | Shows |
|---|---|---|
| `reload` | a tenant that follows its tag, a pinned one and one read from a file; four artifacts, two of them refused after the pull; debounce 2, park after 1 | `ActiveFit`, `ActiveCached`, `ServingComplete`, `SwapsAreSpaced`, `Converges`, `ImplementsDeployment` |
| `store_own` | two callers, two names, two blobs of two chunks, three inodes | `StoreIntegrity`, `ImplementsBlobCache` |
| `invoke_safety` | three requests, two tenants, two generations, pool of one each, two slots in the engine | `RunsSnapshot`, `PoolBounded`, `PooledClean`, `LockHeldByInstantiation` |
| `ingress` | three connections, two permits, one tenant with a pool of two, three workers, ticker on; signals, aborts and restarts | `PermitsBoundCalls`, `RequestLeaves`, `DrainEnds`, `StaleDrains` |
| `scratch_quota` | two instances, two files of up to 3 bytes, quota 4 | `QuotaHeld`, `AccountingExact` |
| `config_load` | files of up to two tenants, engine and tenants changed from sound ones in one field; `usize` of 5 bits, k = 4; overrides unset, malformed, zero and one | `AcceptedBuilds`, `WithinEngine`, `LaterEntryWins` |

Why the bounds are enough for the cases of interest: two tenants make one
starve or poison the other and be ahead of or behind it in the iteration order; four artifacts let a
tag move to a sound and to a refused one between any two steps; debounce 2 tells "half
elapsed" from "elapsed"; two chunks make partial files; three inodes serve two
open files and a published one (`Create` waits when none is free, which only
postpones it); three requests over pools of one let two find a pool empty and
both return, and two slots in the engine make it run full; a pool of two queues
an instance of an old generation with one of a new; three connections over two permits let one wait behind two that
stall, and with three workers guests never occupy all of them (more permits
than workers is what `invoke_workers` shows to fail);
two files of 3 under a quota of 4 make every kind of refusal,
growth, shrink and removal happen; 5 bits with k = 4 put sizes on both sides of
the overflow of every unit, and each check of `validate` decides some file.
`Inode` is a symmetry set of the store's
safety runs: inodes are only compared for equality.

Runs that refute a statement of the repository's own documents, comments or
tests (each is a finding in `PROJECT.json`, with the quotation):

| Run | What TLC shows |
|---|---|
| `reload_starved` | a tenant whose tag names an artifact that is refused after its pull ends every pass, so those behind it are not reloaded while it stays there |
| `store_shared` | two callers with one pid (one process, or two containers running as pid 1 on a shared cache volume) publish a damaged blob |
| `invoke_workers` | as many computing guests as workers stop the ticker and the timers |
| `invoke_budget` | a pooled instance starts a call with what is left of its first budget |
| `ingress_panic` | one component's impossible status aborts the process, with the other requests in flight, where a 500 for that request is promised |
| `egress_filter` | a call that was let out on its host follows a redirect to a host no entry covers; the policies of this run restrict neither scheme nor port, so the filter itself is right |

Other places where the modelled behaviour differs from what the repository
says, which the models contain and no run singles out:

* a pinned tenant's tag is resolved all the same, so once it has moved the
  pull, and a restart, fail with the pinned artifact in the store
  (`registry.rs:48`; `config.rs:74`, "the pin wins over `reference`'s tag");
* a parked tenant is pulled in every later pass (`runtime.rs:338`;
  `docs/design/hot-reload.md:73`, "It stops consuming retry budget");
* a failed `put` leaves its temporary file (`store.rs:58`;
  `tests/registry_hotreload.rs:47`);
* with `epoch_interval_ms = 0` nothing stops a computing guest
  (`engine.rs:105`; `RequestEnds` fails with `Ticker = FALSE`);
* `max_instances` bounds idle instances only, and one tenant's idle instances
  can leave another's only request without a slot (`invoke.rs:91`,
  `sandbox.rs:109`; `docs/architecture.md:91`, `sandbox.rs:105`);
* with `http.concurrency = 0`, which `validate` accepts, every tenant request
  waits for ever, as no timer covers the wait for a permit (`config.rs:251`,
  `ingress.rs:85`; `RequestLeaves` fails with `Concurrency = 0`);
* traps, time-outs and failed instantiations return before `record_invoke`, so
  `ember.invoke.errors` counts only responses of components with a status of
  500 or more (`invoke.rs:144`; `telemetry.rs:77`, "invocations that failed
  inside the component or the sandbox");
* `send` asks the policy about the host alone, so the scheme and the port of an
  entry decide nothing for outbound calls (`bridge.rs:187`; `bridge.rs:69`,
  "scheme-restricted"; `EveryRequestFiltered` fails at the first hop when the
  policies have such entries, and `HostAloneForgetsRestrictions` proves it);
* an entry that is `*` alone covers every host, not one segment, and a second
  `*` after a leading one is compared literally (`bridge.rs:120`,
  `bridge.rs:130`; `bridge.rs:114`, "`*` matches a single segment";
  `MatcherCorrect` proves that these are the only differences);
* a registry request that is never answered stops the start, or the reloads of
  every tenant, until the process is restarted (`oci.rs:70`;
  `docs/getting-started.md:102`, "automatic"; `Converges` has the premise that
  the loop does not hang);
* the gauge of a replaced digest stays 1 (`telemetry.rs:143`; `telemetry.rs:87`);
* request bodies are capped, response bodies are not (`bridge.rs:208`;
  `bridge.rs:148`, "capping response bodies");
* a configuration error reads as 500 and an exceeded limit as 429
  (`error.rs:93`, `error.rs:100`; `error.rs:9`, "tenant/configuration failures
  read as 4xx and sandbox/runtime failures read as 5xx");
* the reload loop holds the `Arc<Runtime>` that holds its handle, so dropping
  the runtime does not end it; the process's end does (`runtime.rs:358`;
  `docs/api/reference.md:103`);
* a bad scratch path is answered with `quota-exceeded` (`linker.rs:104`;
  `docs/component-contract.md:70`), and `scratch-write` replaces
  (`sandbox.rs:201`; `wit/ember.wit:51`, "Append").

Deadlock is checked in every run.  Definitions commented `Faulty` are
variants of the code's operators that each break one property; they are used
by no specification.

### Fairness

`HotReload!FairSpec`: the clock advances; a task that can take a step takes
one (tokio runs ready tasks and the interval keeps ticking), where a step of a
task that awaits a registry request is an answer, an error or hanging for ever.
No request is assumed to end: `Converges` says in its premise that the loop does
not hang for good.  Nothing is assumed of restarts, of
publishers, or of outages ending: `Converges` asks for those in its premise.
Its premise also excludes an artifact that is pulled and then refused at any
tenant's tag; `reload_starved` shows that it has to.

`Invoke!FairSpec`: strong fairness for the ticker, the wall-clock timer and the
time-out of the ingress, since each needs a worker that comes and goes (tokio's
scheduler runs every ready task), and weak fairness for the epoch check of a
computing guest, which Wasmtime compiles into loops and calls.  Guests, their
start code included, may compute or wait for ever otherwise.

`Ingress!IngressFairSpec`: the same for the ticker and the epoch check; strong
fairness for taking a permit (tokio's semaphore is a queue) and for
`TimeoutLayer`, which ends a handler at the next place it is suspended in; weak
fairness for `Stop`, as `serve` returns when its connections are done.  The
tenant's own budget, clients, guests, signals and restarts are not assumed to
act.

## 4. What is proved

`ContentStoreProofs` (any callers, blobs, inodes and number of chunks):

* `StoreTypeCorrect`: `Spec => []TypeOK`, through `InsidePut`, which says
  that a caller in the middle of `put` has a blob and an open file.
* `StoreSafe`: `DistinctTmp /\ Spec => []StoreIntegrity`.  Integrity alone is
  not inductive: a rename publishes whatever the temporary name refers to.  The
  invariant `StoreInv` adds that a writer's open file is the one at its
  temporary name (`OwnsFile`), that it holds what was written so far
  (`WrittenSoFar`) and all of it, fsynced, before the rename (`ReadyToRename`),
  and that no temporary file is published or has two names (`TmpPrivate`), so
  truncating a left-over cannot touch a blob.  `DistinctTmp` is the hypothesis
  the `store_shared` run shows to be necessary.
* `StoreImplementsCache`: `DistinctTmp /\ Spec => ImplementsBlobCache`.  Under
  `StoreInv` a path that exists holds its blob (`StoredByPath`), so a step that
  leaves the blob paths alone is a stutter (`SamePaths`), a rename adds one blob
  and only a power loss takes some away (`CacheStep`).

`HotReloadProofs` (the one reload loop of a process; any tenants, artifacts,
orders and policy):

* `ReloadTypeCorrect`, `ReloadActiveFit`, `ReloadActiveCached`,
  `ReloadServingComplete`, all from the inductive `ReloadInv`.  `ActiveFit`
  needs that what a puller carries came from its tenant's own source and has
  passed the checks by the time of the swap (`PullInv`); `ServingComplete`
  needs that while building, every tenant without a component is still on
  `Boot`'s list (`LoadInv`), and that the poller runs only while serving
  (`TaskInv`).
* `ReloadImplementsDeployment`: initial states map to initial states, and
  `StepMaps` shows that every step under `ReloadInv` is a step of `Deployment`
  or a stutter.
* `ReloadSwapsAreSpaced`: `Spec => SwapsAreSpaced` for a configuration that names
  no tenant twice (`NamedOnce`: a second entry replaces the first during the
  build, which is no swap of a serving tenant but changes its slot).  The check
  is made on `window`, which the pass took before the pull, so the invariant
  `SpacedInv` says that a window never runs ahead of the clock and is the full
  debounce from the check to the swap; a swap by another loop would reset it in
  between, which is where `PollerAssumption` is needed.  `LoadsOnce` says the
  build has no component yet for what it has still to load.

`InvokeProofs` (any finite set of requests, any tenants, generations and
limits): `InvokeTypeCorrect`, `InvokeRunsSnapshot`, `InvokePoolBounded`,
`InvokePooledClean`, `InvokeLockHeld`, from `InvokeInv`.  `RunsSnapshot` and
`PooledClean` need each other's ground: a request owns a store exactly between
acquire and the end of release, of the generation it loaded, and what it is
about to release has returned normally (`RequestInv`); pools hold only such
instances (`PoolInv`), so taking one of the right digest from the queue, after
dropping the stale ones before it (`PoppedQueue`), restores the former.

`IngressProofs` (any finite set of connections): `IngressTypeCorrect`,
`IngressPermitsBoundCalls` and `IngressKeepsInvoke`, which carries the
invariants of `Invoke` over to the composition: every step of `Ingress` is a step
of `Invoke`, the end or the restart of the process, or leaves its variables alone
(`IngressIsInvoke`).  `PermitsBoundCalls` follows from counting the holders of
permits instead of the calls (`PermitsHeld`, `CallsHeld`): a call can end before
or after its permit is given back, and only the holders are bounded at the
moment of admission.

`EgressProofs` (any hosts, rules, policies and number of redirects):

* `MatcherCorrect`: asked with scheme, host and port, `PatternMatches` says yes to
  nothing that `Covers` excludes but for a lone `*`, and no to nothing that it
  includes but with a `*` behind a leading one, for every rule and host of any
  number of labels.  The core is `UnderLabels`: comparing from the end is being
  a suffix.
* `HostAloneForgetsRestrictions`: asked as `send` asks it, a policy decides as if
  no entry named a scheme or a port.
* `EgressAskedHostFiltered`: what the filter guarantees all the same.  A call
  under way was let out on the host the guest asked for, by an entry whose host
  covers it or by a lone `*`; one that an entry covers is refused only with a `*`
  behind a leading one.  Nothing is said of where redirects lead, and
  `egress_filter` shows why.
* `EgressTypeCorrect`.  These two have the hypothesis `EgressConstants`, on the
  shape of policies and authorities.

`ConfigProofs` (any width of `usize`, any file, of any length, any
environment): `ConfigTypeCorrect`, `ConfigAcceptedBuilds`,
`ConfigWithinEngine`, `ConfigLaterEntryWins`, from
`ConfigInv`.  `AcceptedBuilds` comes from `ClampGrants`: limits that are valid
stay valid when clamped to an engine that is valid itself, which is why
`validate` has to check the engine too.  `LaterEntryWins` is not inductive: while
tenants are being loaded, each is registered with its last entry among those
dealt with so far (`LastOf`), and the rest of the list is the rest of the file.

`ScratchProofs` (any callers, paths and lengths, every quota of the width):
`ScratchTypeCorrect`, `ScratchQuotaHeld`, `ScratchAccountingExact`, from
`ScratchInv`.  Between its two changes the holder of the Mutex leaves counter
and map apart by exactly what it has still to do (`ChargeInv`), and nobody else
is inside (`LockInv`).  That changing one file changes the bytes held by the
difference (`FileChange`) is a fact about cardinalities: the bytes of the other
files are the same set.  For a quota that is negative as `i64` the bound is 0
(`Limit`): such a tenant can write only empty files, and the counter stays exact.

The proofs assume the named `ASSUME`s of the modules, which TLC evaluates
whenever it checks an instance.  They say what the constants are (finite sets
of requests, `None` not a number, file contents of serde's types, a quota in
the range of its type), and nothing about behaviour.  All the inductive
invariants also hold in every state TLC reaches in the passing instances of
section 3.

Model-checked only: liveness (`Converges`, `RequestLeaves`, `DrainEnds`,
`StaleDrains`), which is outside the prover.  Every
invariant and action property of the passing runs has a theorem.

## 5. What is not modelled, and the plan

Not modelled:

* WASI context construction, the command line, compilation settings, logging
  and the wording of errors: no state or control of the program;
* the error table (`src/error.rs`): a constant map; its differences from the
  comments are listed in section 3;
* `PinSet`, `charge_memory` and `pool_capacity`: no code of the crate calls
  them, so they have no behaviour in the system;
* `EgressPolicy::extend`, for the same reason;
* telemetry: gauges, counters and histograms are written and never read by the
  program;
* `resolve`, `parse_digest`, the export names of the contract, the conversion
  of requests and headers: string data that decides nothing but "accepted" or
  "refused", which the models choose.

Wasmtime, tokio, axum, reqwest, the registry and the file system are external:
they appear as the actions they can take.

Order of the work:

1. Done: `HotReload` with `Deployment`, `ContentStore`, `Invoke`, `Scratch`,
   `Config`; proofs of the first two.
2. Done: `Ingress` composed with `Invoke` (permits, time-out, drain, abort and
   restart); `Egress` with its redirects; `BlobCache` as the contract of
   `ContentStore`, with the refinement proved.
3. Done: proofs of every invariant and action property of the passing runs, of
   `Ingress` on top of those of `Invoke`, and of what the egress filter does and
   does not guarantee.
4. To come: the same facts in the form other code relies on, such as the
   matcher's monotonicity in the allowlist, and the step-wise part of the
   liveness arguments (what a fair step of a task brings nearer).
