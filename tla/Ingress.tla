------------------------------- MODULE Ingress -------------------------------
(***************************************************************************)
(* The HTTP ingress around invoke (src/http/ingress.rs): a request waits   *)
(* for a permit of ConcurrencyLimitLayer, has its body collected and is    *)
(* dispatched into module Invoke, all but the wait under TimeoutLayer; a   *)
(* signal lets the requests in flight drain and then ends the process.     *)
(* Extends Invoke: every step of a request there is a step here too.       *)
(*                                                                         *)
(* The program is the release build, the one the image ships: a panic      *)
(* aborts it (panic = "abort" in Cargo.toml), and CatchPanicLayer, which   *)
(* catches unwinding panics, has none to catch.                            *)
(*                                                                         *)
(* A member of Request is a connection, which carries one request at a     *)
(* time.  A request is in the model from the end of its head to the moment *)
(* its response, or the error that stands for one, is handed over.         *)
(***************************************************************************)
EXTENDS Invoke

CONSTANT Concurrency  \* http.concurrency, which validate does not check

ASSUME IngressAssumption == Concurrency \in Nat

VARIABLES
  life,   \* "serving", "draining" after the signal, "stopped"
  stage   \* stage[r]: "none", "queued" for a permit, "body", "invoke"

ingressVars == <<life, stage>>
allVars == <<vars, ingressVars>>

(* The one type invariant of the module. *)
IngressTypeOK ==
  /\ life \in {"serving", "draining", "stopped"}
  /\ stage \in [Request -> {"none", "queued", "body", "invoke"}]

IngressInit ==
  /\ Init
  /\ life = "serving"
  /\ stage = [r \in Request |-> "none"]

Holders == {r \in Request : stage[r] \in {"body", "invoke"}}

MoveTo(r, s) == stage' = [stage EXCEPT ![r] = s]

(* The head of a tenant request arrives; a draining server reads no more. *)
Arrive(r) ==
  /\ FreeWorker
  /\ life = "serving" /\ stage[r] = "none"
  /\ MoveTo(r, "queued")
  /\ UNCHANGED <<vars, life>>

(* poll_ready of the concurrency layer, which comes before the call that
   arms the time-out. *)
TakePermit(r) ==
  /\ FreeWorker
  /\ stage[r] = "queued" /\ Cardinality(Holders) < Concurrency
  /\ MoveTo(r, "body")
  /\ UNCHANGED <<vars, life>>

(* The body breaks off or is too long, the tenant's name is malformed or
   unknown, or its host context cannot be built: an error is the answer. *)
Refuse(r) ==
  /\ FreeWorker
  /\ stage[r] = "body"
  /\ MoveTo(r, "none")
  /\ UNCHANGED <<vars, life>>

(* The body is complete and invoke is called. *)
DispatchTo(r, t) ==
  /\ stage[r] = "body"
  /\ Begin(r, t)
  /\ MoveTo(r, "invoke")
  /\ UNCHANGED life

\* Faulty: the stage is taken from the call.
SettleAsCall(r) == MoveTo(r, pc'[r])

\* A request whose call has ended is answered.
Settle(r) == MoveTo(r, IF pc'[r] = "idle" THEN "none" ELSE "invoke")

(* A step of invoke up to the release; one that ends the call is an error:
   failed instantiation, trap, wall-clock budget. *)
CallStep(r) ==
  /\ \/ AcquireHit(r) \/ AcquireMiss(r) \/ AcquireFull(r)
     \/ Instantiated(r) \/ InstantiateError(r)
     \/ GuestAwait(r) \/ GuestResume(r)
     \/ GuestReturn(r) \/ GuestTrap(r) \/ WallTimeout(r)
  /\ Settle(r)
  /\ UNCHANGED life

\* The step of a guest that is past its deadline and computes.
Interrupted(r) == EpochTrap(r) /\ CallStep(r)

(* release returns, the response converts and is returned. *)
Respond(r) ==
  /\ Release(r)
  /\ Settle(r)
  /\ UNCHANGED life

\* The process is gone, and with it pools, calls and connections.
ProcessGone ==
  /\ life' = "stopped"
  /\ pool' = [t \in Tenant |-> << >>]
  /\ lock' = [t \in Tenant |-> None]
  /\ pc' = [r \in Request |-> "idle"]
  /\ tenant' = [r \in Request |-> None]
  /\ snap' = [r \in Request |-> None]
  /\ inst' = [r \in Request |-> None]
  /\ stage' = [r \in Request |-> "none"]
  /\ UNCHANGED active

(* After the release, the status that the component gave is not an HTTP
   status: the conversion panics. *)
ResponsePanics(r) ==
  /\ FreeWorker
  /\ pc[r] = "release" /\ lock[tenant[r]] = None
  /\ ProcessGone

\* The handler's future is dropped where it is suspended.
DropHandler(r) ==
  /\ \/ stage[r] = "body" /\ FreeWorker /\ UNCHANGED vars
     \/ stage[r] = "invoke" /\ Cancel(r)
  /\ MoveTo(r, "none")
  /\ UNCHANGED life

\* Faulty: only the dispatcher's future is under the time-out.
ExpireCallOnly(r) == stage[r] = "invoke" /\ DropHandler(r)

\* Faulty: the call goes on in a task of its own.
ExpireDetached(r) ==
  /\ FreeWorker
  /\ stage[r] \in {"body", "invoke"} /\ pc[r] # "run"
  /\ MoveTo(r, "none")
  /\ UNCHANGED <<vars, life>>

(* TimeoutLayer. *)
Expire(r) == DropHandler(r)

(* The client goes away. *)
Disconnect(r) ==
  \/ DropHandler(r)
  \/ /\ FreeWorker
     /\ stage[r] = "queued"
     /\ MoveTo(r, "none")
     /\ UNCHANGED <<vars, life>>

(* Ctrl-C or SIGTERM. *)
ShutdownSignal ==
  /\ FreeWorker
  /\ life = "serving"
  /\ life' = "draining"
  /\ UNCHANGED <<vars, stage>>

(* Every connection is done: serve and main return, and the runtime with its
   pools is dropped. *)
Stop ==
  /\ life = "draining"
  /\ \A r \in Request : stage[r] = "none"
  /\ ProcessGone

(* A supervisor starts the process again. *)
Restart ==
  /\ life = "stopped"
  /\ life' = "serving"
  /\ active' \in [Tenant -> Gen]
  /\ UNCHANGED <<pool, lock, pc, tenant, snap, inst, stage>>

\* Faulty: the signal ends the background tasks.
TasksRunServing == life = "serving"

\* The ticker and the reload loop run as long as main has not returned.
TasksRun == life # "stopped"

EpochTicker == TasksRun /\ EpochTick /\ UNCHANGED ingressVars

ReloadLoop(t, g) == TasksRun /\ SwapActive(t, g) /\ UNCHANGED ingressVars

IngressNext ==
  \/ \E r \in Request :
       \/ Arrive(r) \/ TakePermit(r) \/ Refuse(r)
       \/ \E t \in Tenant : DispatchTo(r, t)
       \/ CallStep(r) \/ Respond(r) \/ ResponsePanics(r)
       \/ Expire(r) \/ Disconnect(r)
  \/ EpochTicker
  \/ \E t \in Tenant : \E g \in Gen : ReloadLoop(t, g)
  \/ ShutdownSignal \/ Stop \/ Restart

IngressSpec == IngressInit /\ [][IngressNext]_allVars

(* As in Invoke, with TimeoutLayer's timer, which ends a handler at its next
   suspension, in place of the tenant's budget; the semaphore is a queue, and
   serve returns when it can.  Clients may stall for ever in their body. *)
IngressFairSpec ==
  /\ IngressSpec
  /\ SF_allVars(EpochTicker)
  /\ WF_allVars(Stop)
  /\ \A r \in Request :
       /\ SF_allVars(TakePermit(r))
       /\ SF_allVars(Expire(r))
       /\ WF_allVars(Interrupted(r))

-----------------------------------------------------------------------------
(* Only requests that hold a permit are inside invoke, and no more of them
   than http.concurrency, although each can be dropped at any await, by the
   time-out or by its client, with the permit or the call going first. *)
PermitsBoundCalls ==
  /\ \A r \in Request : pc[r] # "idle" <=> stage[r] = "invoke"
  /\ Cardinality({r \in Request : pc[r] # "idle"}) <= Concurrency

(* Every request that arrives is answered or given up, whatever its client
   and its guest do, those that wait for a permit, which no timer covers,
   included. *)
RequestLeaves == \A r \in Request : stage[r] # "none" ~> stage[r] = "none"

(* A signal ends the process once the requests in flight are through
   (src/http/ingress.rs:97), although their guests may compute for ever. *)
DrainEnds == life = "draining" ~> life = "stopped"

-----------------------------------------------------------------------------
(* A statement of the repository's comments that the shipped build does not
   meet. *)

(* src/http/ingress.rs:14-15: a panic in a handler is that request's 500.  So
   no step ends two requests, and a serving process stops only by way of the
   drain. *)
PanicsAreContained ==
  [][/\ \A q, r \in Request :
          (stage[q] # "none" /\ stage'[q] = "none" /\ stage[r] # "none" /\ stage'[r] = "none")
          => q = r
     /\ life = "serving" => life' # "stopped"]_allVars
=============================================================================
