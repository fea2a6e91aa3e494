------------------------------ MODULE Deployment ------------------------------
(***************************************************************************)
(* What the runtime promises a deployer, without registries, passes or     *)
(* caches (the "hard constraints" of docs/design/hot-reload.md): tenants   *)
(* are started together or not at all, a live tenant always runs one whole *)
(* artifact that is fit for it, and it changes artifact in one step.       *)
(***************************************************************************)
CONSTANTS Tenant, Fit, None

VARIABLES live, running

dvars == <<live, running>>

DInit ==
  /\ live = FALSE
  /\ running = [t \in Tenant |-> None]

\* Before going live, a tenant is given its first artifact.
Load(t, d) ==
  /\ ~live
  /\ running' = [running EXCEPT ![t] = d]
  /\ live' \in {FALSE, \A u \in Tenant : running'[u] # None}

\* A live tenant is moved to another artifact.
Reload(t, d) ==
  /\ live
  /\ running' = [running EXCEPT ![t] = d]
  /\ UNCHANGED live

\* Everything stops: a crash, or a start that failed.
Stop ==
  /\ live' = FALSE
  /\ running' = [t \in Tenant |-> None]

DNext ==
  \/ \E t \in Tenant : \E d \in Fit[t] : Load(t, d) \/ Reload(t, d)
  \/ Stop

DSpec == DInit /\ [][DNext]_dvars
=============================================================================
