------------------------------- MODULE MCIngress -------------------------------
(* Instances of Ingress for TLC. *)
EXTENDS Ingress, TLC

TwoEach == [t \in Tenant |-> 2]
=============================================================================
