------------------------------- MODULE MCInvoke -------------------------------
(* Instances of Invoke for TLC. *)
EXTENDS Invoke, TLC

CONSTANTS t1, t2

OneEach == [t \in Tenant |-> 1]
TwoEach == [t \in Tenant |-> 2]
=============================================================================
