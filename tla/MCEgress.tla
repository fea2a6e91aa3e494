------------------------------- MODULE MCEgress -------------------------------
(***************************************************************************)
(* Instances of Egress for TLC: hosts of up to two labels out of two, on   *)
(* two schemes and two ports, and policies of one entry that names a host  *)
(* or a domain and restricts neither scheme nor port, so that the filter   *)
(* decides as documented for what a guest asks for.                        *)
(***************************************************************************)
EXTENDS Egress, TLC

HostsOver(L, n) == UNION {[1..k -> L] : k \in 1..n}

AllAuthorities ==
  [scheme : {"http", "https"}, host : HostsOver({"a", "b"}, 2), port : {80, 443}]

HostRules ==
  [scheme : {None}, host : HostsOver({"a", "b"}, 2) \cup {<<Star, "b">>}, port : {None}]

HostPolicies == {[allow |-> {rule}, deny |-> TRUE] : rule \in HostRules}
=============================================================================
