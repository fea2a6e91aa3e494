------------------------------ MODULE MCScratch ------------------------------
(* Instances of Scratch for TLC: two instances of a tenant, two files that do
   not fit the quota together at full length. *)
EXTENDS Scratch
=============================================================================
