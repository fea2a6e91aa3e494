---------------------------- MODULE MCContentStore ----------------------------
(* Instances of ContentStore for TLC: callers in processes of their own, and
   callers that share a process and so a temporary name. *)
EXTENDS ContentStore, TLC

CONSTANTS c1, c2, n1, n2

OwnTmp == (c1 :> n1) @@ (c2 :> n2)
SharedTmp == (c1 :> n1) @@ (c2 :> n1)
InodeSymmetry == Permutations(Inode)

\* Concurrent callers of these instances have temporary names of their own.
ASSUME TmpOf = OwnTmp => DistinctTmp
=============================================================================
