------------------------------- MODULE BlobCache -------------------------------
(***************************************************************************)
(* What the content store promises its users: a set of whole blobs that    *)
(* only grows while the machine is up.  A stop may lose blobs (a power     *)
(* loss, since put does not fsync the directory), but never damages one.   *)
(* ContentStore implements it; HotReload's `cache` is an instance of it.   *)
(***************************************************************************)
CONSTANT Digest

VARIABLES stored, up

bvars == <<stored, up>>

BInit == stored = {} /\ up \in BOOLEAN

Add(d) ==
  /\ up
  /\ stored' = stored \cup {d}
  /\ UNCHANGED up

GoDown ==
  /\ up' = FALSE
  /\ stored' \in SUBSET stored

ComeUp ==
  /\ up' = TRUE
  /\ UNCHANGED stored

BNext ==
  \/ \E d \in Digest : Add(d)
  \/ GoDown
  \/ ComeUp

BSpec == BInit /\ [][BNext]_bvars
=============================================================================
