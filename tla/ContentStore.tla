----------------------------- MODULE ContentStore -----------------------------
(***************************************************************************)
(* The content-addressed store (src/registry/store.rs), at the level of    *)
(* the system calls put makes: exists, create, write, fsync, rename.  A    *)
(* caller is a thread inside put; several processes may share the cache    *)
(* directory, and a process may be killed, or the machine lose power,      *)
(* between any two calls.                                                  *)
(*                                                                         *)
(* A blob is Chunks chunks long and its k-th chunk is written as its       *)
(* digest: a file's content maps chunk numbers to digests, or to None      *)
(* where nothing has reached the file.                                     *)
(***************************************************************************)
EXTENDS Integers

CONSTANTS
  Caller,   \* threads that call put
  TmpName,  \* names of temporary files
  TmpOf,    \* TmpOf[c]: ".tmp-<pid>" for the process of caller c
  Digest,
  Inode,
  Chunks,   \* chunks write_all needs for a blob
  None

ASSUME StoreAssumption ==
  /\ TmpOf \in [Caller -> TmpName]
  /\ Chunks \in Nat \ {0}
  /\ None \notin Inode /\ None \notin Digest

VARIABLES
  path,    \* path[d]: the inode at the blob path of d, or None
  tmp,     \* tmp[n]: the inode at temporary name n, or None
  content, \* content[i][k]: chunk k of inode i
  synced,  \* inodes whose content has been fsynced since it last changed
  pc,      \* pc[c]: the next call of c inside put; "gone" after a kill
  blob,    \* blob[c]: the blob c is putting, or None
  fd,      \* fd[c]: the inode c has open, or None
  off      \* off[c]: chunks c has written

vars == <<path, tmp, content, synced, pc, blob, fd, off>>

(* The one type invariant of the module. *)
TypeOK ==
  /\ path \in [Digest -> Inode \cup {None}]
  /\ tmp \in [TmpName -> Inode \cup {None}]
  /\ content \in [Inode -> [1..Chunks -> Digest \cup {None}]]
  /\ synced \in SUBSET Inode
  /\ pc \in [Caller -> {"idle", "create", "write", "sync", "rename", "gone"}]
  /\ blob \in [Caller -> Digest \cup {None}]
  /\ fd \in [Caller -> Inode \cup {None}]
  /\ off \in [Caller -> 0..Chunks]

Blank == [k \in 1..Chunks |-> None]
Whole == [d \in Digest |-> [k \in 1..Chunks |-> d]]

\* Inodes no directory entry and no open file refers to.
Free == {i \in Inode : /\ \A d \in Digest : path[d] # i
                       /\ \A n \in TmpName : tmp[n] # i
                       /\ \A c \in Caller : fd[c] # i}

Init ==
  /\ path = [d \in Digest |-> None]
  /\ tmp = [n \in TmpName |-> None]
  /\ content = [i \in Inode |-> Blank]
  /\ synced = {}
  /\ pc = [c \in Caller |-> "idle"]
  /\ blob = [c \in Caller |-> None]
  /\ fd = [c \in Caller |-> None]
  /\ off = [c \in Caller |-> 0]

\* Caller c is out of put, in state s; its file, if open, is closed.
Leave(c, s) ==
  /\ pc' = [pc EXCEPT ![c] = s]
  /\ blob' = [blob EXCEPT ![c] = None]
  /\ fd' = [fd EXCEPT ![c] = None]
  /\ off' = [off EXCEPT ![c] = 0]

(* put(d) is called; if the blob path exists it returns at once, which
   leaves everything as it was. *)
Put(c, d) ==
  /\ pc[c] = "idle"
  /\ path[d] = None
  /\ pc' = [pc EXCEPT ![c] = "create"]
  /\ blob' = [blob EXCEPT ![c] = d]
  /\ UNCHANGED <<path, tmp, content, synced, fd, off>>

\* The inode File::create opens: a file of that name is truncated in place.
CreateTarget(c) == IF tmp[TmpOf[c]] = None THEN Free ELSE {tmp[TmpOf[c]]}

(* File::create on the temporary name. *)
Create(c) ==
  /\ pc[c] = "create"
  /\ \E i \in CreateTarget(c) :
       /\ tmp' = [tmp EXCEPT ![TmpOf[c]] = i]
       /\ content' = [content EXCEPT ![i] = Blank]
       /\ synced' = synced \ {i}
       /\ fd' = [fd EXCEPT ![c] = i]
  /\ off' = [off EXCEPT ![c] = 0]
  /\ pc' = [pc EXCEPT ![c] = "write"]
  /\ UNCHANGED <<path, blob>>

\* Faulty: one chunk too many.
WritePastEnd(c) ==
  /\ pc[c] = "write"
  /\ content' = [content EXCEPT ![fd[c]] =
                   [k \in 1..Chunks |-> IF k = off[c] + 1 THEN blob[c] ELSE @[k]]]
  /\ synced' = synced \ {fd[c]}
  /\ off' = [off EXCEPT ![c] = @ + 1]
  /\ pc' = [pc EXCEPT ![c] = IF off[c] = Chunks THEN "sync" ELSE "write"]
  /\ UNCHANGED <<path, tmp, blob, fd>>

(* One chunk of write_all. *)
Write(c) ==
  /\ pc[c] = "write"
  /\ content' = [content EXCEPT ![fd[c]] = [@ EXCEPT ![off[c] + 1] = blob[c]]]
  /\ synced' = synced \ {fd[c]}
  /\ off' = [off EXCEPT ![c] = @ + 1]
  /\ pc' = [pc EXCEPT ![c] = IF off[c] + 1 = Chunks THEN "sync" ELSE "write"]
  /\ UNCHANGED <<path, tmp, blob, fd>>

\* Faulty: the file is closed without sync_all.
SyncAllSkipped(c) ==
  /\ pc[c] = "sync"
  /\ fd' = [fd EXCEPT ![c] = None]
  /\ pc' = [pc EXCEPT ![c] = "rename"]
  /\ UNCHANGED <<path, tmp, content, synced, blob, off>>

(* sync_all; the file is closed at the end of the block. *)
SyncAll(c) ==
  /\ pc[c] = "sync"
  /\ synced' = synced \cup {fd[c]}
  /\ fd' = [fd EXCEPT ![c] = None]
  /\ pc' = [pc EXCEPT ![c] = "rename"]
  /\ UNCHANGED <<path, tmp, content, blob, off>>

(* rename moves whatever the temporary name refers to now over the blob
   path, replacing an entry that is there. *)
Rename(c) ==
  /\ pc[c] = "rename"
  /\ tmp[TmpOf[c]] # None
  /\ path' = [path EXCEPT ![blob[c]] = tmp[TmpOf[c]]]
  /\ tmp' = [tmp EXCEPT ![TmpOf[c]] = None]
  /\ Leave(c, "idle")
  /\ UNCHANGED <<content, synced>>

\* Faulty: a failed put clears the path it was writing for.
PutErrorClears(c) ==
  /\ pc[c] \in {"create", "write", "sync", "rename"}
  /\ path' = [path EXCEPT ![blob[c]] = None]
  /\ Leave(c, "idle")
  /\ UNCHANGED <<tmp, content, synced>>

(* `?` after create, write_all or sync_all, or a failed rename: put returns
   the error and leaves the temporary file as it is. *)
PutError(c) ==
  /\ pc[c] \in {"create", "write", "sync", "rename"}
  /\ Leave(c, "idle")
  /\ UNCHANGED <<path, tmp, content, synced>>

(* The process of c dies inside put; what it wrote is still in the cache of
   the operating system. *)
Kill(c) ==
  /\ pc[c] \notin {"idle", "gone"}
  /\ Leave(c, "gone")
  /\ UNCHANGED <<path, tmp, content, synced>>

(* The machine stops.  Chunks that were not fsynced may be lost, each by
   itself; so may directory entries, since put does not fsync the directory.
   A rename that is lost leaves the temporary name where it was, or nothing. *)
PowerLoss ==
  /\ \E c \in Caller : pc[c] # "gone"
  /\ \E gone \in SUBSET Digest :
       /\ path' = [d \in Digest |-> IF d \in gone THEN None ELSE path[d]]
       /\ tmp' \in [TmpName -> Inode \cup {None}]
       /\ \A n \in TmpName :
            /\ tmp'[n] \in {None, tmp[n]} \cup {path[d] : d \in gone}
            /\ \A m \in TmpName : m # n /\ tmp'[n] # None => tmp'[m] # tmp'[n]
  /\ \E lost \in SUBSET ((Inode \ (synced \cup Free)) \X (1..Chunks)) :
       content' = [i \in Inode |-> [k \in 1..Chunks |->
                     IF <<i, k>> \in lost THEN None ELSE content[i][k]]]
  /\ synced' = Inode
  /\ pc' = [c \in Caller |-> "gone"]
  /\ blob' = [c \in Caller |-> None]
  /\ fd' = [c \in Caller |-> None]
  /\ off' = [c \in Caller |-> 0]

(* A new process, with the same pid: a temporary file left behind is its. *)
Restart(c) ==
  /\ pc[c] = "gone"
  /\ pc' = [pc EXCEPT ![c] = "idle"]
  /\ UNCHANGED <<path, tmp, content, synced, blob, fd, off>>

Next ==
  \/ \E c \in Caller :
       \/ \E d \in Digest : Put(c, d)
       \/ Create(c) \/ Write(c) \/ SyncAll(c) \/ Rename(c)
       \/ PutError(c) \/ Kill(c) \/ Restart(c)
  \/ PowerLoss

Spec == Init /\ [][Next]_vars

-----------------------------------------------------------------------------
\* Concurrent callers use different temporary names.
DistinctTmp == \A c1, c2 \in Caller : TmpOf[c1] = TmpOf[c2] => c1 = c2

(* A blob path holds the whole blob of its digest, on stable storage, so get
   never reads a partial or a foreign artifact, whoever else is writing,
   whatever was interrupted, and after any crash (src/registry/store.rs:7-9). *)
StoreIntegrity ==
  \A d \in Digest : path[d] # None =>
     /\ content[path[d]] = Whole[d]
     /\ path[d] \in synced

\* The refinement mapping: a blob is stored when its path holds all of it.
Stored == {d \in Digest : path[d] # None /\ content[path[d]] = Whole[d]}
Cache == INSTANCE BlobCache
           WITH stored <- Stored, up <- \E c \in Caller : pc[c] # "gone"

(* The store implements BlobCache: a blob appears whole in one step, and once
   there it stays, whatever other callers create, truncate, rename or fail at,
   so contains followed later by get finds it (src/registry/oci.rs:123-133);
   only a stop of the machine loses one. *)
ImplementsBlobCache == Cache!BSpec

(* The parts of the inductive invariant behind StoreIntegrity. *)

\* A caller inside put has a blob, an open file while it writes and syncs,
\* and something left to write while it writes.
InsidePut ==
  \A c \in Caller :
    /\ pc[c] \notin {"idle", "gone"} => blob[c] \in Digest
    /\ pc[c] \in {"write", "sync"} => fd[c] \in Inode
    /\ pc[c] = "write" => off[c] < Chunks

\* A caller's open file is the one at its temporary name.
OwnsFile ==
  \A c \in Caller : pc[c] \in {"write", "sync"} => fd[c] = tmp[TmpOf[c]]

\* What a caller has written so far is in its file.
WrittenSoFar ==
  \A c \in Caller :
    /\ pc[c] = "write" => \A k \in 1..off[c] : content[fd[c]][k] = blob[c]
    /\ pc[c] = "sync" => content[fd[c]] = Whole[blob[c]]

\* What a caller is about to rename is its whole blob, fsynced.
ReadyToRename ==
  \A c \in Caller : pc[c] = "rename" =>
     /\ tmp[TmpOf[c]] \in synced
     /\ content[tmp[TmpOf[c]]] = Whole[blob[c]]

\* A temporary file has one name and is not published.
TmpPrivate ==
  /\ \A m, n \in TmpName : m # n /\ tmp[m] # None => tmp[m] # tmp[n]
  /\ \A n \in TmpName : \A d \in Digest : tmp[n] # None => path[d] # tmp[n]

StoreInv ==
  /\ TypeOK
  /\ InsidePut
  /\ OwnsFile
  /\ WrittenSoFar
  /\ ReadyToRename
  /\ TmpPrivate
  /\ StoreIntegrity
=============================================================================
