-------------------------------- MODULE Scratch --------------------------------
(***************************************************************************)
(* The scratch file system a tenant's instances share: MemFs               *)
(* (src/wasi/sandbox.rs) behind the scratch-write import                   *)
(* (src/component/linker.rs).  A file is its length.  The byte counter is  *)
(* an atomic next to the Mutex of the file map: scratch-bytes reads it     *)
(* without the Mutex, so the steps of write and remove are visible to it   *)
(* one by one.                                                             *)
(***************************************************************************)
EXTENDS Integers, FiniteSets

CONSTANTS
  Caller,  \* instances of the tenant that call the host
  Path,    \* relative paths
  BadPath, \* empty and absolute paths
  Quota,   \* memfs_quota_bytes
  MaxLen,  \* bound: longest data a guest writes
  Half,    \* 2^63: the values of u64 from which `as i64` is negative
  None

ASSUME ScratchAssumption ==
  /\ Half \in Nat \ {0}
  /\ Quota \in 1..(2 * Half - 1) /\ MaxLen \in 0..(Half - 1)
  /\ Path \cap BadPath = {} /\ None \notin Caller /\ None \notin Nat

VARIABLES
  files,  \* files[p]: length of the file at p, or None
  used,   \* the atomic counter
  lock,   \* holder of the Mutex, or None
  pc,     \* pc[c]: the next step of c inside write or remove
  arg,    \* arg[c]: path and length c works on
  reply   \* reply[c]: what c's last scratch-write returned

vars == <<files, used, lock, pc, arg, reply>>

NoArg == [path |-> None, len |-> 0]

(* The one type invariant of the module. *)
TypeOK ==
  /\ files \in [Path -> (0..MaxLen) \cup {None}]
  /\ used \in 0..(2 * Half - 1)
  /\ lock \in Caller \cup {None}
  /\ pc \in [Caller -> {"idle", "lock", "account", "insert", "refund"}]
  /\ arg \in [Caller -> [path : Path \cup {None}, len : 0..MaxLen]]
  /\ reply \in [Caller -> {None, "ok", "quota-exceeded", "invalid-path"}]

\* unwrap_or(0) on the length of an absent file.
Size(p) == IF files[p] = None THEN 0 ELSE files[p]

\* The bytes in the file map, each at its offset of its file.
Stored == {b \in Path \X (1..MaxLen) : b[2] <= Size(b[1])}
Held == Cardinality(Stored)

\* Faulty: an overwritten file keeps its charge.
DeltaGross(c) == arg[c].len

\* next - prev, on i64.
Delta(c) == arg[c].len - Size(arg[c].path)

\* Faulty: the other files are not counted.
ExceedsAlone(c) == Delta(c) > Quota

\* u64 as i64.
Signed(n) == IF n < Half THEN n ELSE n - 2 * Half

\* The quota check of write.
Exceeds(c) == Delta(c) > 0 /\ Signed(used) + Delta(c) > Signed(Quota)

\* fetch_add and fetch_sub wrap.
Wrapped(n) == n % (2 * Half)

\* scratch_write's view of MemFs::write's errors: write reports a bad path
\* and an exceeded quota with the same Error::LimitExceeded.
ReplyTo(error) ==
  IF error = "LimitExceeded" THEN "quota-exceeded" ELSE "invalid-path"

Init ==
  /\ files = [p \in Path |-> None]
  /\ used = 0
  /\ lock = None
  /\ pc = [c \in Caller |-> "idle"]
  /\ arg = [c \in Caller |-> NoArg]
  /\ reply = [c \in Caller |-> None]

(* scratch-write is called: a bad path is refused before the Mutex. *)
WriteBadPath(c, p) ==
  /\ pc[c] = "idle"
  /\ p \in BadPath
  /\ reply' = [reply EXCEPT ![c] = ReplyTo("LimitExceeded")]
  /\ UNCHANGED <<files, used, lock, pc, arg>>

Write(c, p, n) ==
  /\ pc[c] = "idle"
  /\ p \in Path
  /\ arg' = [arg EXCEPT ![c] = [path |-> p, len |-> n]]
  /\ pc' = [pc EXCEPT ![c] = "lock"]
  /\ UNCHANGED <<files, used, lock, reply>>

\* Caller c returns from the host with reply s.
Return(c, s) ==
  /\ reply' = [reply EXCEPT ![c] = s]
  /\ arg' = [arg EXCEPT ![c] = NoArg]
  /\ pc' = [pc EXCEPT ![c] = "idle"]

(* The Mutex is taken and the quota checked; an excess gives it back. *)
WriteLock(c) ==
  /\ pc[c] = "lock"
  /\ lock = None
  /\ \/ /\ Exceeds(c)
        /\ Return(c, ReplyTo("LimitExceeded"))
        /\ UNCHANGED lock
     \/ /\ ~Exceeds(c)
        /\ lock' = c
        /\ pc' = [pc EXCEPT ![c] = "account"]
        /\ UNCHANGED <<arg, reply>>
  /\ UNCHANGED <<files, used>>

(* The counter moves by the difference, up or down. *)
WriteAccount(c) ==
  /\ pc[c] = "account"
  /\ used' = Wrapped(used + Delta(c))
  /\ pc' = [pc EXCEPT ![c] = "insert"]
  /\ UNCHANGED <<files, lock, arg, reply>>

(* The file is replaced and the Mutex released. *)
WriteInsert(c) ==
  /\ pc[c] = "insert"
  /\ files' = [files EXCEPT ![arg[c].path] = arg[c].len]
  /\ lock' = None
  /\ Return(c, "ok")
  /\ UNCHANGED used

\* Faulty: the length is looked up after the file is gone.
RemoveThenMeasure(c, p) ==
  /\ pc[c] = "idle"
  /\ lock = None
  /\ files[p] # None
  /\ lock' = c
  /\ files' = [files EXCEPT ![p] = None]
  /\ arg' = [arg EXCEPT ![c] = [path |-> p, len |-> files'[p]]]
  /\ pc' = [pc EXCEPT ![c] = "refund"]
  /\ UNCHANGED <<used, reply>>

(* remove: under the Mutex the file goes first, the counter follows. *)
Remove(c, p) ==
  /\ pc[c] = "idle"
  /\ lock = None
  /\ files[p] # None
  /\ lock' = c
  /\ arg' = [arg EXCEPT ![c] = [path |-> p, len |-> files[p]]]
  /\ files' = [files EXCEPT ![p] = None]
  /\ pc' = [pc EXCEPT ![c] = "refund"]
  /\ UNCHANGED <<used, reply>>

RemoveRefund(c) ==
  /\ pc[c] = "refund"
  /\ used' = Wrapped(used - arg[c].len)
  /\ lock' = None
  /\ Return(c, None)
  /\ UNCHANGED files

Next ==
  \E c \in Caller :
    \/ \E p \in BadPath : WriteBadPath(c, p)
    \/ \E p \in Path : \E n \in 0..MaxLen : Write(c, p, n)
    \/ WriteLock(c) \/ WriteAccount(c) \/ WriteInsert(c)
    \/ \E p \in Path : Remove(c, p)
    \/ RemoveRefund(c)

Spec == Init /\ [][Next]_vars

-----------------------------------------------------------------------------
(* Neither what the tenant holds nor what a lock-free scratch-bytes reads,
   in the middle of whichever writes and removals, exceeds the quota. *)
QuotaHeld == Held <= Quota /\ used <= Quota

(* Whenever nobody is inside the Mutex, the counter is the bytes held: no
   refusal, overwrite, shrink or removal leaks or invents quota. *)
AccountingExact == lock = None => used = Held
=============================================================================
