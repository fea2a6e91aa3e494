---------------------------- MODULE ScratchProofs ----------------------------
(***************************************************************************)
(* The scratch quota holds, and the counter is exact, for any number of    *)
(* instances, paths and lengths, and for every quota usize can hold.       *)
(***************************************************************************)
EXTENDS Scratch, FiniteSetTheorems, TLAPS

\* What the quota comes to: `as i64` makes one from Half on negative, and
\* then no write that needs bytes passes.
Limit == IF Quota < Half THEN Quota ELSE 0

\* The Mutex is held by the caller between its two halves, and by nobody else.
Inside == {"account", "insert", "refund"}
LockInv ==
  /\ \A c \in Caller : pc[c] \in Inside <=> lock = c
  /\ \A c \in Caller : pc[c] # "idle" => arg[c].path \in Path

\* The counter differs from the bytes held only by what the holder of the
\* Mutex has done of its two changes.
ChargeInv ==
  /\ lock = None => used = Held
  /\ \A c \in Caller :
       /\ pc[c] = "account" => used = Held /\ ~Exceeds(c)
       /\ pc[c] = "insert" => used = Held + Delta(c)
       /\ pc[c] = "refund" => used = Held + arg[c].len

ScratchInv ==
  /\ TypeOK
  /\ LockInv
  /\ ChargeInv
  /\ IsFiniteSet(Stored)
  /\ used <= Limit /\ Held <= Limit

-----------------------------------------------------------------------------
\* The length of what a slot of the map holds; the bytes in the map f, and
\* those of its files other than p.
Map == [Path -> (0..MaxLen) \cup {None}]
Length(v) == IF v = None THEN 0 ELSE v
StoredIn(f) == {b \in Path \X (1..MaxLen) : b[2] <= Length(f[b[1]])}
Others(f, p) == {b \in StoredIn(f) : b[1] # p}

(* A file of length n is n bytes. *)
LEMMA FileBytes ==
  ASSUME NEW p, NEW n \in Nat
  PROVE  IsFiniteSet({p} \X (1..n)) /\ Cardinality({p} \X (1..n)) = n
<1>1. IsFiniteSet(1..n) /\ Cardinality(1..n) = n
  BY FS_Interval
<1>2. IsFiniteSet({p}) /\ Cardinality({p}) = 1
  BY FS_Singleton
<1> HIDE DEF Cardinality
<1>3. /\ IsFiniteSet({p} \X (1..n))
      /\ Cardinality({p} \X (1..n)) = Cardinality({p}) * Cardinality(1..n)
  BY <1>1, <1>2, FS_Product
<1> QED
  BY <1>1, <1>2, <1>3

(* The bytes held are those of one file and those of the others. *)
LEMMA StoredSplit ==
  ASSUME NEW f \in Map, NEW p \in Path
  PROVE  /\ Length(f[p]) \in 0..MaxLen
         /\ StoredIn(f) = Others(f, p) \cup ({p} \X (1..Length(f[p])))
         /\ Others(f, p) \cap ({p} \X (1..Length(f[p]))) = {}
<1> DEFINE n == Length(f[p])
<1>1. n \in 0..MaxLen /\ MaxLen \in Nat
  BY ScratchAssumption DEF Map, Length
<1>2. ASSUME NEW b \in StoredIn(f) PROVE b \in Others(f, p) \cup ({p} \X (1..n))
  <2>1. PICK q \in Path, i \in 1..MaxLen : b = <<q, i>> /\ i <= Length(f[q])
    BY <1>2 DEF StoredIn
  <2>2. CASE q = p
    BY <1>1, <2>1, <2>2
  <2>3. CASE q # p
    BY <1>2, <2>1, <2>3 DEF Others
  <2> QED
    BY <2>2, <2>3
<1>3. ASSUME NEW b \in {p} \X (1..n) PROVE b \in StoredIn(f) /\ b \notin Others(f, p)
  <2>1. PICK i \in 1..n : b = <<p, i>>
    OBVIOUS
  <2>2. i \in 1..MaxLen /\ i <= n
    BY <1>1, <2>1
  <2> QED
    BY <2>1, <2>2 DEF StoredIn, Others
<1>4. Others(f, p) \subseteq StoredIn(f)
  BY DEF Others
<1> HIDE DEF n
<1>5. /\ StoredIn(f) = Others(f, p) \cup ({p} \X (1..n))
      /\ Others(f, p) \cap ({p} \X (1..n)) = {}
  BY <1>2, <1>3, <1>4
<1> QED
  BY <1>1, <1>5 DEF n

(* Hence their number. *)
LEMMA HeldSplit ==
  ASSUME NEW f \in Map, IsFiniteSet(StoredIn(f)), NEW p \in Path
  PROVE  /\ IsFiniteSet(Others(f, p)) /\ Cardinality(Others(f, p)) \in Nat
         /\ Cardinality(StoredIn(f)) = Cardinality(Others(f, p)) + Length(f[p])
<1> DEFINE F == {p} \X (1..Length(f[p]))
           O == Others(f, p)
<1>1. Length(f[p]) \in Nat /\ StoredIn(f) = O \cup F /\ O \cap F = {}
  BY StoredSplit, ScratchAssumption
<1>2. IsFiniteSet(F) /\ Cardinality(F) = Length(f[p])
  BY <1>1, FileBytes
<1>3. O \in SUBSET StoredIn(f)
  BY DEF Others
<1>4. IsFiniteSet(O)
  BY <1>3, FS_Subset
<1>5. Cardinality(O) \in Nat
  BY <1>4, FS_CardinalityType
<1> HIDE DEF F, O
<1>6. Cardinality(O \cup F) = Cardinality(O) + Cardinality(F) - Cardinality(O \cap F)
  BY <1>2, <1>4, FS_Union
<1>7. Cardinality(O \cap F) = 0
  BY <1>1, FS_EmptySet
<1> QED
  BY <1>1, <1>2, <1>4, <1>5, <1>6, <1>7 DEF O

(* Changing one file changes the bytes held by the difference. *)
LEMMA FileChange ==
  ASSUME NEW f \in Map, IsFiniteSet(StoredIn(f)), NEW p \in Path,
         NEW v \in (0..MaxLen) \cup {None}
  PROVE  LET g == [f EXCEPT ![p] = v]
         IN  /\ IsFiniteSet(StoredIn(g))
             /\ Cardinality(StoredIn(f)) \in Nat /\ Cardinality(StoredIn(g)) \in Nat
             /\ Length(f[p]) \in 0..MaxLen /\ Length(f[p]) <= Cardinality(StoredIn(f))
             /\ Cardinality(StoredIn(g)) = Cardinality(StoredIn(f)) - Length(f[p]) + Length(v)
<1> DEFINE g == [f EXCEPT ![p] = v]
<1>1. g \in Map /\ g[p] = v /\ \A q \in Path : q # p => g[q] = f[q]
  BY DEF Map
<1>2. Length(v) \in Nat /\ Length(f[p]) \in 0..MaxLen /\ Length(f[p]) \in Nat
  BY ScratchAssumption DEF Map, Length
<1> HIDE DEF g
<1>3. Others(g, p) = Others(f, p)
  <2>1. ASSUME NEW q \in Path, NEW i \in 1..MaxLen
        PROVE  <<q, i>> \in Others(g, p) <=> <<q, i>> \in Others(f, p)
    BY <1>1 DEF Others, StoredIn
  <2>2. Others(f, p) \subseteq Path \X (1..MaxLen) /\ Others(g, p) \subseteq Path \X (1..MaxLen)
    BY DEF Others, StoredIn
  <2> QED
    BY <2>1, <2>2
<1>4. /\ IsFiniteSet(Others(f, p)) /\ Cardinality(Others(f, p)) \in Nat
      /\ Cardinality(StoredIn(f)) = Cardinality(Others(f, p)) + Length(f[p])
  BY HeldSplit
<1>5. StoredIn(g) = Others(f, p) \cup ({p} \X (1..Length(v)))
  BY <1>1, <1>3, StoredSplit
<1>6. IsFiniteSet(StoredIn(g))
  <2>1. IsFiniteSet({p} \X (1..Length(v)))
    BY <1>2, FileBytes
  <2>2. IsFiniteSet(Others(f, p) \cup ({p} \X (1..Length(v))))
    BY <1>4, <2>1, FS_Union
  <2> QED
    BY <1>5, <2>2
<1>7. Cardinality(StoredIn(g)) = Cardinality(Others(f, p)) + Length(v)
  BY <1>1, <1>3, <1>6, HeldSplit
<1>8. /\ IsFiniteSet(StoredIn(g))
      /\ Cardinality(StoredIn(f)) \in Nat /\ Cardinality(StoredIn(g)) \in Nat
      /\ Length(f[p]) \in 0..MaxLen /\ Length(f[p]) <= Cardinality(StoredIn(f))
      /\ Cardinality(StoredIn(g)) = Cardinality(StoredIn(f)) - Length(f[p]) + Length(v)
  BY <1>2, <1>4, <1>6, <1>7
<1> QED
  BY <1>8 DEF g

(* The module's Size, Stored and Held are those of the map `files`. *)
LEMMA OfFiles ==
  /\ \A p : Size(p) = Length(files[p])
  /\ Stored = StoredIn(files) /\ Held = Cardinality(StoredIn(files))
BY DEF Size, Stored, Held, StoredIn, Length

(* A counter that has not left its range is not wrapped. *)
LEMMA NoWrap ==
  ASSUME NEW n \in 0..(2 * Half - 1)
  PROVE  Wrapped(n) = n
BY ScratchAssumption DEF Wrapped

(* The limit is a number below Half, at most the quota. *)
LEMMA LimitBelow == Limit \in Nat /\ Limit < Half /\ Limit <= Quota /\ Half \in Nat
BY ScratchAssumption DEF Limit

(* A write that passes the check fits. *)
LEMMA PassedFits ==
  ASSUME NEW c \in Caller, used \in Nat, used <= Limit, Delta(c) \in Int, Delta(c) > 0, ~Exceeds(c)
  PROVE  used + Delta(c) <= Limit
<1>1. Signed(used) = used
  BY LimitBelow DEF Signed
<1>2. used + Delta(c) <= Signed(Quota) /\ Signed(Quota) \in Int
  BY <1>1, ScratchAssumption DEF Exceeds, Signed
<1>3. CASE Quota < Half
  BY <1>2, <1>3 DEF Signed, Limit
<1>4. CASE ~(Quota < Half)
  <2>1. Signed(Quota) < 0
    BY <1>4, ScratchAssumption DEF Signed
  <2> QED
    BY <1>2, <2>1
<1> QED
  BY <1>3, <1>4

-----------------------------------------------------------------------------
(* A call that does not hold the Mutex before or after changes nothing that
   the invariant counts. *)
LEMMA OutsideStep ==
  ASSUME ScratchInv, NEW c \in Caller, UNCHANGED <<files, used, lock>>,
         \A d \in Caller : d # c => pc'[d] = pc[d] /\ arg'[d] = arg[d],
         pc[c] \notin Inside, pc'[c] \notin Inside,
         pc'[c] # "idle" => arg'[c].path \in Path,
         TypeOK'
  PROVE  ScratchInv'
<1>1. LockInv'
  BY DEF ScratchInv, LockInv
<1>2. Stored' = Stored /\ Held' = Held /\ \A p : Size(p)' = Size(p)
  BY DEF Stored, Held, Size
<1>3. \A d \in Caller : d # c => Delta(d)' = Delta(d) /\ (Exceeds(d)' <=> Exceeds(d))
  BY <1>2 DEF Delta, Exceeds, Signed
<1>4. ChargeInv'
  BY <1>2, <1>3 DEF ScratchInv, ChargeInv, Inside
<1> QED
  BY <1>1, <1>2, <1>4 DEF ScratchInv

(* The holder of the Mutex is alone inside. *)
LEMMA AloneInside ==
  ASSUME ScratchInv, NEW c \in Caller, pc[c] \in Inside
  PROVE  /\ lock = c /\ lock # None /\ arg[c].path \in Path
         /\ \A d \in Caller : d # c => pc[d] \notin Inside
BY ScratchAssumption DEF ScratchInv, LockInv, Inside

(* Types of what a caller works with. *)
LEMMA DeltaTyped ==
  ASSUME ScratchInv, NEW c \in Caller, arg[c].path \in Path
  PROVE  /\ Size(arg[c].path) \in Nat /\ Size(arg[c].path) <= Held /\ Held \in Nat
         /\ arg[c].len \in 0..MaxLen /\ arg[c].len \in Nat /\ used \in Nat
         /\ Delta(c) = arg[c].len - Size(arg[c].path) /\ Delta(c) \in Int
<1> DEFINE p == arg[c].path
<1>1. files \in Map /\ IsFiniteSet(StoredIn(files)) /\ None \in (0..MaxLen) \cup {None}
  BY OfFiles DEF ScratchInv, TypeOK, Map
<1>2. /\ Length(files[p]) \in 0..MaxLen /\ Length(files[p]) <= Cardinality(StoredIn(files))
      /\ Cardinality(StoredIn(files)) \in Nat
  BY <1>1, FileChange
<1>3. arg[c].len \in 0..MaxLen /\ MaxLen \in Nat /\ used \in Nat
  BY ScratchAssumption DEF ScratchInv, TypeOK
<1>4. Size(p) \in Nat /\ Size(p) <= Held /\ Held \in Nat
  BY <1>2, <1>3, OfFiles
<1>5. Delta(c) = arg[c].len - Size(p)
  BY DEF Delta
<1> QED
  BY <1>3, <1>4, <1>5

(* The Mutex is taken by a write that passed the check. *)
LEMMA LockStep ==
  ASSUME ScratchInv, NEW c \in Caller, WriteLock(c), lock' = c, TypeOK'
  PROVE  ScratchInv'
<1>1. /\ pc[c] = "lock" /\ lock = None /\ UNCHANGED <<files, used, arg>> /\ ~Exceeds(c)
      /\ pc' = [pc EXCEPT ![c] = "account"]
  BY ScratchAssumption DEF WriteLock
<1>2. pc'[c] = "account" /\ \A d \in Caller : d # c => pc'[d] = pc[d] /\ pc[d] \notin Inside
  BY <1>1, ScratchAssumption DEF ScratchInv, TypeOK, LockInv
<1>3. LockInv'
  BY <1>1, <1>2 DEF ScratchInv, LockInv, Inside
<1>4. Stored' = Stored /\ Held' = Held /\ \A p : Size(p)' = Size(p)
  BY <1>1 DEF Stored, Held, Size
<1>5. Exceeds(c)' <=> Exceeds(c)
  BY <1>1, <1>4 DEF Exceeds, Delta, Signed
<1>6. used = Held
  BY <1>1 DEF ScratchInv, ChargeInv
<1>7. ChargeInv'
  BY <1>1, <1>2, <1>4, <1>5, <1>6, ScratchAssumption DEF ChargeInv, Inside
<1> QED
  BY <1>1, <1>3, <1>4, <1>7 DEF ScratchInv

(* The counter moves by the difference without wrapping. *)
LEMMA AccountStep ==
  ASSUME ScratchInv, NEW c \in Caller, WriteAccount(c), TypeOK'
  PROVE  ScratchInv'
<1>1. /\ pc[c] = "account" /\ UNCHANGED <<files, lock, arg>>
      /\ used' = Wrapped(used + Delta(c)) /\ pc' = [pc EXCEPT ![c] = "insert"]
  BY DEF WriteAccount
<1>2. /\ pc[c] \in Inside /\ pc'[c] = "insert" /\ \A d \in Caller : d # c => pc'[d] = pc[d]
  BY <1>1 DEF ScratchInv, TypeOK, Inside
<1>3. /\ lock = c /\ lock # None /\ arg[c].path \in Path
      /\ \A d \in Caller : d # c => pc[d] \notin Inside
  BY <1>2, AloneInside
<1>4. /\ Size(arg[c].path) \in Nat /\ Size(arg[c].path) <= Held /\ Held \in Nat
      /\ arg[c].len \in Nat /\ used \in Nat
      /\ Delta(c) = arg[c].len - Size(arg[c].path) /\ Delta(c) \in Int
  BY <1>3, DeltaTyped
<1>5. used = Held /\ ~Exceeds(c) /\ used <= Limit /\ Held <= Limit
  BY <1>1 DEF ScratchInv, ChargeInv
<1>6. used + Delta(c) >= 0 /\ used + Delta(c) <= Limit
  <2>1. CASE Delta(c) > 0
    BY <1>4, <1>5, <2>1, PassedFits
  <2>2. CASE ~(Delta(c) > 0)
    BY <1>4, <1>5, <2>2, LimitBelow
  <2> QED
    BY <2>1, <2>2
<1>7. used' = used + Delta(c)
  <2>1. used + Delta(c) \in 0..(2 * Half - 1)
    BY <1>4, <1>6, LimitBelow
  <2> QED
    BY <1>1, <2>1, NoWrap
<1>8. Stored' = Stored /\ Held' = Held /\ Delta(c)' = Delta(c)
  BY <1>1 DEF Stored, Held, Size, Delta
<1>9. ChargeInv'
  BY <1>1, <1>2, <1>3, <1>5, <1>7, <1>8 DEF ChargeInv, Inside
<1>10. LockInv'
  BY <1>1, <1>2, <1>3 DEF ScratchInv, LockInv, Inside
<1> QED
  BY <1>5, <1>6, <1>7, <1>8, <1>9, <1>10 DEF ScratchInv

(* The file follows the counter. *)
LEMMA InsertStep ==
  ASSUME ScratchInv, NEW c \in Caller, WriteInsert(c), TypeOK'
  PROVE  ScratchInv'
<1> DEFINE p == arg[c].path
           n == arg[c].len
<1>1. /\ pc[c] = "insert" /\ files' = [files EXCEPT ![p] = n] /\ lock' = None
      /\ UNCHANGED used /\ pc' = [pc EXCEPT ![c] = "idle"] /\ arg' = [arg EXCEPT ![c] = NoArg]
  BY DEF WriteInsert, Return
<1>2. /\ pc[c] \in Inside /\ pc'[c] = "idle"
      /\ \A d \in Caller : d # c => pc'[d] = pc[d] /\ arg'[d] = arg[d]
  BY <1>1 DEF ScratchInv, TypeOK, Inside
<1>3. /\ lock = c /\ p \in Path /\ \A d \in Caller : d # c => pc[d] \notin Inside
  BY <1>2, AloneInside
<1>4. /\ n \in 0..MaxLen /\ n \in Nat /\ Delta(c) = n - Size(p) /\ Size(p) \in Nat /\ Held \in Nat
  BY <1>3, DeltaTyped
<1>5. files \in Map /\ IsFiniteSet(StoredIn(files))
  BY OfFiles DEF ScratchInv, TypeOK, Map
<1>6. Length(n) = n
  BY <1>4, ScratchAssumption DEF Length
<1>7. /\ IsFiniteSet(StoredIn(files'))
      /\ Cardinality(StoredIn(files')) = Cardinality(StoredIn(files)) - Length(files[p]) + Length(n)
  BY <1>1, <1>3, <1>4, <1>5, FileChange
<1>8. Stored' = StoredIn(files') /\ Held' = Cardinality(StoredIn(files'))
  BY DEF Stored, Held, StoredIn, Size, Length
<1> HIDE DEF p, n
<1>9. Held' = used /\ IsFiniteSet(Stored')
  <2>1. Held' = Held - Size(p) + n
    BY <1>6, <1>7, <1>8, OfFiles
  <2>2. used = Held + Delta(c)
    BY <1>1 DEF ScratchInv, ChargeInv
  <2> QED
    BY <1>4, <1>7, <1>8, <2>1, <2>2
<1>10. ChargeInv'
  BY <1>1, <1>2, <1>3, <1>9 DEF ChargeInv, Inside
<1>11. LockInv'
  BY <1>1, <1>2, <1>3, ScratchAssumption DEF ScratchInv, LockInv, Inside
<1> QED
  BY <1>1, <1>9, <1>10, <1>11 DEF ScratchInv

(* A removal takes the file first. *)
LEMMA RemoveStep ==
  ASSUME ScratchInv, NEW c \in Caller, NEW p \in Path, Remove(c, p), TypeOK'
  PROVE  ScratchInv'
<1> DEFINE n == files[p]
<1>1. /\ pc[c] = "idle" /\ lock = None /\ n # None /\ lock' = c /\ UNCHANGED used
      /\ files' = [files EXCEPT ![p] = None] /\ pc' = [pc EXCEPT ![c] = "refund"]
      /\ arg' = [arg EXCEPT ![c] = [path |-> p, len |-> n]]
  BY DEF Remove
<1>2. /\ pc'[c] = "refund" /\ arg'[c].path = p /\ arg'[c].len = n
      /\ \A d \in Caller : d # c => pc'[d] = pc[d] /\ arg'[d] = arg[d]
  BY <1>1 DEF ScratchInv, TypeOK
<1>3. \A d \in Caller : pc[d] \notin Inside
  BY <1>1, ScratchAssumption DEF ScratchInv, LockInv
<1>4. files \in Map /\ IsFiniteSet(StoredIn(files)) /\ None \in (0..MaxLen) \cup {None}
  BY OfFiles DEF ScratchInv, TypeOK, Map
<1>5. Length(None) = 0 /\ Length(n) = n
  BY <1>1 DEF Length
<1>6. /\ IsFiniteSet(StoredIn(files'))
      /\ Cardinality(StoredIn(files)) \in Nat /\ Cardinality(StoredIn(files')) \in Nat
      /\ Length(n) \in 0..MaxLen
      /\ Cardinality(StoredIn(files')) = Cardinality(StoredIn(files)) - Length(n) + Length(None)
  BY <1>1, <1>4, FileChange
<1>7. Stored' = StoredIn(files') /\ Held' = Cardinality(StoredIn(files'))
  BY DEF Stored, Held, StoredIn, Size, Length
<1> HIDE DEF n
<1>8. /\ Held' \in Nat /\ Held \in Nat /\ n \in Nat /\ Held' = Held - n /\ IsFiniteSet(Stored')
  BY <1>5, <1>6, <1>7, ScratchAssumption, OfFiles
<1>9. used = Held /\ Held <= Limit
  BY <1>1 DEF ScratchInv, ChargeInv
<1>10. used' = Held' + n /\ Held' <= Limit /\ used' <= Limit
  BY <1>1, <1>8, <1>9, LimitBelow
<1>11. ChargeInv'
  BY <1>1, <1>2, <1>3, <1>10, ScratchAssumption DEF ChargeInv, Inside
<1>12. LockInv'
  BY <1>1, <1>2, <1>3 DEF ScratchInv, LockInv, Inside
<1> QED
  BY <1>8, <1>10, <1>11, <1>12 DEF ScratchInv

(* The counter follows the removed file, without going below zero. *)
LEMMA RefundStep ==
  ASSUME ScratchInv, NEW c \in Caller, RemoveRefund(c), TypeOK'
  PROVE  ScratchInv'
<1>1. /\ pc[c] = "refund" /\ UNCHANGED files /\ lock' = None
      /\ used' = Wrapped(used - arg[c].len)
      /\ pc' = [pc EXCEPT ![c] = "idle"] /\ arg' = [arg EXCEPT ![c] = NoArg]
  BY DEF RemoveRefund, Return
<1>2. /\ pc[c] \in Inside /\ pc'[c] = "idle"
      /\ \A d \in Caller : d # c => pc'[d] = pc[d] /\ arg'[d] = arg[d]
  BY <1>1 DEF ScratchInv, TypeOK, Inside
<1>3. /\ lock = c /\ arg[c].path \in Path /\ \A d \in Caller : d # c => pc[d] \notin Inside
  BY <1>2, AloneInside
<1>4. arg[c].len \in Nat /\ Held \in Nat /\ used \in Nat
  BY <1>3, DeltaTyped
<1>5. used = Held + arg[c].len /\ Held <= Limit
  BY <1>1 DEF ScratchInv, ChargeInv
<1>6. used' = Held
  <2>1. used - arg[c].len = Held /\ Held \in 0..(2 * Half - 1)
    BY <1>4, <1>5, LimitBelow
  <2> QED
    BY <1>1, <2>1, NoWrap
<1>7. Stored' = Stored /\ Held' = Held
  BY <1>1 DEF Stored, Held, Size
<1>8. ChargeInv'
  BY <1>2, <1>3, <1>6, <1>7 DEF ChargeInv, Inside
<1>9. LockInv'
  BY <1>1, <1>2, <1>3, ScratchAssumption DEF ScratchInv, LockInv, Inside
<1> QED
  BY <1>5, <1>6, <1>7, <1>8, <1>9 DEF ScratchInv

(* Every action keeps the variables in their types. *)
LEMMA TypeStep ==
  ASSUME ScratchInv, [Next]_vars
  PROVE  TypeOK'
<1> USE DEF TypeOK
<1>0. TypeOK /\ NoArg \in [path : Path \cup {None}, len : 0..MaxLen] /\ MaxLen \in Nat
  BY ScratchAssumption DEF ScratchInv, NoArg
<1>wrap. \A n \in Int : Wrapped(n) \in 0..(2 * Half - 1)
  BY ScratchAssumption DEF Wrapped
<1>ret. ASSUME NEW c \in Caller, NEW r \in {None, "ok", "quota-exceeded", "invalid-path"},
               Return(c, r)
        PROVE  /\ pc' \in [Caller -> {"idle", "lock", "account", "insert", "refund"}]
               /\ arg' \in [Caller -> [path : Path \cup {None}, len : 0..MaxLen]]
               /\ reply' \in [Caller -> {None, "ok", "quota-exceeded", "invalid-path"}]
  <2>1. arg' \in [Caller -> [path : Path \cup {None}, len : 0..MaxLen]]
    BY <1>0, <1>ret DEF Return
  <2> QED
    BY <1>0, <1>ret, <2>1 DEF Return
<1>refused. ReplyTo("LimitExceeded") = "quota-exceeded"
  BY DEF ReplyTo
<1>1. ASSUME NEW c \in Caller, NEW p \in BadPath, WriteBadPath(c, p) PROVE TypeOK'
  BY <1>0, <1>1, <1>refused DEF WriteBadPath
<1>2. ASSUME NEW c \in Caller, NEW p \in Path, NEW n \in 0..MaxLen, Write(c, p, n) PROVE TypeOK'
  <2>1. [path |-> p, len |-> n] \in [path : Path \cup {None}, len : 0..MaxLen]
    OBVIOUS
  <2> QED
    BY <1>0, <1>2, <2>1 DEF Write
<1>3. ASSUME NEW c \in Caller, WriteLock(c) PROVE TypeOK'
  <2>1. CASE Return(c, ReplyTo("LimitExceeded")) /\ UNCHANGED lock
    BY <1>0, <1>3, <1>ret, <1>refused, <2>1 DEF WriteLock
  <2>2. CASE lock' = c /\ pc' = [pc EXCEPT ![c] = "account"] /\ UNCHANGED <<arg, reply>>
    BY <1>0, <1>3, <2>2 DEF WriteLock
  <2> QED
    BY <1>3, <2>1, <2>2 DEF WriteLock
<1>4. ASSUME NEW c \in Caller, WriteAccount(c) PROVE TypeOK'
  <2>1. pc[c] \in Inside
    BY <1>4 DEF WriteAccount, Inside
  <2>2. used + Delta(c) \in Int
    BY <2>1, AloneInside, DeltaTyped
  <2>3. used' \in 0..(2 * Half - 1)
    BY <1>4, <1>wrap, <2>2 DEF WriteAccount
  <2> QED
    BY <1>0, <1>4, <2>3 DEF WriteAccount
<1>5. ASSUME NEW c \in Caller, WriteInsert(c) PROVE TypeOK'
  <2>1. files' \in [Path -> (0..MaxLen) \cup {None}]
    BY <1>0, <1>5 DEF WriteInsert
  <2> QED
    BY <1>0, <1>5, <1>ret, <2>1 DEF WriteInsert
<1>6. ASSUME NEW c \in Caller, NEW p \in Path, Remove(c, p) PROVE TypeOK'
  <2>1. files[p] \in 0..MaxLen
    BY <1>0, <1>6 DEF Remove
  <2>2. [path |-> p, len |-> files[p]] \in [path : Path \cup {None}, len : 0..MaxLen]
    BY <2>1
  <2>3. arg' \in [Caller -> [path : Path \cup {None}, len : 0..MaxLen]]
    BY <1>0, <1>6, <2>2 DEF Remove
  <2> QED
    BY <1>0, <1>6, <2>3 DEF Remove
<1>7. ASSUME NEW c \in Caller, RemoveRefund(c) PROVE TypeOK'
  <2>1. used - arg[c].len \in Int
    BY <1>0, ScratchAssumption
  <2>2. used' \in 0..(2 * Half - 1)
    BY <1>7, <1>wrap, <2>1 DEF RemoveRefund
  <2> QED
    BY <1>0, <1>7, <1>ret, <2>2 DEF RemoveRefund
<1>8. CASE UNCHANGED vars
  BY <1>0, <1>8 DEF vars
<1> QED
  BY <1>1, <1>2, <1>3, <1>4, <1>5, <1>6, <1>7, <1>8 DEF Next

(* ScratchInv is inductive. *)
LEMMA ScratchStep ==
  ASSUME ScratchInv, [Next]_vars
  PROVE  ScratchInv'
<1>type. TypeOK'
  BY TypeStep
<1>1. ASSUME NEW c \in Caller, NEW p \in BadPath, WriteBadPath(c, p) PROVE ScratchInv'
  <2>1. UNCHANGED <<files, used, lock, pc, arg>> /\ pc[c] = "idle"
    BY <1>1 DEF WriteBadPath
  <2> QED
    BY <1>type, <2>1, OutsideStep DEF Inside
<1>2. ASSUME NEW c \in Caller, NEW p \in Path, NEW n \in 0..MaxLen, Write(c, p, n)
      PROVE  ScratchInv'
  <2>1. UNCHANGED <<files, used, lock>> /\ pc[c] = "idle"
    BY <1>2 DEF Write
  <2>2. /\ pc'[c] = "lock" /\ arg'[c].path = p
        /\ \A d \in Caller : d # c => pc'[d] = pc[d] /\ arg'[d] = arg[d]
    BY <1>2 DEF Write, ScratchInv, TypeOK
  <2> QED
    BY <1>type, <2>1, <2>2, OutsideStep DEF Inside
<1>3. ASSUME NEW c \in Caller, WriteLock(c) PROVE ScratchInv'
  <2>1. CASE lock' = c
    BY <1>3, <1>type, <2>1, LockStep
  <2>2. CASE Return(c, ReplyTo("LimitExceeded")) /\ UNCHANGED lock
    <3>1. UNCHANGED <<files, used, lock>> /\ pc[c] = "lock"
      BY <1>3, <2>2 DEF WriteLock
    <3>2. /\ pc'[c] = "idle"
          /\ \A d \in Caller : d # c => pc'[d] = pc[d] /\ arg'[d] = arg[d]
      BY <2>2 DEF Return, ScratchInv, TypeOK
    <3> QED
      BY <1>type, <3>1, <3>2, OutsideStep DEF Inside
  <2> QED
    BY <1>3, <2>1, <2>2 DEF WriteLock
<1>4. CASE UNCHANGED vars
  <2>1. UNCHANGED <<files, used, lock, pc, arg>>
    BY <1>4 DEF vars
  <2>2. Stored' = Stored /\ Held' = Held
    BY <2>1 DEF Stored, Held, Size
  <2>3. LockInv'
    BY <2>1 DEF ScratchInv, LockInv
  <2>4. \A c \in Caller : Delta(c)' = Delta(c) /\ (Exceeds(c)' <=> Exceeds(c))
    BY <2>1 DEF Delta, Exceeds, Signed, Size
  <2>5. ChargeInv'
    BY <2>1, <2>2, <2>4 DEF ScratchInv, ChargeInv
  <2> QED
    BY <1>type, <2>1, <2>2, <2>3, <2>5 DEF ScratchInv
<1> QED
  BY <1>type, <1>1, <1>2, <1>3, <1>4, AccountStep, InsertStep, RemoveStep, RefundStep DEF Next

(* An empty file system satisfies it. *)
LEMMA ScratchInit == Init => ScratchInv
<1> SUFFICES ASSUME Init PROVE ScratchInv
  OBVIOUS
<1>1. \A p \in Path : Size(p) = 0
  BY DEF Init, Size
<1>2. Stored = {}
  BY <1>1 DEF Stored
<1>3. IsFiniteSet(Stored) /\ Held = 0
  BY <1>2, FS_EmptySet DEF Held
<1>4. NoArg \in [path : Path \cup {None}, len : 0..MaxLen]
  BY ScratchAssumption DEF NoArg
<1>5. TypeOK
  BY <1>4, ScratchAssumption DEF Init, TypeOK
<1>6. LockInv
  BY ScratchAssumption DEF Init, LockInv, Inside
<1>7. ChargeInv
  BY <1>3 DEF Init, ChargeInv
<1> QED
  BY <1>3, <1>5, <1>6, <1>7, LimitBelow DEF Init, ScratchInv

(* The invariant the theorems below follow from. *)
LEMMA ScratchInvariant == Spec => []ScratchInv
<1>1. ScratchInv /\ [Next]_vars => ScratchInv'
  BY ScratchStep
<1> QED
  BY ScratchInit, <1>1, PTL DEF Spec

-----------------------------------------------------------------------------
(* Type correctness: the counter stays a u64, no length is lost. *)
THEOREM ScratchTypeCorrect == Spec => []TypeOK
<1>1. ScratchInv => TypeOK
  BY DEF ScratchInv
<1> QED
  BY <1>1, ScratchInvariant, PTL

(* QuotaHeld: neither the bytes held nor what scratch-bytes reads in the
   middle of a write or removal exceeds the quota (MemFs::write, remove). *)
THEOREM ScratchQuotaHeld == Spec => []QuotaHeld
<1>1. ScratchInv => QuotaHeld
  <2> SUFFICES ASSUME ScratchInv PROVE QuotaHeld
    OBVIOUS
  <2>1. Held \in Nat
    BY FS_CardinalityType DEF ScratchInv, Held
  <2>2. used \in Nat /\ Quota \in Nat
    BY ScratchAssumption DEF ScratchInv, TypeOK
  <2> QED
    BY <2>1, <2>2, LimitBelow DEF ScratchInv, QuotaHeld
<1> QED
  BY <1>1, ScratchInvariant, PTL

(* AccountingExact: outside the Mutex the counter is the bytes held. *)
THEOREM ScratchAccountingExact == Spec => []AccountingExact
<1>1. ScratchInv => AccountingExact
  BY DEF ScratchInv, ChargeInv, AccountingExact
<1> QED
  BY <1>1, ScratchInvariant, PTL
=============================================================================
