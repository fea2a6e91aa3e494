-------------------------- MODULE ContentStoreProofs --------------------------
(***************************************************************************)
(* The content store never exposes a partial or foreign blob, and keeps    *)
(* the blobs it has, for any number of callers, digests, inodes and        *)
(* chunks, provided that concurrent callers have temporary names of their  *)
(* own.                                                                    *)
(***************************************************************************)
EXTENDS ContentStore, TLAPS

(* The steps of put, kills and power losses keep the variables in their
   types; a caller that writes still has a chunk to write. *)
LEMMA TypeStep ==
  ASSUME TypeOK, InsidePut, [Next]_vars
  PROVE  TypeOK' /\ InsidePut'
<1> USE StoreAssumption DEF TypeOK, InsidePut
<1>1. ASSUME NEW c \in Caller, NEW d \in Digest, Put(c, d)
      PROVE  TypeOK' /\ InsidePut'
  BY <1>1 DEF Put
<1>2. ASSUME NEW c \in Caller, Create(c)
      PROVE  TypeOK' /\ InsidePut'
  <2>1. PICK i \in CreateTarget(c) :
          /\ tmp' = [tmp EXCEPT ![TmpOf[c]] = i]
          /\ content' = [content EXCEPT ![i] = Blank]
          /\ synced' = synced \ {i}
          /\ fd' = [fd EXCEPT ![c] = i]
    BY <1>2 DEF Create
  <2>2. i \in Inode
    BY DEF CreateTarget, Free
  <2>3. Blank \in [1..Chunks -> Digest \cup {None}]
    BY DEF Blank
  <2> QED
    BY <1>2, <2>1, <2>2, <2>3 DEF Create
<1>3. ASSUME NEW c \in Caller, Write(c)
      PROVE  TypeOK' /\ InsidePut'
  <2> pc[c] = "write"
    BY <1>3 DEF Write
  <2>a. fd[c] \in Inode /\ blob[c] \in Digest
    OBVIOUS
  <2>b. off[c] \in 0..Chunks /\ off[c] < Chunks
    OBVIOUS
  <2>1. fd[c] \in Inode /\ blob[c] \in Digest /\ off[c] + 1 \in 1..Chunks
    BY <2>a, <2>b
  <2>2. [content[fd[c]] EXCEPT ![off[c] + 1] = blob[c]]
          \in [1..Chunks -> Digest \cup {None}]
    BY <2>1
  <2>3. content' \in [Inode -> [1..Chunks -> Digest \cup {None}]]
    BY <1>3, <2>1, <2>2 DEF Write
  <2> QED
    BY <1>3, <2>1, <2>3 DEF Write
<1>4. ASSUME NEW c \in Caller, SyncAll(c)
      PROVE  TypeOK' /\ InsidePut'
  BY <1>4 DEF SyncAll
<1>5. ASSUME NEW c \in Caller, Rename(c)
      PROVE  TypeOK' /\ InsidePut'
  <2>1. blob[c] \in Digest
    BY <1>5 DEF Rename
  <2>2. path' \in [Digest -> Inode \cup {None}]
    BY <1>5 DEF Rename
  <2>3. tmp' \in [TmpName -> Inode \cup {None}]
    BY <1>5 DEF Rename
  <2> QED
    BY <1>5, <2>2, <2>3 DEF Rename, Leave
<1>6. ASSUME NEW c \in Caller, PutError(c)
      PROVE  TypeOK' /\ InsidePut'
  BY <1>6 DEF PutError, Leave
<1>7. ASSUME NEW c \in Caller, Kill(c)
      PROVE  TypeOK' /\ InsidePut'
  BY <1>7 DEF Kill, Leave
<1>8. ASSUME NEW c \in Caller, Restart(c)
      PROVE  TypeOK' /\ InsidePut'
  BY <1>8 DEF Restart
<1>9. ASSUME PowerLoss
      PROVE  TypeOK' /\ InsidePut'
  <2>1. path' \in [Digest -> Inode \cup {None}]
    BY <1>9 DEF PowerLoss
  <2>2. tmp' \in [TmpName -> Inode \cup {None}]
    BY <1>9 DEF PowerLoss
  <2>3. content' \in [Inode -> [1..Chunks -> Digest \cup {None}]]
    BY <1>9 DEF PowerLoss
  <2> QED
    BY <1>9, <2>1, <2>2, <2>3 DEF PowerLoss
<1>10. ASSUME UNCHANGED vars
       PROVE  TypeOK' /\ InsidePut'
  BY <1>10 DEF vars
<1> QED
  BY <1>1, <1>2, <1>3, <1>4, <1>5, <1>6, <1>7, <1>8, <1>9, <1>10 DEF Next

(* Type correctness of the store, whether or not callers share temporary
   names. *)
THEOREM StoreTypeCorrect == Spec => []TypeOK
<1>1. Init => TypeOK /\ InsidePut
  BY StoreAssumption DEF Init, TypeOK, InsidePut, Blank
<1>2. (TypeOK /\ InsidePut) /\ [Next]_vars => (TypeOK /\ InsidePut)'
  BY TypeStep
<1> QED
  BY <1>1, <1>2, PTL DEF Spec

-----------------------------------------------------------------------------
\* StoreInv without its typing part.
Sharing == OwnsFile /\ WrittenSoFar /\ ReadyToRename /\ TmpPrivate /\ StoreIntegrity

(* Opening the temporary file disturbs no other caller's file and no
   published blob, whether the file is new or a leftover. *)
LEMMA CreateStep ==
  ASSUME DistinctTmp, StoreInv, NEW c \in Caller, Create(c), TypeOK'
  PROVE  Sharing'
<1> USE StoreAssumption DEF StoreInv, TypeOK
<1>1. PICK i \in CreateTarget(c) :
        /\ tmp' = [tmp EXCEPT ![TmpOf[c]] = i]
        /\ content' = [content EXCEPT ![i] = Blank]
        /\ synced' = synced \ {i}
        /\ fd' = [fd EXCEPT ![c] = i]
  BY DEF Create
<1>2. i \in Inode
  BY DEF CreateTarget, Free
<1>3. \A d \in Digest : path[d] # i
  BY DEF CreateTarget, Free, TmpPrivate
<1>4. \A n \in TmpName : n # TmpOf[c] => tmp[n] # i
  BY DEF CreateTarget, Free, TmpPrivate
<1>5. \A b \in Caller : b # c => TmpOf[b] # TmpOf[c] /\ TmpOf[b] \in TmpName
  BY DEF DistinctTmp
<1>6. \A b \in Caller : b # c => /\ pc'[b] = pc[b] /\ fd'[b] = fd[b]
                               /\ off'[b] = off[b] /\ blob'[b] = blob[b]
                               /\ tmp'[TmpOf[b]] = tmp[TmpOf[b]]
                               /\ tmp[TmpOf[b]] # i
  BY <1>1, <1>4, <1>5 DEF Create
<1>7. pc'[c] = "write" /\ fd'[c] = i /\ tmp'[TmpOf[c]] = i /\ off'[c] = 0
  BY <1>1 DEF Create
<1>8. \A j \in Inode : j # i => content'[j] = content[j] /\ (j \in synced => j \in synced')
  BY <1>1
<1>9. OwnsFile'
  BY <1>6, <1>7 DEF OwnsFile
<1>10. WrittenSoFar'
  <2> SUFFICES ASSUME NEW b \in Caller
               PROVE  /\ pc'[b] = "write" =>
                           \A k \in 1..off'[b] : content'[fd'[b]][k] = blob'[b]
                      /\ pc'[b] = "sync" => content'[fd'[b]] = Whole[blob'[b]]
    BY DEF WrittenSoFar
  <2>1. CASE b = c
    BY <1>7, <2>1
  <2>2. CASE b # c
    BY <1>6, <1>8, <2>2 DEF WrittenSoFar, OwnsFile, InsidePut
  <2> QED
    BY <2>1, <2>2
<1>11. ReadyToRename'
  <2> SUFFICES ASSUME NEW b \in Caller, pc'[b] = "rename"
               PROVE  tmp'[TmpOf[b]] \in synced'
                      /\ content'[tmp'[TmpOf[b]]] = Whole[blob'[b]]
    BY DEF ReadyToRename
  <2>1. b # c
    BY <1>7
  <2> QED
    BY <1>6, <1>8, <2>1 DEF ReadyToRename
<1>12. TmpPrivate'
  BY <1>1, <1>3, <1>4 DEF TmpPrivate, Create
<1>13. StoreIntegrity'
  BY <1>1, <1>3, <1>8 DEF StoreIntegrity, Create
<1> QED
  BY <1>9, <1>10, <1>11, <1>12, <1>13 DEF Sharing

(* Writing a chunk changes the caller's own file and nothing published. *)
LEMMA WriteStep ==
  ASSUME DistinctTmp, StoreInv, NEW c \in Caller, Write(c), TypeOK'
  PROVE  Sharing'
<1> USE StoreAssumption DEF StoreInv, TypeOK
<1> DEFINE i == fd[c]
<1>1. pc[c] = "write" /\ i \in Inode /\ i = tmp[TmpOf[c]] /\ i # None
  BY DEF Write, InsidePut, OwnsFile
<1>2. off[c] \in 0..Chunks /\ off[c] < Chunks /\ blob[c] \in Digest
  BY <1>1 DEF InsidePut
<1>3. \A b \in Caller : b # c => TmpOf[b] # TmpOf[c] /\ tmp[TmpOf[b]] # i
  BY <1>1 DEF DistinctTmp, TmpPrivate
<1>4. \A b \in Caller : b # c => pc'[b] = pc[b] /\ off'[b] = off[b]
  BY DEF Write
<1>5. \A j \in Inode : j # i => content'[j] = content[j] /\ (j \in synced => j \in synced')
  BY DEF Write
<1>6. content'[i] = [content[i] EXCEPT ![off[c] + 1] = blob[c]]
  BY <1>1 DEF Write
<1>7. UNCHANGED <<path, tmp, blob, fd>> /\ off'[c] = off[c] + 1
      /\ pc'[c] = IF off[c] + 1 = Chunks THEN "sync" ELSE "write"
  BY DEF Write
<1>8. OwnsFile'
  BY <1>1, <1>4, <1>7 DEF OwnsFile
<1>9. \A k \in 1..(off[c] + 1) : content'[i][k] = blob[c]
  <2>1. \A k \in 1..off[c] : content[i][k] = blob[c]
    BY <1>1 DEF WrittenSoFar
  <2>2. content[i] \in [1..Chunks -> Digest \cup {None}]
    BY <1>1
  <2> QED
    BY <1>2, <1>6, <2>1, <2>2
<1>10. off[c] + 1 = Chunks => content'[i] = Whole[blob[c]]
  <2>1. content'[i] \in [1..Chunks -> Digest \cup {None}]
    BY <1>1
  <2> QED
    BY <1>2, <1>9, <2>1 DEF Whole
<1>11. WrittenSoFar'
  <2> SUFFICES ASSUME NEW b \in Caller
               PROVE  /\ pc'[b] = "write" =>
                           \A k \in 1..off'[b] : content'[fd'[b]][k] = blob'[b]
                      /\ pc'[b] = "sync" => content'[fd'[b]] = Whole[blob'[b]]
    BY DEF WrittenSoFar
  <2>1. CASE b = c
    BY <1>7, <1>9, <1>10, <2>1
  <2>2. CASE b # c
    BY <1>3, <1>4, <1>5, <1>7, <2>2 DEF WrittenSoFar, OwnsFile, InsidePut
  <2> QED
    BY <2>1, <2>2
<1>12. ReadyToRename'
  <2> SUFFICES ASSUME NEW b \in Caller, pc'[b] = "rename"
               PROVE  tmp'[TmpOf[b]] \in synced'
                      /\ content'[tmp'[TmpOf[b]]] = Whole[blob'[b]]
    BY DEF ReadyToRename
  <2>1. b # c
    BY <1>7
  <2> QED
    BY <1>3, <1>4, <1>5, <1>7, <2>1 DEF ReadyToRename
<1>13. TmpPrivate'
  BY <1>7 DEF TmpPrivate
<1>14. StoreIntegrity'
  <2>1. \A d \in Digest : path[d] # i
    BY <1>1 DEF TmpPrivate
  <2> QED
    BY <1>5, <1>7, <2>1 DEF StoreIntegrity
<1> QED
  BY <1>8, <1>11, <1>12, <1>13, <1>14 DEF Sharing

(* rename publishes a whole, fsynced file that then has no other name. *)
LEMMA RenameStep ==
  ASSUME DistinctTmp, StoreInv, NEW c \in Caller, Rename(c), TypeOK'
  PROVE  Sharing'
<1> USE StoreAssumption DEF StoreInv, TypeOK
<1> DEFINE i == tmp[TmpOf[c]]
<1>1. pc[c] = "rename" /\ i \in Inode /\ i \in synced
      /\ content[i] = Whole[blob[c]] /\ blob[c] \in Digest
  BY DEF Rename, ReadyToRename, InsidePut
<1>2. \A b \in Caller : b # c => TmpOf[b] # TmpOf[c]
  BY DEF DistinctTmp
<1>3. \A b \in Caller : b # c => /\ pc'[b] = pc[b] /\ fd'[b] = fd[b]
                               /\ off'[b] = off[b] /\ blob'[b] = blob[b]
                               /\ tmp'[TmpOf[b]] = tmp[TmpOf[b]]
  BY <1>2 DEF Rename, Leave
<1>4. pc'[c] = "idle" /\ UNCHANGED <<content, synced>>
  BY DEF Rename, Leave
<1>5. OwnsFile'
  BY <1>3, <1>4 DEF OwnsFile
<1>6. WrittenSoFar'
  <2> SUFFICES ASSUME NEW b \in Caller
               PROVE  /\ pc'[b] = "write" =>
                           \A k \in 1..off'[b] : content'[fd'[b]][k] = blob'[b]
                      /\ pc'[b] = "sync" => content'[fd'[b]] = Whole[blob'[b]]
    BY DEF WrittenSoFar
  <2>1. CASE b = c
    BY <1>4, <2>1
  <2>2. CASE b # c
    BY <1>3, <1>4, <2>2 DEF WrittenSoFar
  <2> QED
    BY <2>1, <2>2
<1>7. ReadyToRename'
  BY <1>3, <1>4 DEF ReadyToRename
<1>8. TmpPrivate'
  BY <1>1 DEF TmpPrivate, Rename
<1>9. StoreIntegrity'
  BY <1>1, <1>4 DEF StoreIntegrity, Rename
<1> QED
  BY <1>5, <1>6, <1>7, <1>8, <1>9 DEF Sharing

(* The other steps, a power loss among them, leave the files of callers that
   are still inside put, and every published blob, as they are. *)
LEMMA StoreStep ==
  ASSUME DistinctTmp, StoreInv, [Next]_vars
  PROVE  StoreInv'
<1>1. TypeOK' /\ InsidePut'
  BY TypeStep DEF StoreInv
<1>2. Sharing'
  <2> USE StoreAssumption DEF StoreInv, TypeOK
  <2>1. ASSUME NEW c \in Caller, NEW d \in Digest, Put(c, d) PROVE Sharing'
    BY <2>1 DEF Put, Sharing, OwnsFile, WrittenSoFar, ReadyToRename,
                TmpPrivate, StoreIntegrity
  <2>2. ASSUME NEW c \in Caller, Create(c) PROVE Sharing'
    BY <1>1, <2>2, CreateStep
  <2>3. ASSUME NEW c \in Caller, Write(c) PROVE Sharing'
    BY <1>1, <2>3, WriteStep
  <2>4. ASSUME NEW c \in Caller, SyncAll(c) PROVE Sharing'
    <3>1. fd[c] \in Inode /\ fd[c] = tmp[TmpOf[c]] /\ content[fd[c]] = Whole[blob[c]]
      BY <2>4 DEF SyncAll, InsidePut, OwnsFile, WrittenSoFar
    <3>2. OwnsFile' /\ WrittenSoFar' /\ TmpPrivate' /\ StoreIntegrity'
      BY <2>4 DEF SyncAll, OwnsFile, WrittenSoFar, TmpPrivate, StoreIntegrity
    <3>3. ReadyToRename'
      BY <2>4, <3>1 DEF SyncAll, ReadyToRename
    <3> QED
      BY <3>2, <3>3 DEF Sharing
  <2>5. ASSUME NEW c \in Caller, Rename(c) PROVE Sharing'
    BY <1>1, <2>5, RenameStep
  <2>6. ASSUME NEW c \in Caller, PutError(c) PROVE Sharing'
    BY <2>6 DEF PutError, Leave, Sharing, OwnsFile, WrittenSoFar,
                ReadyToRename, TmpPrivate, StoreIntegrity
  <2>7. ASSUME NEW c \in Caller, Kill(c) PROVE Sharing'
    BY <2>7 DEF Kill, Leave, Sharing, OwnsFile, WrittenSoFar,
                ReadyToRename, TmpPrivate, StoreIntegrity
  <2>8. ASSUME NEW c \in Caller, Restart(c) PROVE Sharing'
    BY <2>8 DEF Restart, Sharing, OwnsFile, WrittenSoFar,
                ReadyToRename, TmpPrivate, StoreIntegrity
  <2>9. ASSUME PowerLoss PROVE Sharing'
    <3>1. OwnsFile' /\ WrittenSoFar' /\ ReadyToRename'
      BY <2>9 DEF PowerLoss, OwnsFile, WrittenSoFar, ReadyToRename
    <3>2. \A d \in Digest : path'[d] = path[d] \/ path'[d] = None
      BY <2>9 DEF PowerLoss
    <3>3. \A d, e \in Digest : path[d] # None /\ path[d] = path[e] => d = e
      <4>1. 1 \in 1..Chunks
        BY StoreAssumption
      <4>2. \A d \in Digest : Whole[d][1] = d
        BY <4>1 DEF Whole
      <4>3. \A d \in Digest : path[d] # None => content[path[d]] = Whole[d]
        BY DEF StoreIntegrity
      <4>4. ASSUME NEW d \in Digest, NEW e \in Digest, path[d] # None, path[d] = path[e]
            PROVE  d = e
        <5>1. Whole[d] = Whole[e]
          BY <4>3, <4>4
        <5> QED
          BY <4>2, <5>1
      <4> QED
        BY <4>4
    <3>4. TmpPrivate'
      <4>1. PICK gone \in SUBSET Digest :
              /\ path' = [d \in Digest |-> IF d \in gone THEN None ELSE path[d]]
              /\ \A n \in TmpName :
                   /\ tmp'[n] \in {None, tmp[n]} \cup {path[d] : d \in gone}
                   /\ \A m \in TmpName : m # n /\ tmp'[n] # None => tmp'[m] # tmp'[n]
        BY <2>9 DEF PowerLoss
      <4>2. ASSUME NEW n \in TmpName, NEW e \in Digest, tmp'[n] # None, path'[e] # None
            PROVE  tmp'[n] # path'[e]
        <5>1. e \notin gone /\ path'[e] = path[e]
          BY <4>1, <4>2
        <5>2. CASE tmp'[n] = tmp[n]
          BY <4>2, <5>1, <5>2 DEF TmpPrivate
        <5>3. ASSUME NEW d \in gone, tmp'[n] = path[d] PROVE tmp'[n] # path'[e]
          BY <3>3, <4>2, <5>1, <5>3
        <5> QED
          BY <4>1, <4>2, <5>2, <5>3
      <4> QED
        BY <4>1, <4>2 DEF TmpPrivate
    <3>5. ASSUME NEW j \in synced PROVE content'[j] = content[j]
      <4>1. PICK lost \in SUBSET ((Inode \ (synced \cup Free)) \X (1..Chunks)) :
              content' = [i \in Inode |-> [k \in 1..Chunks |->
                            IF <<i, k>> \in lost THEN None ELSE content[i][k]]]
        BY <2>9 DEF PowerLoss
      <4>2. \A k \in 1..Chunks : <<j, k>> \notin lost
        OBVIOUS
      <4>3. content'[j] = [k \in 1..Chunks |-> content[j][k]]
        BY <4>1, <4>2
      <4> QED
        BY <4>3
    <3>6. synced' = Inode
      BY <2>9 DEF PowerLoss
    <3>7. StoreIntegrity'
      BY <3>2, <3>5, <3>6 DEF StoreIntegrity
    <3> QED
      BY <3>1, <3>4, <3>7 DEF Sharing
  <2>10. ASSUME UNCHANGED vars PROVE Sharing'
    BY <2>10 DEF vars, Sharing, OwnsFile, WrittenSoFar, ReadyToRename,
                 TmpPrivate, StoreIntegrity
  <2> QED
    BY <2>1, <2>2, <2>3, <2>4, <2>5, <2>6, <2>7, <2>8, <2>9, <2>10 DEF Next
<1> QED
  BY <1>1, <1>2 DEF StoreInv, Sharing

(* The invariant holds at first. *)
LEMMA StoreInit == Init => StoreInv
BY StoreAssumption DEF Init, StoreInv, TypeOK, InsidePut, OwnsFile,
     WrittenSoFar, ReadyToRename, TmpPrivate, StoreIntegrity, Blank

(* The store is safe against crashes and concurrent writers: a blob path holds
   the whole, fsynced blob of its digest, for any number of callers with
   temporary names of their own (src/registry/store.rs:47-67). *)
THEOREM StoreSafe == DistinctTmp /\ Spec => []StoreIntegrity
<1>1. Init => StoreInv
  BY StoreInit
<1>2. DistinctTmp /\ StoreInv /\ [Next]_vars => StoreInv'
  BY StoreStep
<1>3. StoreInv => StoreIntegrity
  BY DEF StoreInv
<1>4. CASE DistinctTmp
  <2>1. Spec => []StoreInv
    BY <1>1, <1>2, <1>4, PTL DEF Spec
  <2> QED
    BY <1>3, <2>1, PTL
<1>5. CASE ~DistinctTmp
  BY <1>5
<1> QED
  BY <1>4, <1>5

-----------------------------------------------------------------------------
Up == \E c \in Caller : pc[c] # "gone"

(* While paths hold whole blobs, what is stored is what has a path. *)
LEMMA StoredByPath ==
  ASSUME StoreIntegrity
  PROVE  Stored = {d \in Digest : path[d] # None}
BY DEF StoreIntegrity, Stored

(* A step that leaves the blob paths alone leaves what is stored alone: no
   caller truncates or writes a published file. *)
LEMMA SamePaths ==
  ASSUME StoreIntegrity, StoreIntegrity', UNCHANGED path
  PROVE  Stored' = Stored
BY DEF StoreIntegrity, Stored

(* Every step of the store is a step of BlobCache, or none. *)
LEMMA CacheStep ==
  ASSUME StoreInv, StoreInv', [Next]_vars
  PROVE  [Cache!BNext]_(Cache!bvars)
<1> USE DEF StoreInv, TypeOK
<1>same. ASSUME UNCHANGED path, Up' = Up PROVE UNCHANGED Cache!bvars
  BY <1>same, SamePaths DEF Cache!bvars, Up
<1>put. ASSUME NEW c \in Caller, UNCHANGED path, pc[c] # "gone",
               NEW s \in {"idle", "create", "write", "sync", "rename"},
               pc' = [pc EXCEPT ![c] = s]
        PROVE  UNCHANGED Cache!bvars
  <2>1. Up /\ Up'
    BY <1>put DEF Up
  <2> QED
    BY <1>put, <1>same, <2>1
<1>1. ASSUME NEW c \in Caller, NEW d \in Digest, Put(c, d)
      PROVE  UNCHANGED Cache!bvars
  BY <1>1, <1>put DEF Put
<1>2. ASSUME NEW c \in Caller, Create(c) PROVE UNCHANGED Cache!bvars
  BY <1>2, <1>put DEF Create
<1>3. ASSUME NEW c \in Caller, Write(c) PROVE UNCHANGED Cache!bvars
  <2>1. CASE off[c] + 1 = Chunks
    BY <1>3, <2>1, <1>put DEF Write
  <2>2. CASE off[c] + 1 # Chunks
    BY <1>3, <2>2, <1>put DEF Write
  <2> QED
    BY <2>1, <2>2
<1>4. ASSUME NEW c \in Caller, SyncAll(c) PROVE UNCHANGED Cache!bvars
  BY <1>4, <1>put DEF SyncAll
<1>5. ASSUME NEW c \in Caller, PutError(c) PROVE UNCHANGED Cache!bvars
  BY <1>5, <1>put DEF PutError, Leave
<1>6. ASSUME NEW c \in Caller, Rename(c) PROVE Cache!BNext
  <2>1. blob[c] \in Digest
    BY <1>6 DEF Rename, InsidePut
  <2>2. path' = [path EXCEPT ![blob[c]] = tmp[TmpOf[c]]] /\ tmp[TmpOf[c]] # None
    BY <1>6 DEF Rename
  <2>3. Stored' = Stored \cup {blob[c]}
    <3>1. Stored' = {d \in Digest : path'[d] # None}
      BY StoredByPath DEF StoreIntegrity, Stored
    <3> QED
      BY <2>1, <2>2, <3>1, StoredByPath
  <2>4. Up /\ Up'
    BY <1>6 DEF Rename, Leave, Up
  <2>5. Cache!Add(blob[c])
    BY <2>3, <2>4 DEF Cache!Add, Up
  <2> QED
    BY <2>1, <2>5 DEF Cache!BNext
<1>7. ASSUME NEW c \in Caller, Kill(c) PROVE Cache!BNext \/ UNCHANGED Cache!bvars
  <2>1. UNCHANGED path /\ Up
    BY <1>7 DEF Kill, Up
  <2>2. CASE Up'
    BY <2>1, <2>2, <1>same
  <2>3. CASE ~Up'
    <3>1. Stored' \in SUBSET Stored
      BY <2>1, SamePaths
    <3>2. Cache!GoDown
      BY <2>3, <3>1 DEF Cache!GoDown, Up
    <3> QED
      BY <3>2 DEF Cache!BNext
  <2> QED
    BY <2>2, <2>3
<1>8. ASSUME NEW c \in Caller, Restart(c) PROVE Cache!BNext
  <2>1. Stored' = Stored /\ Up'
    BY <1>8, SamePaths DEF Restart, Up
  <2>2. Cache!ComeUp
    BY <2>1 DEF Cache!ComeUp, Up
  <2> QED
    BY <2>2 DEF Cache!BNext
<1>9. ASSUME PowerLoss PROVE Cache!BNext
  <2>1. PICK gone \in SUBSET Digest :
          path' = [d \in Digest |-> IF d \in gone THEN None ELSE path[d]]
    BY <1>9 DEF PowerLoss
  <2>2. Stored' \in SUBSET Stored
    BY <2>1 DEF StoreIntegrity, Stored
  <2>3. ~Up'
    BY <1>9 DEF PowerLoss, Up
  <2>4. Cache!GoDown
    BY <2>2, <2>3 DEF Cache!GoDown, Up
  <2> QED
    BY <2>4 DEF Cache!BNext
<1>10. ASSUME UNCHANGED vars PROVE UNCHANGED Cache!bvars
  BY <1>10, <1>same DEF vars, Up
<1> QED
  BY <1>1, <1>2, <1>3, <1>4, <1>5, <1>6, <1>7, <1>8, <1>9, <1>10 DEF Next

(* For any number of callers with temporary names of their own, the store
   implements BlobCache: a blob appears whole in one step and stays until the
   machine stops, so a contains that said yes holds for a later get
   (src/registry/oci.rs:123-133). *)
THEOREM StoreImplementsCache == DistinctTmp /\ Spec => ImplementsBlobCache
<1>1. Init => StoreInv
  BY StoreInit
<1>2. DistinctTmp /\ StoreInv /\ [Next]_vars => StoreInv'
  BY StoreStep
<1>3. Init => Cache!BInit
  BY DEF Init, Cache!BInit, Stored
<1>4. StoreInv /\ StoreInv' /\ [Next]_vars => [Cache!BNext]_(Cache!bvars)
  BY CacheStep
<1>5. CASE DistinctTmp
  BY <1>1, <1>2, <1>3, <1>4, <1>5, PTL DEF Spec, ImplementsBlobCache, Cache!BSpec
<1>6. CASE ~DistinctTmp
  BY <1>6
<1> QED
  BY <1>5, <1>6
=============================================================================
