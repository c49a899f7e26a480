---------------------------- MODULE KVStoreProofs ----------------------------
(***************************************************************************)
(* Proofs about KVStore, for every set of keys and values, every           *)
(* threshold and trigger, and every combination of crashes, shutdowns,     *)
(* checkpoints and I/O failures.                                           *)
(***************************************************************************)
EXTENDS KVStore, StoreLemmas, SequenceTheorems, TLAPS

------------------------------------------------------------------------------
(* Type correctness. *)

\* The variables are typed initially.
LEMMA InitTypeOK == Init => TypeOK
  BY StoreAssumption DEF Init, TypeOK, ClientStates, WorkerStates, NoTask, NoPath,
    Task, Path

\* The flush task that a write may queue.
FlushTask(k, v) ==
  [path |-> <<"flushed", next_sstable_id>>,
   entries |-> Range(Append(memtable, [key |-> k, ts |-> seq + 1, val |-> v]))]

\* A write's version, its MemTable and its flush task are typed.
LEMMA WriteTyped ==
  ASSUME TypeOK, NEW k \in Key, NEW v \in Value \cup {Tombstone}
  PROVE  /\ [key |-> k, ts |-> seq + 1, val |-> v] \in Version
         /\ Append(memtable, [key |-> k, ts |-> seq + 1, val |-> v]) \in Seq(Version)
         /\ FlushTask(k, v) \in Task
  <1> DEFINE version == [key |-> k, ts |-> seq + 1, val |-> v]
             mem == Append(memtable, version)
  <1>1. version \in Version
    BY DEF TypeOK, Version
  <1>2. mem \in Seq(Version)
    BY <1>1 DEF TypeOK
  <1>3. Range(mem) \in SUBSET Version
    BY <1>2, RangeOfSeq, Zenon
  <1>4. FlushTask(k, v) \in Task
    BY <1>3, Zenon DEF TypeOK, Task, Path, FlushTask
  <1>5. QED
    BY <1>1, <1>2, <1>4

\* Writing keeps types: the new version, and the task it may end up in.
LEMMA WriteTypeOK ==
  ASSUME TypeOK, NEW k \in Key, NEW v \in Value \cup {Tombstone},
         WriteVersion(k, v), map' \in [Key -> Value \cup {None}]
  PROVE  TypeOK'
  <1> DEFINE version == [key |-> k, ts |-> seq + 1, val |-> v]
             mem == Append(memtable, version)
  <1>1. version \in Version /\ mem \in Seq(Version) /\ FlushTask(k, v) \in Task
    BY WriteTyped
  <1>2. mem \in Seq(Version) /\ buffer' \in Seq(Version)
    BY <1>1 DEF TypeOK, WriteVersion
  <1>4. [path |-> <<"flushed", next_sstable_id>>, entries |-> Range(mem)] \in Task
    BY <1>1 DEF FlushTask
  <1>5. AfterWrite(seq + 1) \in ClientStates
    BY DEF AfterWrite, ClientStates
  <1>6. /\ memtable' \in Seq(Version)
        /\ immutable' \in SUBSET Seq(Version)
        /\ next_sstable_id' \in Nat
        /\ tasks' \in Seq(Task)
        /\ client' \in ClientStates
    <2> HIDE DEF mem
    <2>1. MaybeFlushMemtable(mem, seq + 1)
      BY DEF WriteVersion, mem
    <2>2. "idle" \in ClientStates /\ {<<>>} \in SUBSET Seq(Version)
      BY DEF ClientStates
    <2>3. CASE UNCHANGED <<immutable, next_sstable_id, tasks>>
      <3>1. memtable' = mem \/ memtable' = <<>>
        BY <2>1 DEF MaybeFlushMemtable
      <3>2. client' = "idle" \/ client' = AfterWrite(seq + 1)
        BY <2>1 DEF MaybeFlushMemtable
      <3>3. QED
        BY <1>2, <1>5, <2>2, <2>3, <3>1, <3>2, Zenon DEF TypeOK
    <2>4. CASE /\ memtable' = <<>>
               /\ immutable' = {<<>>}
               /\ next_sstable_id' = next_sstable_id + 1
      <3>1. client' = "idle" \/ client' = AfterWrite(seq + 1)
        BY <2>1 DEF MaybeFlushMemtable
      <3>2. tasks' = tasks \/ tasks' = Append(tasks,
              [path |-> <<"flushed", next_sstable_id>>, entries |-> Range(mem)])
        BY <2>1 DEF MaybeFlushMemtable
      <3>3. tasks' \in Seq(Task)
        <4> DEFINE t == [path |-> <<"flushed", next_sstable_id>>, entries |-> Range(mem)]
        <4>1. t \in Task /\ tasks \in Seq(Task)
          BY <1>4 DEF TypeOK
        <4> HIDE DEF t
        <4>2. Append(tasks, t) \in Seq(Task)
          BY <4>1
        <4>3. QED
          BY <3>2, <4>1, <4>2 DEF t
      <3>4. QED
        BY <1>5, <2>2, <2>4, <3>1, <3>3, SMTT(30) DEF TypeOK
    <2>5. QED
      BY <2>1, <2>3, <2>4 DEF MaybeFlushMemtable
  <1>7. /\ seq' = seq + 1 /\ UNCHANGED <<sstable_paths, worker, task, completions>>
        /\ UNCHANGED <<output, merged, inputs, wal, snapshot, rotated>>
        /\ UNCHANGED <<manifest, files, restarts>>
    BY DEF WriteVersion, compactVars, logVars
  <1>8. seq' \in Nat
    BY <1>7 DEF TypeOK
  <1>9. QED
    BY <1>2, <1>6, <1>7, <1>8, Zenon DEF TypeOK

\* Writing and removing a file keep the files typed.
LEMMA FilesTyped ==
  ASSUME TypeOK, NEW p \in Path
  PROVE  /\ DOMAIN WithoutFile(p) = DOMAIN files \ {p}
         /\ DOMAIN WithoutFile(p) \subseteq Path
         /\ \A q \in DOMAIN WithoutFile(p) : WithoutFile(p)[q] \in SUBSET Version
         /\ \A c \in SUBSET Version :
              /\ DOMAIN WithFile(p, c) = DOMAIN files \cup {p}
              /\ DOMAIN WithFile(p, c) \subseteq Path
              /\ \A q \in DOMAIN WithFile(p, c) :
                   WithFile(p, c)[q] \in SUBSET Version
  BY DEF TypeOK, WithFile, WithoutFile

\* A compaction starts with two tables or more.
LEMMA MergeHasInputs ==
  ASSUME TypeOK, CompactMerge
  PROVE  Len(sstable_paths) >= 2
  <1>1. Len(sstable_paths) >= CompactionTrigger
    BY DEF CompactMerge
  <1>2. CompactionTrigger \in Nat /\ CompactionTrigger >= 2
    BY StoreAssumption
  <1>3. Len(sstable_paths) \in Nat
    BY LenProperties DEF TypeOK
  <1>4. QED
    BY <1>1, <1>2, <1>3

\* The steps of compaction keep types.
LEMMA CompactTypeOK ==
  ASSUME TypeOK,
         CompactSkip \/ CompactMerge \/ CompactRename \/ CompactReplace
         \/ CompactRemove \/ CompactFail
  PROVE  TypeOK'
  <1> USE DEF callVars, sstVars, compactVars, workerVars, logVars
  <1>1. AfterCompact \in ClientStates
    BY DEF AfterCompact, ClientStates
  <1>2. CASE CompactSkip
    BY <1>1, <1>2 DEF CompactSkip, TypeOK
  <1>3. CASE CompactMerge
    <2>1. Len(sstable_paths) >= 2
      BY <1>3, MergeHasInputs
    <2>2. sstable_paths[1] \in Path /\ sstable_paths[2] \in Path
      BY <2>1, ElementOfSeq DEF TypeOK
    <2>3. PICK id \in next_sstable_id..(next_sstable_id + Len(sstable_paths)) :
            /\ next_sstable_id' = id + 1
            /\ IF {sstable_paths[1], sstable_paths[2]} \subseteq DOMAIN files
               THEN /\ output' = <<"compacted", id>>
                    /\ merged' \in Merges(files[sstable_paths[1]]
                                          \cup files[sstable_paths[2]])
                    /\ inputs' = <<sstable_paths[1], sstable_paths[2]>>
                    /\ client' = "rename"
               ELSE client' = AfterCompact /\ UNCHANGED compactVars
      BY <1>3 DEF CompactMerge
    <2>4. id \in Nat /\ <<"compacted", id>> \in Path
      BY <2>3, SMTT(30) DEF TypeOK, Path
    <2>5. CASE {sstable_paths[1], sstable_paths[2]} \subseteq DOMAIN files
      <3>1. merged' \in SUBSET Version
        BY <2>3, <2>5, Zenon DEF Merges, TypeOK
      <3>2. inputs' \in Seq(Path)
        <4>1. <<sstable_paths[1], sstable_paths[2]>> \in Seq(Path)
          BY <2>2, PairIsSeq
        <4>2. QED
          BY <2>3, <2>5, <4>1, Zenon
      <3>3. output' \in Path /\ client' \in ClientStates /\ next_sstable_id' \in Nat
        BY <2>3, <2>4, <2>5 DEF ClientStates
      <3>4. QED
        BY <1>3, <3>1, <3>2, <3>3, Zenon DEF CompactMerge, TypeOK
    <2>6. CASE ~({sstable_paths[1], sstable_paths[2]} \subseteq DOMAIN files)
      BY <1>1, <1>3, <2>3, <2>4, <2>6 DEF CompactMerge, TypeOK
    <2>7. QED
      BY <2>5, <2>6
  <1>4. CASE CompactRename
    <2>1. output \in Path /\ merged \in SUBSET Version
      BY DEF TypeOK
    <2>2. /\ DOMAIN WithFile(output, merged) \subseteq Path
          /\ \A q \in DOMAIN WithFile(output, merged) :
               WithFile(output, merged)[q] \in SUBSET Version
      BY <2>1, FilesTyped, Zenon
    <2>3. QED
      BY <1>4, <2>2 DEF CompactRename, TypeOK, ClientStates
  <1>5. CASE CompactReplace
    <2>1. UpdatedPaths \in Seq(Path)
      <3>1. \A i \in 3..Len(sstable_paths) : sstable_paths[i] \in Path
        BY DEF TypeOK
      <3>2. SubSeq(sstable_paths, 3, Len(sstable_paths)) \in Seq(Path)
        BY <3>1, SubSeqProperties DEF TypeOK
      <3>3. <<output>> \in Seq(Path)
        BY DEF TypeOK
      <3>4. QED
        BY <3>2, <3>3, ConcatProperties DEF UpdatedPaths
    <2>2. NoPath \in Path
      BY DEF NoPath, Path
    <2>3. QED
      BY <1>5, <2>1, <2>2 DEF CompactReplace, TypeOK, ClientStates
  <1>6. CASE CompactRemove
    <2>1. Head(inputs) \in Path /\ Tail(inputs) \in Seq(Path)
      BY <1>6, RangeHeadTail DEF CompactRemove, TypeOK
    <2>2. /\ DOMAIN WithoutFile(Head(inputs)) \subseteq Path
          /\ \A q \in DOMAIN WithoutFile(Head(inputs)) :
               WithoutFile(Head(inputs))[q] \in SUBSET Version
      BY <2>1, FilesTyped, Zenon
    <2>3. QED
      BY <1>1, <1>6, <2>1, <2>2 DEF CompactRemove, TypeOK, ClientStates
  <1>7. CASE CompactFail
    <2>1. NoPath \in Path /\ output \in Path
      BY DEF NoPath, Path, TypeOK
    <2>2. /\ DOMAIN WithoutFile(output) \subseteq Path
          /\ \A q \in DOMAIN WithoutFile(output) :
               WithoutFile(output)[q] \in SUBSET Version
      BY <2>1, FilesTyped, Zenon
    <2>3. files' = WithoutFile(output) \/ files' = files
      BY <1>7 DEF CompactFail
    <2>4. QED
      BY <1>1, <1>7, <2>1, <2>2, <2>3, SMTT(30) DEF CompactFail, TypeOK
  <1>8. QED
    BY <1>2, <1>3, <1>4, <1>5, <1>6, <1>7

\* The steps of the worker keep types.
LEMMA WorkerTypeOK ==
  ASSUME TypeOK, WorkerStep \/ WorkerFail
  PROVE  TypeOK'
  <1> USE DEF callVars, sstVars, compactVars, logVars
  <1>1. task.path \in Path /\ task.entries \in SUBSET Version /\ NoTask \in Task
    BY DEF TypeOK, Task, NoTask, NoPath, Path
  <1>2. /\ \A c \in SUBSET Version :
             /\ DOMAIN WithFile(task.path, c) \subseteq Path
             /\ \A q \in DOMAIN WithFile(task.path, c) :
                  WithFile(task.path, c)[q] \in SUBSET Version
    BY <1>1, FilesTyped, Zenon
  <1>3. CASE WorkerTake
    <2>1. Head(tasks) \in Task /\ Tail(tasks) \in Seq(Task)
      BY <1>3, RangeHeadTail DEF WorkerTake, TypeOK
    <2>2. QED
      BY <1>3, <2>1 DEF WorkerTake, TypeOK, WorkerStates
  <1>4. CASE WorkerOpenFile
    BY <1>2, <1>4, Zenon DEF WorkerOpenFile, TypeOK, WorkerStates
  <1>5. CASE WorkerWriteFile
    BY <1>1, <1>2, <1>5, Zenon DEF WorkerWriteFile, TypeOK, WorkerStates
  <1>6. CASE WorkerLoadManifest
    BY <1>6 DEF WorkerLoadManifest, TypeOK, WorkerStates
  <1>7. CASE WorkerAppendManifest
    BY <1>1, <1>7 DEF WorkerAppendManifest, TypeOK, WorkerStates
  <1>8. CASE WorkerNotify
    BY <1>1, <1>8 DEF WorkerNotify, TypeOK, WorkerStates
  <1>9. CASE WorkerFail
    <2>1. files' = files \/ \E c \in SUBSET Version : files' = WithFile(task.path, c)
      BY <1>1, <1>9 DEF WorkerFail, CutShort
    <2>2. QED
      BY <1>1, <1>2, <1>9, <2>1, Zenon DEF WorkerFail, TypeOK, WorkerStates
  <1>10. QED
    BY <1>3, <1>4, <1>5, <1>6, <1>7, <1>8, <1>9 DEF WorkerStep

\* Losing the memory keeps types.
LEMMA LoseMemoryTyped ==
  ASSUME LoseMemory
  PROVE  /\ client' \in ClientStates /\ seq' \in Nat
         /\ map' \in [Key -> Value \cup {None}]
         /\ memtable' \in Seq(Version) /\ immutable' \in SUBSET Seq(Version)
         /\ sstable_paths' \in Seq(Path) /\ next_sstable_id' \in Nat
         /\ buffer' \in Seq(Version) /\ output' \in Path
         /\ merged' \in SUBSET Version /\ inputs' \in Seq(Path)
         /\ worker' \in WorkerStates /\ tasks' \in Seq(Task) /\ task' \in Task
         /\ completions' \in Seq(Path)
  BY DEF LoseMemory, ClientStates, WorkerStates, NoTask, NoPath, Task, Path

\* The other steps of the client, and crashes, keep types.
LEMMA ClientTypeOK ==
  ASSUME TypeOK,
         \/ FlushWal \/ GetAt \/ Open \/ OpenManifestFail \/ CheckpointBegin
         \/ Close \/ GroupCommit \/ DrainCompletion \/ DrainDone \/ GetAtReturn
         \/ OpenDone \/ CheckpointSave \/ CheckpointRotate \/ CloseDone \/ Crash
         \/ CheckpointFail
  PROVE  TypeOK'
  <1> USE DEF callVars, sstVars, compactVars, workerVars, logVars
  <1>1. CASE GroupCommit \/ FlushWal
    <2>1. (wal \o buffer) \in Seq(Version)
      BY ConcatProperties DEF TypeOK
    <2>2. WalFlush /\ client' \in ClientStates
      BY <1>1 DEF GroupCommit, FlushWal, ClientStates
    <2>3. QED
      BY <2>1, <2>2 DEF WalFlush, TypeOK
  <1>2. CASE GetAt \/ DrainDone \/ GetAtReturn
    <2>1. client' \in ClientStates
      BY <1>2 DEF GetAt, DrainDone, GetAtReturn, ClientStates
    <2>2. UNCHANGED <<callVars, sstVars, compactVars, workerVars, logVars,
                      manifest, files, restarts>>
      BY <1>2 DEF GetAt, DrainDone, GetAtReturn
    <2>3. QED
      BY <2>1, <2>2 DEF TypeOK
  <1>3. CASE DrainCompletion
    <2>1. Head(completions) \in Path /\ Tail(completions) \in Seq(Path)
      BY <1>3, RangeHeadTail DEF DrainCompletion, TypeOK
    <2>2. sstable_paths' \in Seq(Path)
      BY <1>3, <2>1 DEF DrainCompletion, TypeOK
    <2>3. client' \in ClientStates /\ immutable' \in SUBSET Seq(Version)
      BY <1>3 DEF DrainCompletion, TypeOK, ClientStates
    <2>4. QED
      BY <1>3, <2>1, <2>2, <2>3, Zenon DEF DrainCompletion, TypeOK
  <1>14. ASSUME SaveCutShort PROVE snapshot' \in Seq(Version)
    <2>1. PICK n \in 0..Len(memtable) : \E f \in [1..n -> DOMAIN memtable] :
            snapshot' = [i \in 1..n |-> memtable[f[i]]]
      BY <1>14 DEF SaveCutShort
    <2>2. PICK f \in [1..n -> DOMAIN memtable] :
            snapshot' = [i \in 1..n |-> memtable[f[i]]]
      BY <2>1, Zenon
    <2>3. \A i \in 1..n : memtable[f[i]] \in Version
      BY <2>2, LenProperties, ElementOfSeq DEF TypeOK
    <2>4. n \in Nat
      BY <2>1, LenProperties DEF TypeOK
    <2>5. QED
      BY <2>2, <2>3, <2>4, SeqDef
  <1>15. CASE CheckpointFail
    BY <1>14, <1>15 DEF CheckpointFail, TypeOK, ClientStates
  <1>4. ASSUME Recover
        PROVE  /\ seq' \in Nat
               /\ map' \in [Key -> Value \cup {None}]
               /\ memtable' \in Seq(Version)
    <2>1. Recovered \in Seq(Version)
      BY ConcatProperties DEF Recovered, TypeOK
    <2>2. \A k \in Key : Replayed(Recovered, k) \in Value \cup {None}
      <3> SUFFICES ASSUME NEW k \in Key
                   PROVE  Replayed(Recovered, k) \in Value \cup {None}
        OBVIOUS
      <3> DEFINE I == {i \in DOMAIN Recovered : Recovered[i].key = k}
      <3>1. DOMAIN Recovered = 1..Len(Recovered) /\ Len(Recovered) \in Nat
        BY <2>1, LenProperties
      <3>2. CASE I = {}
        BY <3>2 DEF Replayed
      <3>3. CASE I # {}
        <4>1. I \in SUBSET (0..Len(Recovered))
          BY <3>1
        <4>2. Max(I) \in I
          BY <3>1, <3>3, <4>1, MaxExists, Zenon
        <4>3. Recovered[Max(I)] \in Version
          BY <2>1, <3>1, <4>2, ElementOfSeq
        <4>4. QED
          BY <4>3 DEF Replayed, Version
      <3>4. QED
        BY <3>2, <3>3
    <2>3. seq' \in Nat
      <3>1. \A i \in DOMAIN wal : wal[i].ts \in Nat
        <4>1. \A i \in DOMAIN wal : wal[i] \in Version
          BY LenProperties, ElementOfSeq DEF TypeOK
        <4>2. QED
          BY <4>1 DEF Version
      <3>2. QED
        BY <1>4, <3>1 DEF Recover, MaxSeqs, Largest
    <2>4. QED
      BY <1>4, <2>1, <2>2, <2>3 DEF Recover
  <1>5. CASE Open
    <2>1. next_sstable_id' \in Nat
      <3>1. \A p \in Range(manifest) : p[2] + 1 \in Nat
        <4>1. \A p \in Range(manifest) : p \in Path
          BY RangeOfSeq DEF TypeOK
        <4>2. QED
          BY <4>1 DEF Path
      <3>2. QED
        BY <1>5, <3>1 DEF Open, Largest
    <2>2. Recover
      BY <1>5 DEF Open
    <2>3. QED
      BY <1>4, <1>5, <2>1, <2>2 DEF Open, Recover, TypeOK, ClientStates
  <1>6. CASE OpenManifestFail
    <2>1. Recover
      BY <1>6 DEF OpenManifestFail
    <2>2. QED
      BY <1>4, <1>6, <2>1 DEF OpenManifestFail, Recover, TypeOK, ClientStates
  <1>7. CASE OpenDone
    BY <1>7, LenProperties DEF OpenDone, TypeOK, ClientStates, WorkerStates
  <1>8. CASE CheckpointBegin \/ CheckpointSave
    <2>1. client' \in ClientStates /\ snapshot' \in {<<>>, memtable}
      BY <1>8 DEF CheckpointBegin, CheckpointSave, ClientStates
    <2>2. UNCHANGED <<callVars, sstVars, compactVars, workerVars, wal, rotated,
                      manifest, files, restarts>>
      BY <1>8 DEF CheckpointBegin, CheckpointSave
    <2>3. snapshot' \in Seq(Version)
      BY <2>1, EmptySeq, Zenon DEF TypeOK
    <2>4. QED
      BY <2>1, <2>2, <2>3, Zenon DEF TypeOK
  <1>9. CASE CheckpointRotate
    <2>1. (rotated \o wal) \in Seq(Version)
      BY ConcatProperties DEF TypeOK
    <2>2. QED
      BY <1>9, <2>1, SMTT(30) DEF CheckpointRotate, TypeOK, ClientStates
  <1>10. CASE Close
    BY <1>10, SMTT(30) DEF Close, TypeOK, ClientStates
  <1>11. CASE CloseDone
    <2>1. LoseMemory /\ restarts' \in Nat
      BY <1>11 DEF CloseDone, TypeOK
    <2>2. UNCHANGED <<wal, snapshot, rotated, manifest, files>>
      BY <1>11 DEF CloseDone
    <2>3. QED
      BY <2>1, <2>2, LoseMemoryTyped, Zenon DEF TypeOK
  <1>12. CASE Crash
    <2>1. ASSUME NEW s \in Seq(Version), NEW t \in Seq(Version), NEW n \in 0..Len(t)
          PROVE  s \o SubSeq(t, 1, n) \in Seq(Version)
      <3>1. \A i \in 1..n : t[i] \in Version
        BY ElementOfSeq
      <3>2. SubSeq(t, 1, n) \in Seq(Version)
        BY <3>1, SubSeqProperties
      <3>3. QED
        BY <3>2, ConcatProperties
    <2>2. wal' \in Seq(Version) /\ snapshot' \in Seq(Version)
      BY <1>12, <1>14, <2>1 DEF Crash, TypeOK
    <2>3. task.path \in Path /\ task.entries \in SUBSET Version
      BY DEF TypeOK, Task
    <2>4. files' = files \/ \E c \in SUBSET Version : files' = WithFile(task.path, c)
      BY <1>12, <2>3 DEF Crash, CutShort
    <2>5. DOMAIN files' \subseteq Path /\ \A q \in DOMAIN files' : files'[q] \in SUBSET Version
      BY <2>3, <2>4, FilesTyped, Zenon DEF TypeOK
    <2>6. LoseMemory /\ restarts' \in Nat /\ manifest' = manifest /\ rotated' = rotated
      BY <1>12 DEF Crash, TypeOK
    <2>7. QED
      BY <2>2, <2>5, <2>6, LoseMemoryTyped, Zenon DEF TypeOK
  <1>13. QED
    BY <1>1, <1>2, <1>3, <1>5, <1>6, <1>7, <1>8, <1>9, <1>10, <1>11, <1>12,
      <1>15

\* Every step keeps types.
LEMMA NextTypeOK == TypeOK /\ [Next]_vars => TypeOK'
  <1> SUFFICES ASSUME TypeOK, [Next]_vars
               PROVE  TypeOK'
    OBVIOUS
  <1>1. ASSUME NEW k \in Key, NEW v \in Value, Put(k, v) PROVE TypeOK'
    <2>1. map' \in [Key -> Value \cup {None}]
      BY <1>1 DEF Put, TypeOK
    <2>2. QED
      BY <1>1, <2>1, WriteTypeOK DEF Put
  <1>2. ASSUME NEW k \in Key, Del(k) PROVE TypeOK'
    <2>1. map' \in [Key -> Value \cup {None}]
      BY <1>2 DEF Del, TypeOK
    <2>2. QED
      BY <1>2, <2>1, WriteTypeOK DEF Del
  <1>3. CASE UNCHANGED vars
    BY <1>3 DEF vars, callVars, sstVars, compactVars, workerVars, logVars, TypeOK
  <1>4. QED
    BY <1>1, <1>2, <1>3, ClientTypeOK, CompactTypeOK, WorkerTypeOK DEF Next, CallStep

\* Type correctness of the store.
THEOREM TypeCorrect == Spec => []TypeOK
  BY InitTypeOK, NextTypeOK, PTL DEF Spec

------------------------------------------------------------------------------
(* The flush handshake. *)

\* The number of flushes in flight is a natural number.
LEMMA InFlightType ==
  ASSUME TypeOK
  PROVE  /\ Len(tasks) \in Nat /\ Len(completions) \in Nat /\ InFlight \in Nat
         /\ tasks = <<>> <=> Len(tasks) = 0
         /\ completions = <<>> <=> Len(completions) = 0
  BY EmptySeq, LenProperties DEF TypeOK, InFlight

\* A step that leaves the handshake's variables alone, but for a client step
\* that does not become quiet, keeps the handshake.
LEMMA FlightFrame ==
  ASSUME FlightInv, UNCHANGED <<workerVars, immutable>>,
         client' \in Quiet => client \in Quiet,
         client' \in {"closed", "start"} => client \in {"closed", "start"} \/ worker = "off",
         client' = "drain_added" => client = "drain_added"
  PROVE  FlightInv'
  BY DEF FlightInv, SingleFlight, InFlight, Busy, workerVars

\* Writing starts a flush only when none is in flight.
LEMMA FlightWrite ==
  ASSUME TypeOK, FlightInv, NEW k \in Key, NEW v \in Value \cup {Tombstone},
         WriteVersion(k, v)
  PROVE  FlightInv'
  <1> DEFINE version == [key |-> k, ts |-> seq + 1, val |-> v]
             mem == Append(memtable, version)
  <1> HIDE DEF mem
  <1>1. client = "idle" /\ UNCHANGED <<worker, task, completions>>
    BY DEF WriteVersion
  <1>2. MaybeFlushMemtable(mem, seq + 1)
    BY DEF WriteVersion, mem
  <1>3. client' \in {"idle", "sync"}
    BY <1>2 DEF MaybeFlushMemtable, AfterWrite
  <1>4. CASE UNCHANGED <<immutable, tasks>>
    BY <1>1, <1>3, <1>4, FlightFrame DEF Quiet, workerVars
  <1>5. CASE /\ immutable = {} /\ immutable' = {<<>>}
             /\ IF worker = "off" THEN UNCHANGED tasks
                ELSE \E t : tasks' = Append(tasks, t) /\ t \in Task
    <2>1. InFlight = 0
      BY <1>5, InFlightType DEF FlightInv, SingleFlight
    <2>2. Len(tasks) = 0 /\ Len(completions) = 0 /\ ~Busy
      BY <2>1, InFlightType DEF InFlight
    <2>3. ~Busy' /\ Len(completions') = 0
      BY <1>1, <2>2 DEF Busy
    <2>4. IF worker = "off" THEN Len(tasks') = 0 ELSE Len(tasks') = 1
      BY <1>5, <2>2, AppendProperties, SMTT(30) DEF TypeOK
    <2>5. IF worker = "off" THEN InFlight' = 0 ELSE InFlight' = 1
      BY <2>3, <2>4 DEF InFlight
    <2>6. QED
      BY <1>1, <1>3, <1>5, <2>5 DEF FlightInv, SingleFlight, Quiet
  <1>6. QED
    <2>1. FlushTask(k, v) \in Task
      BY WriteTyped, Zenon
    <2>2. QED
      BY <1>2, <1>4, <1>5, <2>1 DEF MaybeFlushMemtable, FlushTask, mem

\* The worker moves its one flush from the queue to the completions.
LEMMA FlightWorker ==
  ASSUME TypeOK, FlightInv, WorkerStep \/ WorkerFail
  PROVE  FlightInv'
  <1> USE InFlightType
  <1>1. UNCHANGED <<client, immutable>> /\ worker # "off" /\ worker' # "off"
    BY DEF WorkerStep, WorkerTake, WorkerOpenFile, WorkerWriteFile, WorkerLoadManifest,
      WorkerAppendManifest, WorkerNotify, WorkerFail, sstVars
  <1>2. InFlight' = InFlight \/ InFlight' = InFlight - 1
    <2>1. CASE WorkerTake
      <3>1. Len(tasks') = Len(tasks) - 1
        BY <2>1, HeadTailProperties, Zenon DEF WorkerTake, TypeOK
      <3>2. QED
        BY <2>1, <3>1 DEF WorkerTake, InFlight, Busy
    <2>2. CASE WorkerNotify
      <3>1. task.path \in Path /\ completions \in Seq(Path)
        BY DEF TypeOK, Task
      <3>2. Len(completions') = Len(completions) + 1
        BY <2>2, <3>1, AppendProperties DEF WorkerNotify
      <3>3. QED
        BY <2>2, <3>2 DEF WorkerNotify, InFlight, Busy
    <2>3. CASE WorkerOpenFile \/ WorkerWriteFile \/ WorkerLoadManifest
               \/ WorkerAppendManifest
      <3>1. UNCHANGED <<tasks, completions>> /\ Busy /\ Busy'
        BY <2>3 DEF WorkerOpenFile, WorkerWriteFile, WorkerLoadManifest,
          WorkerAppendManifest, Busy
      <3>2. QED
        BY <3>1 DEF InFlight
    <2>4. CASE WorkerFail
      BY <2>4 DEF WorkerFail, InFlight, Busy
    <2>5. QED
      BY <2>1, <2>2, <2>3, <2>4 DEF WorkerStep
  <1>3. InFlight' \in Nat
    <2>1. TypeOK'
      BY WorkerTypeOK
    <2>2. QED
      <3>1. Len(tasks') \in Nat /\ Len(completions') \in Nat
        BY <2>1, LenProperties DEF TypeOK
      <3>2. QED
        BY <3>1 DEF InFlight
  <1>4. QED
    BY <1>1, <1>2, <1>3 DEF FlightInv, SingleFlight

\* The handshake is inductive.
LEMMA FlightNext == TypeOK /\ FlightInv /\ [Next]_vars => FlightInv'
  <1> SUFFICES ASSUME TypeOK, FlightInv, [Next]_vars
               PROVE  FlightInv'
    OBVIOUS
  <1> USE DEF callVars, sstVars, compactVars, workerVars, logVars
  <1>1. ASSUME NEW k \in Key, NEW v \in Value, Put(k, v) PROVE FlightInv'
    BY <1>1, FlightWrite DEF Put
  <1>2. ASSUME NEW k \in Key, Del(k) PROVE FlightInv'
    BY <1>2, FlightWrite DEF Del
  <1>3. CASE FlushWal \/ GroupCommit
    BY <1>3, FlightFrame DEF FlushWal, GroupCommit, WalFlush, Quiet
  <1>4. CASE GetAt \/ GetAtReturn
    BY <1>4, FlightFrame DEF GetAt, GetAtReturn, Quiet
  <1>5. CASE CheckpointBegin \/ CheckpointSave \/ CheckpointRotate \/ CheckpointFail
    BY <1>5, FlightFrame DEF CheckpointBegin, CheckpointSave, CheckpointRotate,
      CheckpointFail, Quiet
  <1>6. CASE CompactSkip \/ CompactMerge \/ CompactRename \/ CompactReplace
             \/ CompactRemove \/ CompactFail
    BY <1>6, FlightFrame, Zenon DEF CompactSkip, CompactMerge, CompactRename, CompactReplace,
      CompactRemove, CompactFail, AfterCompact, Quiet
  <1>7. CASE Open \/ OpenManifestFail
    BY <1>7, FlightFrame, Zenon DEF Open, OpenManifestFail, Recover, Quiet
  <1>8. CASE OpenDone
    BY <1>8 DEF OpenDone, FlightInv, SingleFlight, InFlight, Busy, Quiet
  <1>9. CASE Close
    BY <1>9, FlightFrame DEF Close, Quiet
  <1>10. CASE CloseDone \/ Crash
    <2>1. LoseMemory
      BY <1>10 DEF CloseDone, Crash
    <2>2. InFlight' = 0
      BY <2>1 DEF LoseMemory, InFlight, Busy
    <2>3. QED
      BY <2>1, <2>2 DEF LoseMemory, FlightInv, SingleFlight
  <1>11. CASE DrainDone
    BY <1>11, FlightFrame DEF DrainDone, Quiet
  <1>12. CASE DrainCompletion
    <2>1. Len(completions') = Len(completions) - 1 /\ Len(completions) # 0
      BY <1>12, HeadTailProperties, InFlightType DEF DrainCompletion, TypeOK
    <2>2. InFlight = 1 /\ InFlight' = 0
      BY <1>12, <2>1, InFlightType DEF DrainCompletion, InFlight, Busy, FlightInv, SingleFlight
    <2>3. QED
      BY <1>12, <2>2 DEF DrainCompletion, FlightInv, SingleFlight
  <1>13. CASE WorkerStep \/ WorkerFail
    BY <1>13, FlightWorker
  <1>14. CASE UNCHANGED vars
    BY <1>14, FlightFrame DEF vars
  <1>15. QED
    BY <1>1, <1>2, <1>3, <1>4, <1>5, <1>6, <1>7, <1>8, <1>9, <1>10, <1>11, <1>12,
      <1>13, <1>14 DEF Next, CallStep

------------------------------------------------------------------------------
(* The in-memory list and the manifest. *)

\* No flush is in flight: nothing is undrained, and the worker is at rest.
LEMMA NothingInFlight ==
  ASSUME TypeOK, InFlight = 0
  PROVE  ~Busy /\ completions = <<>> /\ tasks = <<>> /\ Undrained = {}
  <1>1. ~Busy /\ completions = <<>> /\ tasks = <<>>
    BY InFlightType DEF InFlight
  <1>2. Range(<<>>) = {}
    BY DEF Range
  <1>3. QED
    BY <1>1, <1>2 DEF Undrained, Busy

\* A step that leaves the lists and the worker alone keeps the lists aligned,
\* unless it begins a compaction.
LEMMA ListFrame ==
  ASSUME ListInv, UNCHANGED <<sstable_paths, manifest, worker, task, completions>>,
         client' \in {"compact", "rename", "replace", "remove", "start"} =>
           \/ client \in {"compact", "rename", "replace", "remove", "start"}
           \/ worker # "off"
  PROVE  ListInv'
  <1>1. /\ Range(sstable_paths)' = Range(sstable_paths)
        /\ Range(manifest)' = Range(manifest)
        /\ Range(completions)' = Range(completions)
    BY DEF Range
  <1>2. Undrained' = Undrained
    BY <1>1 DEF Undrained
  <1>3. NoDuplicates' = NoDuplicates
    BY DEF NoDuplicates, IsInjective
  <1>4. QED
    BY <1>1, <1>2, <1>3 DEF ListInv

\* The worker's steps keep the lists aligned.
LEMMA ListWorker ==
  ASSUME TypeOK, FlightInv, ListInv, WorkerStep \/ WorkerFail
  PROVE  ListInv'
  <1> USE DEF sstVars
  <1>1. /\ task.path \in Path /\ manifest \in Seq(Path) /\ completions \in Seq(Path)
        /\ worker # "off"
    BY Zenon DEF TypeOK, Task, WorkerStep, WorkerTake, WorkerOpenFile, WorkerWriteFile,
      WorkerLoadManifest, WorkerAppendManifest, WorkerNotify, WorkerFail
  <1>2. CASE WorkerTake \/ WorkerOpenFile \/ WorkerWriteFile \/ WorkerFail
    <2>1. /\ UNCHANGED <<sstable_paths, manifest, completions>>
          /\ worker' \notin {"off", "appending", "notify"} /\ worker # "notify"
      BY <1>2, Zenon DEF WorkerTake, WorkerOpenFile, WorkerWriteFile, WorkerFail
    <2>2. Undrained' = Undrained
      BY <2>1, Zenon DEF Undrained
    <2>3. QED
      BY <1>1, <2>1, <2>2, Zenon DEF ListInv, NoDuplicates
  <1>3. CASE WorkerLoadManifest
    <2>1. /\ UNCHANGED <<sstable_paths, manifest, completions, task>> /\ worker = "append"
          /\ worker' = IF task.path \in Range(manifest) THEN "notify" ELSE "appending"
      BY <1>3 DEF WorkerLoadManifest
    <2>2. Undrained' = Undrained \cup (IF task.path \in Range(manifest) THEN {task.path} ELSE {})
      BY <2>1 DEF Undrained
    <2>3. QED
      BY <1>1, <2>1, <2>2 DEF ListInv, NoDuplicates
  <1>4. CASE WorkerAppendManifest
    <2>1. /\ UNCHANGED <<sstable_paths, completions, task>> /\ worker = "appending"
          /\ worker' = "notify" /\ manifest' = Append(manifest, task.path)
      BY <1>4 DEF WorkerAppendManifest
    <2>2. Undrained' = Undrained \cup {task.path}
      BY <2>1 DEF Undrained
    <2>3. Range(manifest') = Range(manifest) \cup {task.path}
      BY <1>1, <2>1, RangeAppend
    <2>4. IsInjective(manifest')
      BY <1>1, <2>1, InjectiveAppend DEF ListInv, NoDuplicates
    <2>5. QED
      BY <1>1, <2>1, <2>2, <2>3, <2>4 DEF ListInv, NoDuplicates
  <1>5. CASE WorkerNotify
    <2>1. /\ UNCHANGED <<sstable_paths, manifest>> /\ worker = "notify"
          /\ worker' = "wait" /\ completions' = Append(completions, task.path)
      BY <1>5 DEF WorkerNotify
    <2>2. Range(completions') = Range(completions) \cup {task.path}
      BY <1>1, <2>1, RangeAppend
    <2>3. Undrained' = Undrained
      BY <2>1, <2>2 DEF Undrained
    <2>4. QED
      BY <1>1, <2>1, <2>3 DEF ListInv, NoDuplicates
  <1>6. QED
    BY <1>2, <1>3, <1>4, <1>5 DEF WorkerStep

\* Draining moves a path from the completions to the list.
LEMMA ListDrain ==
  ASSUME TypeOK, FlightInv, ListInv, DrainCompletion
  PROVE  ListInv'
  <1> DEFINE path == Head(completions)
  <1>1. completions # <<>> /\ completions \in Seq(Path) /\ sstable_paths \in Seq(Path)
    BY DEF DrainCompletion, TypeOK
  <1>2. path \in Path /\ Range(completions) = {path} \cup Range(completions')
    BY <1>1, RangeHeadTail DEF DrainCompletion
  <1>3. UNCHANGED <<manifest, worker, task>> /\ client' \in {"drain", "drain_added"}
    BY DEF DrainCompletion
  <1>4. Range(sstable_paths') = Range(sstable_paths) \cup {path}
    BY <1>1, <1>2, RangeAppend DEF DrainCompletion
  <1>5. IsInjective(sstable_paths')
    BY <1>1, <1>2, InjectiveAppend DEF DrainCompletion, ListInv, NoDuplicates
  <1> HIDE DEF path
  <1>6. Undrained = {path} \cup Undrained'
    BY <1>2, <1>3 DEF Undrained
  <1>7. QED
    BY <1>3, <1>4, <1>5, <1>6 DEF ListInv, NoDuplicates

\* What Manifest::replace_sstables is given: the new list and the manifest
\* agree afterwards, and both inputs are gone from them.
LEMMA ReplaceLists ==
  ASSUME StoreInv, CompactReplace
  PROVE  /\ ListInv'
         /\ Range(manifest') \subseteq Range(manifest) \cup {output}
         /\ Range(manifest) \ Range(manifest') \subseteq Range(inputs)
         /\ Range(inputs) \cap Range(manifest') = {}
  <1>1. /\ Len(sstable_paths) >= 2 /\ output \notin Range(sstable_paths)
        /\ inputs = <<sstable_paths[1], sstable_paths[2]>>
        /\ sstable_paths \in Seq(Path) /\ output \in Path
        /\ IsInjective(sstable_paths)
    BY DEF StoreInv, CompactReplace, FileInv, TypeOK, ListInv, NoDuplicates
  <1>2. /\ manifest' = UpdatedPaths /\ sstable_paths' = UpdatedPaths
        /\ UNCHANGED <<worker, task, completions>> /\ client = "replace"
        /\ client' = "remove"
    BY DEF CompactReplace, workerVars
  <1>3. /\ IsInjective(UpdatedPaths)
        /\ Range(UpdatedPaths) \subseteq Range(sstable_paths) \cup {output}
        /\ Range(sstable_paths) \subseteq
             Range(UpdatedPaths) \cup {sstable_paths[1], sstable_paths[2]}
        /\ sstable_paths[1] \notin Range(UpdatedPaths)
        /\ sstable_paths[2] \notin Range(UpdatedPaths)
    BY <1>1, MergeFirstTwo DEF UpdatedPaths
  <1>4. Range(inputs) = {sstable_paths[1], sstable_paths[2]}
    <2>1. sstable_paths[1] \in Path /\ sstable_paths[2] \in Path
      BY <1>1, ElementOfSeq
    <2>2. QED
      BY <1>1, <2>1, PairIsSeq
  <1>5. InFlight = 0 /\ TypeOK
    BY <1>2 DEF StoreInv, FlightInv, Quiet
  <1>6. ~Busy /\ Undrained = {}
    BY <1>5, NothingInFlight
  <1>7. Undrained' = {} /\ worker' # "appending"
    BY <1>2, <1>6 DEF Undrained, Busy
  <1>8. Range(manifest) = Range(sstable_paths)
    BY <1>2, <1>6 DEF StoreInv, ListInv
  <1>9. ListInv'
    BY <1>2, <1>3, <1>7 DEF ListInv, NoDuplicates
  <1>10. QED
    BY <1>2, <1>3, <1>4, <1>8, <1>9

\* The lists stay aligned.
LEMMA ListNext == StoreInv /\ [Next]_vars => ListInv'
  <1> SUFFICES ASSUME StoreInv, [Next]_vars
               PROVE  ListInv'
    OBVIOUS
  <1>0. TypeOK /\ FlightInv /\ ListInv
    BY DEF StoreInv
  <1> USE DEF callVars, sstVars, compactVars, workerVars, logVars
  <1>1. ASSUME NEW k \in Key, NEW v, WriteVersion(k, v) PROVE ListInv'
    <2>1. UNCHANGED <<sstable_paths, manifest, worker, task, completions>>
      BY <1>1 DEF WriteVersion
    <2>2. client' \in {"idle", "sync"}
      BY <1>1 DEF WriteVersion, MaybeFlushMemtable, AfterWrite
    <2>3. QED
      BY <1>0, <2>1, <2>2, ListFrame
  <1>2. CASE FlushWal \/ GroupCommit
    BY <1>0, <1>2, ListFrame DEF FlushWal, GroupCommit, WalFlush
  <1>3. CASE GetAt \/ GetAtReturn
    BY <1>0, <1>3, ListFrame DEF GetAt, GetAtReturn
  <1>4. CASE CheckpointBegin \/ CheckpointSave \/ CheckpointRotate \/ CheckpointFail
    BY <1>0, <1>4, ListFrame DEF CheckpointBegin, CheckpointSave, CheckpointRotate,
      CheckpointFail
  <1>5. CASE CompactSkip \/ CompactMerge \/ CompactRename \/ CompactRemove \/ CompactFail
    BY <1>0, <1>5, ListFrame, Zenon DEF CompactSkip, CompactMerge, CompactRename, CompactRemove,
      CompactFail
  <1>6. CASE CompactReplace
    BY <1>6, ReplaceLists
  <1>7. CASE Open \/ OpenManifestFail
    <2>1. /\ client = "closed" /\ worker = "off"
          /\ UNCHANGED <<manifest, worker, task, completions>>
          /\ \/ sstable_paths' = manifest
             \/ sstable_paths' = sstable_paths /\ client' = "idle"
      BY <1>0, <1>7, Zenon DEF Open, OpenManifestFail, Recover, FlightInv
    <2>2. Undrained = {}
      BY <1>0, <2>1, NothingInFlight DEF FlightInv
    <2>3. Undrained' = {}
      BY <2>1, <2>2 DEF Undrained
    <2>4. QED
      BY <1>0, <2>1, <2>3 DEF ListInv, NoDuplicates
  <1>8. CASE OpenDone
    <2>1. /\ UNCHANGED <<sstable_paths, manifest, task, completions>>
          /\ client = "start" /\ worker = "off" /\ worker' = "wait"
      BY <1>0, <1>8 DEF OpenDone, FlightInv
    <2>2. Undrained' = Undrained
      BY <2>1 DEF Undrained
    <2>3. QED
      BY <1>0, <2>1, <2>2 DEF ListInv, NoDuplicates
  <1>9. CASE Close
    BY <1>0, <1>9, ListFrame DEF Close
  <1>10. CASE CloseDone \/ Crash
    <2>1. LoseMemory /\ manifest' = manifest
      BY <1>10 DEF CloseDone, Crash
    <2>2. Range(<<>>) = {} /\ IsInjective(<<>>)
      BY DEF Range, IsInjective
    <2>3. Undrained' = {} /\ Range(sstable_paths') = {} /\ IsInjective(sstable_paths')
      BY <2>1, <2>2 DEF LoseMemory, Undrained
    <2>4. QED
      BY <1>0, <2>1, <2>3 DEF LoseMemory, ListInv, NoDuplicates
  <1>11. CASE DrainDone
    <2>1. UNCHANGED <<sstable_paths, manifest, worker, task, completions>>
      BY <1>11 DEF DrainDone
    <2>2. QED
      BY <1>0, <1>11, <2>1, ListFrame DEF DrainDone, FlightInv
  <1>12. CASE DrainCompletion
    BY <1>0, <1>12, ListDrain
  <1>13. CASE WorkerStep \/ WorkerFail
    BY <1>0, <1>13, ListWorker
  <1>14. CASE UNCHANGED vars
    BY <1>0, <1>14, ListFrame DEF vars
  <1>15. QED
    BY <1>1, <1>2, <1>3, <1>4, <1>5, <1>6, <1>7, <1>8, <1>9, <1>10, <1>11, <1>12,
      <1>13, <1>14 DEF Next, CallStep, Put, Del

------------------------------------------------------------------------------
(* The files. *)

\* A step of the client that touches neither the lists nor the files and is no
\* step of the compaction keeps the files where they are needed.
LEMMA FileFrame ==
  ASSUME FileInv, UNCHANGED <<manifest, files, worker, task>>,
         client' \notin {"rename", "replace", "remove"}
  PROVE  FileInv'
  BY DEF FileInv, ManifestFilesExist, Range

\* The worker only adds files, and lists a file that it has written.
LEMMA FileWorker ==
  ASSUME StoreInv, WorkerStep \/ WorkerFail
  PROVE  FileInv'
  <1> USE DEF sstVars, compactVars
  <1>0. TypeOK /\ FlightInv /\ ListInv /\ FileInv
    BY DEF StoreInv
  <1>1. UNCHANGED <<client, sstable_paths, output, inputs>>
    BY Zenon DEF WorkerStep, WorkerTake, WorkerOpenFile, WorkerWriteFile, WorkerLoadManifest,
      WorkerAppendManifest, WorkerNotify, WorkerFail
  <1>2. /\ DOMAIN files \subseteq DOMAIN files'
        /\ worker' \in {"writing", "append"} \/ worker' = "appending" =>
             task' = task /\ task.path \in DOMAIN files'
    <2>1. CASE WorkerTake \/ WorkerNotify
      BY <2>1, Zenon DEF WorkerTake, WorkerNotify
    <2>2. CASE WorkerOpenFile \/ WorkerWriteFile
      <3>1. task' = task /\ \E c : files' = WithFile(task.path, c)
        BY <2>2, Zenon DEF WorkerOpenFile, WorkerWriteFile
      <3>2. QED
        BY <3>1 DEF WithFile
    <2>3. CASE WorkerLoadManifest \/ WorkerAppendManifest
      BY <1>0, <2>3 DEF WorkerLoadManifest, WorkerAppendManifest, FileInv
    <2>4. CASE WorkerFail
      <3>1. files' = files \/ \E c : files' = WithFile(task.path, c)
        BY <2>4 DEF WorkerFail, CutShort
      <3>2. QED
        BY <2>4, <3>1 DEF WorkerFail, WithFile
    <2>5. QED
      BY <2>1, <2>2, <2>3, <2>4 DEF WorkerStep
  <1>3. Range(manifest') \subseteq DOMAIN files'
    <2>1. CASE WorkerAppendManifest
      <3>1. task.path \in Path /\ manifest \in Seq(Path)
        BY <1>0 DEF TypeOK, Task
      <3>2. Range(manifest') = Range(manifest) \cup {task.path}
        BY <2>1, <3>1, RangeAppend DEF WorkerAppendManifest
      <3>3. task.path \in DOMAIN files
        BY <1>0, <2>1 DEF WorkerAppendManifest, FileInv
      <3>4. QED
        BY <1>0, <1>2, <3>2, <3>3 DEF FileInv, ManifestFilesExist
    <2>2. CASE ~WorkerAppendManifest
      <3>1. manifest' = manifest
        BY <2>2, Zenon DEF WorkerStep, WorkerTake, WorkerOpenFile, WorkerWriteFile,
          WorkerLoadManifest, WorkerNotify, WorkerFail
      <3>2. QED
        BY <1>0, <1>2, <3>1 DEF FileInv, ManifestFilesExist
    <2>3. QED
      BY <2>1, <2>2
  <1>4. client = "remove" => manifest' = manifest
    <2>1. client = "remove" => worker # "appending"
      BY <1>0, NothingInFlight DEF FlightInv, Quiet, Busy
    <2>2. QED
      BY <2>1, Zenon DEF WorkerStep, WorkerTake, WorkerOpenFile, WorkerWriteFile,
        WorkerLoadManifest, WorkerAppendManifest, WorkerNotify, WorkerFail
  <1>5. QED
    BY <1>0, <1>1, <1>2, <1>3, <1>4 DEF FileInv, ManifestFilesExist

\* The compaction adds its output before it lists it, and removes only files
\* that are not listed; meanwhile the worker rests.
LEMMA FileCompact ==
  ASSUME StoreInv,
         CompactSkip \/ CompactMerge \/ CompactRename \/ CompactReplace
         \/ CompactRemove \/ CompactFail
  PROVE  FileInv'
  <1> USE DEF callVars, sstVars, compactVars, workerVars, logVars
  <1>0. TypeOK /\ FlightInv /\ ListInv /\ FileInv
    BY DEF StoreInv
  <1>1. client \in {"compact", "rename", "replace", "remove"} /\ UNCHANGED <<worker, task>>
    BY Zenon DEF CompactSkip, CompactMerge, CompactRename, CompactReplace, CompactRemove,
      CompactFail
  <1>2. ~Busy /\ Undrained = {}
    BY <1>0, <1>1, NothingInFlight DEF FlightInv, Quiet
  <1>3. worker' \notin {"writing", "append", "appending"}
    BY <1>1, <1>2 DEF Busy
  <1>4. Range(manifest) = Range(sstable_paths)
    BY <1>0, <1>1, <1>2 DEF ListInv
  <1>5. AfterCompact \notin {"rename", "replace", "remove"}
    BY DEF AfterCompact
  <1>6. CASE CompactSkip
    BY <1>0, <1>1, <1>5, <1>6, FileFrame DEF CompactSkip
  <1>7. CASE CompactMerge
    <2>1. Len(sstable_paths) >= 2
      BY <1>0, <1>7, MergeHasInputs
    <2>2. UNCHANGED <<sstable_paths, manifest, files>>
      BY <1>7 DEF CompactMerge
    <2>3. CASE client' = AfterCompact
      BY <1>0, <1>1, <1>5, <2>2, <2>3, FileFrame
    <2>4. CASE /\ client' = "rename"
               /\ inputs' = <<sstable_paths[1], sstable_paths[2]>>
               /\ output' \notin Range(sstable_paths)
      BY <1>0, <1>3, <2>1, <2>2, <2>4, Zenon DEF FileInv, ManifestFilesExist
    <2>5. QED
      BY <1>7, <2>3, <2>4, Zenon DEF CompactMerge, IsOutputId
  <1>8. CASE CompactRename
    <2>1. /\ client = "rename" /\ client' = "replace" /\ UNCHANGED <<compactVars, sstVars, manifest>>
          /\ files' = WithFile(output, merged)
      BY <1>8 DEF CompactRename
    <2>2. DOMAIN files \cup {output} = DOMAIN files'
      BY <2>1 DEF WithFile
    <2>3. QED
      BY <1>0, <1>3, <2>1, <2>2 DEF FileInv, ManifestFilesExist
  <1>9. CASE CompactReplace
    <2>1. /\ client = "replace" /\ client' = "remove" /\ UNCHANGED <<inputs, files>>
      BY <1>9 DEF CompactReplace
    <2>2. inputs # <<>>
      <3>1. sstable_paths[1] \in Path /\ sstable_paths[2] \in Path
        BY <1>0, <2>1, ElementOfSeq DEF FileInv, TypeOK
      <3>2. Len(inputs) = 2
        BY <1>0, <2>1, <3>1, PairIsSeq DEF FileInv
      <3>3. QED
        BY <3>2, EmptySeq
    <2>3. QED
      BY <1>0, <1>3, <1>9, <2>1, <2>2, ReplaceLists DEF FileInv, ManifestFilesExist
  <1>10. CASE CompactRemove
    <2>1. /\ client = "remove" /\ inputs # <<>> /\ inputs \in Seq(Path)
          /\ UNCHANGED manifest /\ files' = WithoutFile(Head(inputs))
          /\ inputs' = Tail(inputs)
          /\ client' = IF Len(inputs) = 1 THEN AfterCompact ELSE "remove"
      BY <1>0, <1>10 DEF CompactRemove, TypeOK
    <2>2. Range(inputs) = {Head(inputs)} \cup Range(inputs')
      BY <2>1, RangeHeadTail
    <2>3. DOMAIN files' = DOMAIN files \ {Head(inputs)}
      BY <2>1 DEF WithoutFile
    <2>4. Range(manifest') \subseteq DOMAIN files'
      BY <1>0, <2>1, <2>2, <2>3 DEF FileInv, ManifestFilesExist
    <2>5. client' = "remove" => inputs' # <<>>
      <3>1. inputs' \in Seq(Path) /\ Len(inputs') = Len(inputs) - 1 /\ Len(inputs) \in Nat
        BY <2>1, HeadTailProperties, LenProperties
      <3>2. QED
        BY <1>5, <2>1, <3>1, EmptySeq
    <2>6. QED
      BY <1>0, <1>3, <1>5, <2>1, <2>2, <2>4, <2>5 DEF FileInv, ManifestFilesExist
  <1>11. CASE CompactFail
    <2>1. /\ UNCHANGED <<manifest, sstable_paths>> /\ client' = AfterCompact
          /\ client \in {"rename", "replace"}
          /\ files' = files \/ files' = WithoutFile(output)
      BY <1>11 DEF CompactFail
    <2>2. DOMAIN files \ {output} \subseteq DOMAIN files'
      BY <2>1 DEF WithoutFile
    <2>3. output \notin Range(manifest)
      BY <1>0, <1>4, <2>1 DEF FileInv
    <2>4. QED
      BY <1>0, <1>3, <1>5, <2>1, <2>2, <2>3 DEF FileInv, ManifestFilesExist
  <1>12. QED
    BY <1>6, <1>7, <1>8, <1>9, <1>10, <1>11

\* The files stay where they are needed.
LEMMA FileNext == StoreInv /\ [Next]_vars => FileInv'
  <1> SUFFICES ASSUME StoreInv, [Next]_vars
               PROVE  FileInv'
    OBVIOUS
  <1>0. TypeOK /\ FlightInv /\ ListInv /\ FileInv
    BY DEF StoreInv
  <1> USE DEF callVars, sstVars, compactVars, workerVars, logVars
  <1>1. ASSUME NEW k \in Key, NEW v, WriteVersion(k, v) PROVE FileInv'
    <2>1. UNCHANGED <<manifest, files, worker, task>>
      BY <1>1 DEF WriteVersion
    <2>2. client' \in {"idle", "sync"}
      BY <1>1 DEF WriteVersion, MaybeFlushMemtable, AfterWrite
    <2>3. QED
      BY <1>0, <2>1, <2>2, FileFrame
  <1>2. CASE FlushWal \/ GroupCommit
    BY <1>0, <1>2, FileFrame DEF FlushWal, GroupCommit, WalFlush
  <1>3. CASE GetAt \/ GetAtReturn \/ DrainDone
    BY <1>0, <1>3, FileFrame DEF GetAt, GetAtReturn, DrainDone
  <1>4. CASE CheckpointBegin \/ CheckpointSave \/ CheckpointRotate \/ CheckpointFail
    BY <1>0, <1>4, FileFrame DEF CheckpointBegin, CheckpointSave, CheckpointRotate,
      CheckpointFail
  <1>5. CASE CompactSkip \/ CompactMerge \/ CompactRename \/ CompactReplace
             \/ CompactRemove \/ CompactFail
    BY <1>5, FileCompact
  <1>6. CASE Open \/ OpenManifestFail
    BY <1>0, <1>6, FileFrame, Zenon DEF Open, OpenManifestFail, Recover
  <1>7. CASE OpenDone
    <2>1. UNCHANGED <<manifest, files>> /\ client' = "idle" /\ worker' = "wait"
      BY <1>7 DEF OpenDone
    <2>2. QED
      BY <1>0, <2>1 DEF FileInv, ManifestFilesExist
  <1>8. CASE Close
    BY <1>0, <1>8, FileFrame DEF Close
  <1>9. CASE CloseDone \/ Crash
    <2>1. LoseMemory /\ manifest' = manifest
      BY <1>9 DEF CloseDone, Crash
    <2>2. files' = files \/ \E c : files' = WithFile(task.path, c)
      BY <1>9 DEF CloseDone, Crash, CutShort
    <2>3. DOMAIN files \subseteq DOMAIN files'
      BY <2>2 DEF WithFile
    <2>4. QED
      BY <1>0, <2>1, <2>3 DEF LoseMemory, FileInv, ManifestFilesExist
  <1>10. CASE DrainCompletion
    BY <1>0, <1>10, FileFrame DEF DrainCompletion
  <1>11. CASE WorkerStep \/ WorkerFail
    BY <1>11, FileWorker
  <1>12. CASE UNCHANGED vars
    BY <1>0, <1>12 DEF vars, FileInv, ManifestFilesExist
  <1>13. QED
    BY <1>1, <1>2, <1>3, <1>4, <1>5, <1>6, <1>7, <1>8, <1>9, <1>10, <1>11, <1>12
      DEF Next, CallStep, Put, Del

------------------------------------------------------------------------------
(* The results. *)

\* The inductive invariant holds initially.
LEMMA InitStoreInv == Init => StoreInv
  <1> SUFFICES ASSUME Init PROVE StoreInv
    OBVIOUS
  <1>1. Range(<<>>) = {} /\ IsInjective(<<>>)
    BY DEF Range, IsInjective
  <1>2. InFlight = 0 /\ ~Busy
    BY DEF Init, InFlight, Busy
  <1>3. FlightInv
    BY <1>2 DEF Init, FlightInv, SingleFlight
  <1>4. ListInv
    BY <1>1 DEF Init, ListInv, NoDuplicates, Undrained
  <1>5. FileInv
    BY <1>1 DEF Init, FileInv, ManifestFilesExist
  <1>6. QED
    BY <1>3, <1>4, <1>5, InitTypeOK DEF StoreInv

\* Every step, whichever thread takes it, and every crash preserve it.
LEMMA NextStoreInv == StoreInv /\ [Next]_vars => StoreInv'
  BY NextTypeOK, FlightNext, ListNext, FileNext DEF StoreInv

\* StoreInv is an invariant of the store.
THEOREM StoreCorrect == Spec => []StoreInv
  BY InitStoreInv, NextStoreInv, PTL DEF Spec

\* At most one flush is ever in flight.
THEOREM FlushIsSingleFlight == Spec => []SingleFlight
  <1>1. StoreInv => SingleFlight
    BY DEF StoreInv, FlightInv
  <1>2. QED
    BY <1>1, StoreCorrect, PTL

\* The worker and the compaction never write the manifest at the same time.
THEOREM CompactionRunsAlone == Spec => []CompactionExclusive
  <1>1. StoreInv => CompactionExclusive
    BY DEF StoreInv, FlightInv, CompactionExclusive, Quiet
  <1>2. QED
    BY <1>1, StoreCorrect, PTL

\* After a crash at any step the manifest lists only files that exist.
THEOREM ManifestIsClosed == Spec => []ManifestFilesExist
  <1>1. StoreInv => ManifestFilesExist
    BY DEF StoreInv, FileInv
  <1>2. QED
    BY <1>1, StoreCorrect, PTL

\* No SSTable is ever listed twice.
THEOREM ListsHaveNoDuplicates == Spec => []NoDuplicates
  <1>1. StoreInv => NoDuplicates
    BY DEF StoreInv, ListInv
  <1>2. QED
    BY <1>1, StoreCorrect, PTL

\* A path leaves the manifest only as an input of the compaction that
\* replaces it.
THEOREM ManifestLosesOnlyInputs == Spec => ManifestKeepsFlushed
  <1> DEFINE A == \A p \in Range(manifest) \ Range(manifest') :
                    client = "replace" /\ p \in Range(inputs)
  <1>1. StoreInv /\ [Next]_vars => [A]_vars
    <2> SUFFICES ASSUME StoreInv, Next PROVE A
      OBVIOUS
    <2>1. CASE manifest' = manifest
      BY <2>1
    <2>2. CASE CompactReplace
      BY <2>2, ReplaceLists DEF CompactReplace
    <2>3. CASE WorkerAppendManifest
      <3>1. task.path \in Path /\ manifest \in Seq(Path)
        BY DEF StoreInv, TypeOK, Task
      <3>2. Range(manifest') = Range(manifest) \cup {task.path}
        BY <2>3, <3>1, RangeAppend DEF WorkerAppendManifest
      <3>3. QED
        BY <3>2
    <2>4. QED
      BY <2>1, <2>2, <2>3, Zenon DEF Next, CallStep, WorkerStep, Put, Del, WriteVersion, FlushWal,
        WalFlush, GroupCommit, GetAt, GetAtReturn, DrainCompletion, DrainDone, CompactSkip,
        CompactMerge, CompactRename, CompactRemove, CompactFail, Open, OpenManifestFail,
        Recover, OpenDone, CheckpointBegin, CheckpointSave, CheckpointRotate,
        CheckpointFail, Close, CloseDone, Crash, WorkerTake, WorkerOpenFile,
        WorkerWriteFile, WorkerLoadManifest, WorkerNotify, WorkerFail
  <1>2. QED
    BY <1>1, StoreCorrect, PTL DEF Spec, ManifestKeepsFlushed

=============================================================================
