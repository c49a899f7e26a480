------------------------------- MODULE KVStore -------------------------------
(***************************************************************************)
(* The LSM key-value store: KVStore with its WAL, MemTable, immutable      *)
(* MemTable, background FlushWorker, SSTable files, Manifest, Compactor    *)
(* and snapshot/checkpoint, through crashes, shutdowns and reopenings.     *)
(*                                                                         *)
(* Two threads run.  The client thread is whoever holds KVStore::mu_: the  *)
(* public operations exclude each other, so at most one is in progress and *)
(* `client' is its program counter.  An operation is split into steps      *)
(* where the worker thread, or a crash, can tell the difference.  The      *)
(* worker thread is FlushWorker::run; `worker' is its program counter.     *)
(*                                                                         *)
(* Bytes are abstracted: a version is a record, a MemTable is the sequence *)
(* of its versions in insertion order, an SSTable is the set of its        *)
(* versions (the reader picks by timestamp; which of two versions of one   *)
(* key with one timestamp it returns is left open), and the MemTable's     *)
(* size is its number of versions.  The WAL is the sequence of its records *)
(* (module Wal has the file and its damaged tails).                        *)
(***************************************************************************)
EXTENDS Integers, Sequences, FiniteSets, FiniteSetsExt, Lookups

CONSTANTS
  Key,                \* keys
  Value,              \* values
  Tombstone,          \* the value of a delete's version: std::nullopt
  None,               \* what a read returns for a key that is not there
  FlushThreshold,     \* kMemTableFlushThresholdBytes, in versions
  CompactionTrigger,  \* kCompactionTrigger
  GroupCommitEvery,   \* group_commit_every_
  Features,           \* which of "crash", "shutdown", "checkpoint" and
                      \* "io_faults" happen
  MaxSeq,             \* bound: timestamps handed out
  MaxRestarts         \* bound: crashes and shutdowns

ASSUME StoreAssumption ==
  /\ Tombstone \notin Value
  /\ None \notin Value
  /\ FlushThreshold \in Nat \ {0}
  /\ CompactionTrigger \in Nat \ {0, 1}
  /\ GroupCommitEvery \in Nat \ {0}
  /\ Features \subseteq {"crash", "shutdown", "checkpoint", "io_faults"}
  /\ MaxSeq \in Nat
  /\ MaxRestarts \in Nat

VARIABLES
  client,           \* program counter of the operation that holds mu_
  seq,              \* seq_
  map,              \* map_: the latest-value view
  memtable,         \* memtable_
  immutable,        \* immutable_memtable_: {} for nullopt, {e} for e
  sstable_paths,    \* sstable_paths_
  next_sstable_id,  \* next_sstable_id_
  buffer,           \* Wal::buffer_
  output,           \* maybe_compact: the output path
  merged,           \* maybe_compact: the contents of the temporary file
  inputs,           \* maybe_compact: the inputs still to be removed
  worker,           \* program counter of FlushWorker::run
  tasks,            \* FlushWorker::tasks_
  task,             \* run's local task
  completions,      \* FlushWorker::completions_
  wal,              \* disk: the WAL's records
  snapshot,         \* disk: the snapshot's versions
  manifest,         \* disk: the manifest's lines
  files,            \* disk: the versions in each SSTable file that exists
  restarts,         \* crashes and shutdowns so far
  rotated           \* history: WAL records deleted by checkpoints

callVars == <<seq, map, memtable, buffer>>
sstVars == <<immutable, sstable_paths, next_sstable_id>>
compactVars == <<output, merged, inputs>>
workerVars == <<worker, tasks, task, completions>>
logVars == <<wal, snapshot, rotated>>
vars == <<client, callVars, sstVars, compactVars, workerVars, logVars,
          manifest, files, restarts>>

Version == [key : Key, ts : Nat, val : Value \cup {Tombstone}]
Path == {"flushed", "compacted"} \X Nat
Task == [path : Path, entries : SUBSET Version]

NoPath == <<"flushed", 0>>
NoTask == [path |-> NoPath, entries |-> {}]

ClientStates ==
  {"closed", "idle", "sync", "drain", "drain_added", "compact", "rename",
   "replace", "remove", "start", "read", "snapshot", "rotate", "closing"}
WorkerStates ==
  {"off", "wait", "write", "writing", "append", "appending", "notify"}

\* Every variable holds a value of the type its C++ counterpart has.
TypeOK ==
  /\ client \in ClientStates
  /\ seq \in Nat
  /\ map \in [Key -> Value \cup {None}]
  /\ memtable \in Seq(Version)
  /\ immutable \in SUBSET Seq(Version)
  /\ sstable_paths \in Seq(Path)
  /\ next_sstable_id \in Nat
  /\ buffer \in Seq(Version)
  /\ output \in Path
  /\ merged \in SUBSET Version
  /\ inputs \in Seq(Path)
  /\ worker \in WorkerStates
  /\ tasks \in Seq(Task)
  /\ task \in Task
  /\ completions \in Seq(Path)
  /\ wal \in Seq(Version)
  /\ snapshot \in Seq(Version)
  /\ manifest \in Seq(Path)
  /\ DOMAIN files \subseteq Path
  /\ \A p \in DOMAIN files : files[p] \in SUBSET Version
  /\ restarts \in Nat
  /\ rotated \in Seq(Version)

------------------------------------------------------------------------------
(* Lookups, on the operators of module Lookups.                            *)

\* What a reader finds at a path; a file that cannot be opened holds nothing.
Contents(p) == IF p \in DOMAIN files THEN files[p] ELSE {}

\* The layers in the order KVStore::get_at asks them.
Layers(k, ts) ==
  LET n == Len(sstable_paths)
  IN  <<EntriesGetAt(memtable, k, ts),
        UNION {EntriesGetAt(e, k, ts) : e \in immutable}>>
      \o [i \in 1..n |-> SSTableGetAt(Contents(sstable_paths[n + 1 - i]), k, ts)]

\* Mutant of Lookup: asks the oldest layer first.
LookupOldest(k, ts) ==
  LET layers == Layers(k, ts)
      hits == {i \in DOMAIN layers : layers[i] # {}}
  IN  IF hits = {} THEN {None}
      ELSE {IF v = Tombstone THEN None ELSE v : v \in layers[Max(hits)]}

\* KVStore::get_at after its drain: the first layer with an answer decides.
Lookup(k, ts) ==
  LET layers == Layers(k, ts)
      hits == {i \in DOMAIN layers : layers[i] # {}}
  IN  IF hits = {} THEN {None}
      ELSE {IF v = Tombstone THEN None ELSE v : v \in layers[Min(hits)]}

\* What applying the records in order leaves in map_ for a key.
Replayed(recs, k) ==
  LET I == {i \in DOMAIN recs : recs[i].key = k}
  IN  IF I = {} \/ recs[Max(I)].val = Tombstone
      THEN None ELSE recs[Max(I)].val

\* Wal::replay_into's max_seq.
MaxSeqs(recs) == Largest({0} \cup {recs[i].ts : i \in DOMAIN recs})

------------------------------------------------------------------------------
(* The SSTable files after one is written and after one is removed.        *)

WithFile(p, versions) ==
  [q \in DOMAIN files \cup {p} |-> IF q = p THEN versions ELSE files[q]]

WithoutFile(p) == [q \in DOMAIN files \ {p} |-> files[q]]

------------------------------------------------------------------------------
(* Writing: put and del.                                                   *)

\* The periodic durability boundary at the end of put and del.
AfterWrite(s) == IF s % GroupCommitEvery = 0 THEN "sync" ELSE "idle"

\* Mutant of MaybeFlushMemtable: does not look at immutable_memtable_.
FlushWhilePending(mem, s) ==
  \/ /\ Len(mem) < FlushThreshold
     /\ memtable' = mem
     /\ client' = AfterWrite(s)
     /\ UNCHANGED <<immutable, next_sstable_id, tasks>>
  \/ /\ Len(mem) >= FlushThreshold
     /\ memtable' = <<>>
     /\ immutable' = {<<>>}
     /\ next_sstable_id' = next_sstable_id + 1
     /\ client' = AfterWrite(s)
     /\ tasks' = Append(tasks, [path |-> <<"flushed", next_sstable_id>>,
                                entries |-> Range(mem)])

\* maybe_flush_memtable_unlocked on the MemTable `mem', with its caller's
\* early return: below the threshold; full while a flush is pending, which
\* returns before the group commit; or rotated into a flush task.  Moving the
\* entries into the task leaves immutable_memtable_ with a value, but an empty
\* one.  A worker that was never started refuses the task, and the entries,
\* already moved into enqueue's parameter, are gone.
MaybeFlushMemtable(mem, s) ==
  \/ /\ Len(mem) < FlushThreshold
     /\ memtable' = mem
     /\ client' = AfterWrite(s)
     /\ UNCHANGED <<immutable, next_sstable_id, tasks>>
  \/ /\ Len(mem) >= FlushThreshold
     /\ immutable # {}
     /\ memtable' = mem
     /\ client' = "idle"
     /\ UNCHANGED <<immutable, next_sstable_id, tasks>>
  \/ /\ Len(mem) >= FlushThreshold
     /\ immutable = {}
     /\ memtable' = <<>>
     /\ immutable' = {<<>>}
     /\ next_sstable_id' = next_sstable_id + 1
     /\ IF worker = "off"
        THEN client' = "idle" /\ UNCHANGED tasks
        ELSE /\ client' = AfterWrite(s)
             /\ tasks' = Append(tasks, [path |-> <<"flushed", next_sstable_id>>,
                                        entries |-> Range(mem)])

\* The common part of put and del: assign a timestamp, buffer the WAL record,
\* add the version to the MemTable, rotate it if it is full.
WriteVersion(k, v) ==
  LET version == [key |-> k, ts |-> seq + 1, val |-> v]
  IN  /\ client = "idle"
      /\ seq < MaxSeq
      /\ seq' = seq + 1
      /\ buffer' = Append(buffer, version)
      /\ MaybeFlushMemtable(Append(memtable, version), seq + 1)
      /\ UNCHANGED <<sstable_paths, compactVars, worker, task, completions,
                     logVars, manifest, files, restarts>>

Put(k, v) ==
  /\ WriteVersion(k, v)
  /\ map' = [map EXCEPT ![k] = v]

Del(k) ==
  /\ map[k] # None
  /\ WriteVersion(k, Tombstone)
  /\ map' = [map EXCEPT ![k] = None]

\* Mutant of WalFlush: stops before the last record.
WalFlushShort ==
  /\ wal' = wal \o SubSeq(buffer, 1, Len(buffer) - 1)
  /\ buffer' = <<>>
  /\ UNCHANGED <<seq, map, memtable, sstVars, compactVars, workerVars,
                 snapshot, rotated, manifest, files, restarts>>

\* Wal::flush, succeeding: every buffered record is written and fsynced.
WalFlush ==
  /\ wal' = wal \o buffer
  /\ buffer' = <<>>
  /\ UNCHANGED <<seq, map, memtable, sstVars, compactVars, workerVars,
                 snapshot, rotated, manifest, files, restarts>>

\* The group commit of the put or del in progress.
GroupCommit == client = "sync" /\ client' = "idle" /\ WalFlush

\* KVStore::flush_wal.
FlushWal == client = "idle" /\ buffer # <<>> /\ UNCHANGED client /\ WalFlush

------------------------------------------------------------------------------
(* Reading: get_at consumes the worker's completions before it looks.      *)

GetAt ==
  /\ client = "idle"
  /\ client' = "drain"
  /\ UNCHANGED <<callVars, sstVars, compactVars, workerVars, logVars,
                 manifest, files, restarts>>

\* One round of drain_completed_flushes_unlocked's loop.
DrainCompletion ==
  LET path == Head(completions)
      added == path \notin Range(sstable_paths)
  IN  /\ client \in {"drain", "drain_added"}
      /\ completions # <<>>
      /\ completions' = Tail(completions)
      /\ immutable' = {}
      /\ sstable_paths' = IF added THEN Append(sstable_paths, path)
                          ELSE sstable_paths
      /\ client' = IF added THEN "drain_added" ELSE client
      /\ UNCHANGED <<callVars, next_sstable_id, compactVars, worker, tasks, task,
                     logVars, manifest, files, restarts>>

\* Mutant of DrainDone: keeps polling.
DrainForever ==
  /\ client \in {"drain", "drain_added"}
  /\ completions = <<>>
  /\ UNCHANGED vars

\* poll_completion finds nothing more: compact if a path was added.
DrainDone ==
  /\ client \in {"drain", "drain_added"}
  /\ completions = <<>>
  /\ client' = IF client = "drain_added" THEN "compact" ELSE "read"
  /\ UNCHANGED <<callVars, sstVars, compactVars, workerVars, logVars,
                 manifest, files, restarts>>

\* The lookup itself changes nothing; its result is Lookup(k, ts) here.
GetAtReturn ==
  /\ client = "read"
  /\ client' = "idle"
  /\ UNCHANGED <<callVars, sstVars, compactVars, workerVars, logVars,
                 manifest, files, restarts>>

------------------------------------------------------------------------------
(* Compaction: maybe_compact_sstables_unlocked, called by the drain and by *)
(* open, where the worker has not been started yet.                        *)

AfterCompact == IF worker = "off" THEN "start" ELSE "read"

\* The do-while loop stops at the first identifier, from next_sstable_id_ on,
\* whose path is not in sstable_paths_.
IsOutputId(id) ==
  /\ <<"compacted", id>> \notin Range(sstable_paths)
  /\ \A i \in next_sstable_id..(id - 1) :
       <<"compacted", i>> \in Range(sstable_paths)

\* Mutant of UpdatedPaths: copies from the fourth path on.
UpdatedPathsShort == <<output>> \o SubSeq(sstable_paths, 4, Len(sstable_paths))

UpdatedPaths == <<output>> \o SubSeq(sstable_paths, 3, Len(sstable_paths))

\* Too few SSTables: nothing to do.
CompactSkip ==
  /\ client = "compact"
  /\ Len(sstable_paths) < CompactionTrigger
  /\ client' = AfterCompact
  /\ UNCHANGED <<callVars, sstVars, compactVars, workerVars, logVars,
                 manifest, files, restarts>>

\* Pick the output's name and merge the two oldest SSTables into its
\* temporary file.  (The branch for two equal paths is left out: NoDuplicates
\* shows that it is never taken.)
CompactMerge ==
  LET first == sstable_paths[1]
      second == sstable_paths[2]
  IN  /\ client = "compact"
      /\ Len(sstable_paths) >= CompactionTrigger
      /\ \E id \in next_sstable_id..(next_sstable_id + Len(sstable_paths)) :
           /\ IsOutputId(id)
           /\ next_sstable_id' = id + 1
           /\ IF {first, second} \subseteq DOMAIN files
              THEN /\ output' = <<"compacted", id>>
                   /\ merged' \in Merges(files[first] \cup files[second])
                   /\ inputs' = <<first, second>>
                   /\ client' = "rename"
              ELSE client' = AfterCompact /\ UNCHANGED compactVars
      /\ UNCHANGED <<callVars, immutable, sstable_paths, workerVars, logVars,
                     manifest, files, restarts>>

\* Mutant of CompactRename: goes on although the rename failed.
CompactRenameIgnored ==
  /\ client = "rename"
  /\ client' = "replace"
  /\ UNCHANGED <<callVars, sstVars, compactVars, workerVars, logVars,
                 manifest, files, restarts>>

CompactRename ==
  /\ client = "rename"
  /\ files' = WithFile(output, merged)
  /\ client' = "replace"
  /\ UNCHANGED <<callVars, sstVars, compactVars, workerVars, logVars,
                 manifest, restarts>>

\* Manifest::replace_sstables is atomic (temporary file and rename); then the
\* in-memory list is published.
CompactReplace ==
  /\ client = "replace"
  /\ manifest' = UpdatedPaths
  /\ sstable_paths' = UpdatedPaths
  /\ client' = "remove"
  /\ output' = NoPath
  /\ merged' = {}
  /\ UNCHANGED <<callVars, immutable, next_sstable_id, inputs, workerVars,
                 logVars, files, restarts>>

CompactRemove ==
  /\ client = "remove"
  /\ inputs # <<>>
  /\ files' = WithoutFile(Head(inputs))
  /\ inputs' = Tail(inputs)
  /\ client' = IF Len(inputs) = 1 THEN AfterCompact ELSE "remove"
  /\ UNCHANGED <<callVars, sstVars, output, merged, workerVars, logVars,
                 manifest, restarts>>

\* Mutant of CompactFail: removes an input.
CompactFailRemovesInput ==
  /\ "io_faults" \in Features
  /\ client \in {"rename", "replace"}
  /\ files' = WithoutFile(Head(inputs))
  /\ client' = AfterCompact
  /\ output' = NoPath
  /\ merged' = {}
  /\ inputs' = <<>>
  /\ UNCHANGED <<callVars, sstVars, workerVars, logVars, manifest, restarts>>

\* The temporary file cannot be written or renamed, or the manifest cannot be
\* replaced, in which case the output is removed again.
CompactFail ==
  /\ "io_faults" \in Features
  /\ client \in {"rename", "replace"}
  /\ files' = IF client = "replace" THEN WithoutFile(output) ELSE files
  /\ client' = AfterCompact
  /\ output' = NoPath
  /\ merged' = {}
  /\ inputs' = <<>>
  /\ UNCHANGED <<callVars, sstVars, workerVars, logVars, manifest, restarts>>

------------------------------------------------------------------------------
(* FlushWorker::run.                                                       *)

\* Mutant of WorkerTake: the wake-up for a single task is missed.
WorkerTakeMissed ==
  /\ worker = "wait"
  /\ Len(tasks) > 1
  /\ task' = Head(tasks)
  /\ tasks' = Tail(tasks)
  /\ worker' = "write"
  /\ UNCHANGED <<client, callVars, sstVars, compactVars, completions, logVars,
                 manifest, files, restarts>>

WorkerTake ==
  /\ worker = "wait"
  /\ tasks # <<>>
  /\ task' = Head(tasks)
  /\ tasks' = Tail(tasks)
  /\ worker' = "write"
  /\ UNCHANGED <<client, callVars, sstVars, compactVars, completions, logVars,
                 manifest, files, restarts>>

\* SSTableWriter::write opens the file, which truncates it...
WorkerOpenFile ==
  /\ worker = "write"
  /\ files' = WithFile(task.path, {})
  /\ worker' = "writing"
  /\ UNCHANGED <<client, callVars, sstVars, compactVars, tasks, task,
                 completions, logVars, manifest, restarts>>

\* ... and writes every version.
WorkerWriteFile ==
  /\ worker = "writing"
  /\ files' = WithFile(task.path, task.entries)
  /\ worker' = "append"
  /\ UNCHANGED <<client, callVars, sstVars, compactVars, tasks, task,
                 completions, logVars, manifest, restarts>>

\* Mutant of WorkerLoadManifest: appends without looking.
WorkerAppendAlways ==
  /\ worker = "append"
  /\ worker' = "appending"
  /\ UNCHANGED <<client, callVars, sstVars, compactVars, tasks, task,
                 completions, logVars, manifest, files, restarts>>

\* Manifest::append_sstable reads the manifest first...
WorkerLoadManifest ==
  /\ worker = "append"
  /\ worker' = IF task.path \in Range(manifest) THEN "notify" ELSE "appending"
  /\ UNCHANGED <<client, callVars, sstVars, compactVars, tasks, task,
                 completions, logVars, manifest, files, restarts>>

\* ... and appends a path it did not find.
WorkerAppendManifest ==
  /\ worker = "appending"
  /\ manifest' = Append(manifest, task.path)
  /\ worker' = "notify"
  /\ UNCHANGED <<client, callVars, sstVars, compactVars, tasks, task,
                 completions, logVars, files, restarts>>

WorkerNotify ==
  /\ worker = "notify"
  /\ completions' = Append(completions, task.path)
  /\ task' = NoTask
  /\ worker' = "wait"
  /\ UNCHANGED <<client, callVars, sstVars, compactVars, tasks, logVars,
                 manifest, files, restarts>>

\* The versions on disk if the file being written is cut short.
CutShort ==
  IF worker = "writing"
  THEN {WithFile(task.path, part) : part \in SUBSET task.entries}
  ELSE {files}

\* A failed write or manifest append: `continue', with no completion.
WorkerFail ==
  /\ "io_faults" \in Features
  /\ worker \in {"write", "writing", "append", "appending"}
  /\ files' \in CutShort
  /\ task' = NoTask
  /\ worker' = "wait"
  /\ UNCHANGED <<client, callVars, sstVars, compactVars, tasks, completions,
                 logVars, manifest, restarts>>

------------------------------------------------------------------------------
(* Opening, checkpointing, closing and crashing.                           *)

\* The snapshot and then the WAL, applied in order to map_ and memtable_.
Recovered == snapshot \o wal

\* open up to the manifest: seq_ becomes the WAL's max_seq, whatever the
\* snapshot's timestamps were.
Recover ==
  /\ client = "closed"
  /\ seq' \in MaxSeqs(wal)
  /\ map' = [k \in Key |-> Replayed(Recovered, k)]
  /\ memtable' = Recovered
  /\ UNCHANGED <<immutable, buffer, compactVars, workerVars, logVars,
                 manifest, files, restarts>>

\* open: load the manifest and continue with the startup compaction.
Open ==
  /\ Recover
  /\ sstable_paths' = manifest
  /\ next_sstable_id' \in Largest({0} \cup {p[2] + 1 : p \in Range(manifest)})
  /\ client' = "compact"

\* open fails on the manifest, after opened_ was set: the store takes
\* operations without SSTables and without a worker.
OpenManifestFail ==
  /\ "io_faults" \in Features
  /\ Recover
  /\ client' = "idle"
  /\ UNCHANGED <<sstable_paths, next_sstable_id>>

\* Mutant of OpenDone: the last used identifier, an underflow for no SSTable.
OpenDoneLastId ==
  /\ client = "start"
  /\ client' = "idle"
  /\ worker' = "wait"
  /\ next_sstable_id' = Len(sstable_paths) - 1
  /\ UNCHANGED <<callVars, immutable, sstable_paths, compactVars, tasks, task,
                 completions, logVars, manifest, files, restarts>>

\* The end of open: the worker starts, and next_sstable_id_ is set again.
OpenDone ==
  /\ client = "start"
  /\ client' = "idle"
  /\ worker' = "wait"
  /\ next_sstable_id' = Len(sstable_paths)
  /\ UNCHANGED <<callVars, immutable, sstable_paths, compactVars, tasks, task,
                 completions, logVars, manifest, files, restarts>>

\* Mutant of CheckpointBegin: rotates the WAL before the snapshot is saved.
CheckpointRotatesFirst ==
  /\ "checkpoint" \in Features
  /\ client = "idle"
  /\ client' = "rotate"
  /\ snapshot' = <<>>
  /\ UNCHANGED <<callVars, sstVars, compactVars, workerVars, wal, rotated,
                 manifest, files, restarts>>

\* checkpoint: truncate the snapshot file...
CheckpointBegin ==
  /\ "checkpoint" \in Features
  /\ client = "idle"
  /\ client' = "snapshot"
  /\ snapshot' = <<>>
  /\ UNCHANGED <<callVars, sstVars, compactVars, workerVars, wal, rotated,
                 manifest, files, restarts>>

\* ... write the active MemTable to it...
CheckpointSave ==
  /\ client = "snapshot"
  /\ client' = "rotate"
  /\ snapshot' = memtable
  /\ UNCHANGED <<callVars, sstVars, compactVars, workerVars, wal, rotated,
                 manifest, files, restarts>>

\* ... and start a new WAL.  The records in Wal::buffer_ stay there.
CheckpointRotate ==
  /\ client = "rotate"
  /\ client' = "idle"
  /\ wal' = <<>>
  /\ rotated' = rotated \o wal
  /\ UNCHANGED <<callVars, sstVars, compactVars, workerVars, snapshot,
                 manifest, files, restarts>>

\* Where save_to_file_unlocked may stop: it writes key after key, in the keys'
\* order, which is left open here, and a key's versions from the oldest on.
SavedFirst(n, f) ==
  LET saved == {f[i] : i \in 1..n}
      cut == {memtable[i].key : i \in saved}
             \cap {memtable[i].key : i \in DOMAIN memtable \ saved}
  IN  /\ \A i, j \in 1..n : i < j => f[i] < f[j]
      /\ \A j \in saved : \A i \in 1..j : memtable[i].key = memtable[j].key => i \in saved
      /\ Cardinality(cut) <= 1

SaveCutShort ==
  \E n \in 0..Len(memtable) : \E f \in [1..n -> DOMAIN memtable] :
    /\ SavedFirst(n, f)
    /\ snapshot' = [i \in 1..n |-> memtable[f[i]]]

\* save_to_file_unlocked fails: the WAL is kept, the old snapshot is not.
CheckpointFail ==
  /\ "io_faults" \in Features
  /\ client = "snapshot"
  /\ client' = "idle"
  /\ SaveCutShort
  /\ UNCHANGED <<callVars, sstVars, compactVars, workerVars, wal, rotated,
                 manifest, files, restarts>>

\* The process is gone: what is left is what a new KVStore starts with.
LoseMemory ==
  /\ client' = "closed"
  /\ seq' = 0
  /\ map' = [k \in Key |-> None]
  /\ memtable' = <<>>
  /\ immutable' = {}
  /\ sstable_paths' = <<>>
  /\ next_sstable_id' = 0
  /\ buffer' = <<>>
  /\ output' = NoPath
  /\ merged' = {}
  /\ inputs' = <<>>
  /\ worker' = "off"
  /\ tasks' = <<>>
  /\ task' = NoTask
  /\ completions' = <<>>

\* ~KVStore: wal_ goes first, with what it has buffered, then ~FlushWorker
\* waits for the worker to finish what is queued.
Close ==
  /\ "shutdown" \in Features
  /\ client = "idle"
  /\ restarts < MaxRestarts
  /\ client' = "closing"
  /\ buffer' = <<>>
  /\ UNCHANGED <<seq, map, memtable, sstVars, compactVars, workerVars, logVars,
                 manifest, files, restarts>>

CloseDone ==
  /\ client = "closing"
  /\ tasks = <<>>
  /\ worker \in {"off", "wait"}
  /\ LoseMemory
  /\ restarts' = restarts + 1
  /\ UNCHANGED <<logVars, manifest, files>>

\* A crash of the process at any step.  In flush_wal and in a group commit
\* some of the buffered records may have reached the file; a snapshot or an
\* SSTable being written may be cut short.
Crash ==
  /\ "crash" \in Features
  /\ client # "closed"
  /\ restarts < MaxRestarts
  /\ \E n \in 0..Len(buffer) :
       /\ n > 0 => client \in {"idle", "sync"}
       /\ wal' = wal \o SubSeq(buffer, 1, n)
  /\ IF client = "snapshot" THEN SaveCutShort ELSE UNCHANGED snapshot
  /\ files' \in CutShort
  /\ LoseMemory
  /\ restarts' = restarts + 1
  /\ UNCHANGED <<rotated, manifest>>

------------------------------------------------------------------------------

Init ==
  /\ client = "closed"
  /\ seq = 0
  /\ map = [k \in Key |-> None]
  /\ memtable = <<>>
  /\ immutable = {}
  /\ sstable_paths = <<>>
  /\ next_sstable_id = 0
  /\ buffer = <<>>
  /\ output = NoPath
  /\ merged = {}
  /\ inputs = <<>>
  /\ worker = "off"
  /\ tasks = <<>>
  /\ task = NoTask
  /\ completions = <<>>
  /\ wal = <<>>
  /\ snapshot = <<>>
  /\ manifest = <<>>
  /\ files = [p \in {} |-> {}]
  /\ restarts = 0
  /\ rotated = <<>>

WorkerStep ==
  \/ WorkerTake
  \/ WorkerOpenFile
  \/ WorkerWriteFile
  \/ WorkerLoadManifest
  \/ WorkerAppendManifest
  \/ WorkerNotify

\* The steps of an operation that has been called.
CallStep ==
  \/ GroupCommit
  \/ DrainCompletion
  \/ DrainDone
  \/ GetAtReturn
  \/ CompactSkip
  \/ CompactMerge
  \/ CompactRename
  \/ CompactReplace
  \/ CompactRemove
  \/ OpenDone
  \/ CheckpointSave
  \/ CheckpointRotate
  \/ CloseDone

Next ==
  \/ \E k \in Key, v \in Value : Put(k, v)
  \/ \E k \in Key : Del(k)
  \/ FlushWal
  \/ GetAt
  \/ Open
  \/ OpenManifestFail
  \/ CheckpointBegin
  \/ Close
  \/ CallStep
  \/ CompactFail
  \/ CheckpointFail
  \/ WorkerStep
  \/ WorkerFail
  \/ Crash

Spec == Init /\ [][Next]_vars

\* The operating system runs the worker, and an operation that holds mu_
\* returns; nobody has to call an operation.
Fairness == WF_vars(WorkerStep) /\ WF_vars(CallStep)

FairSpec == Spec /\ Fairness

------------------------------------------------------------------------------
(* Properties.                                                             *)

Busy == worker \in {"write", "writing", "append", "appending", "notify"}

\* Flush tasks queued, running or completed and not yet drained.
InFlight == Len(tasks) + (IF Busy THEN 1 ELSE 0) + Len(completions)

\* The store is open and between operations or in one.
Opened == client \notin {"closed", "closing"}

\* Everything logged since the store was created, but for what crashes lost.
History == rotated \o wal \o buffer

\* At most one flush is queued, running or waiting to be drained, and while
\* one is, immutable_memtable_ has a value: the one-slot handshake between
\* maybe_flush_memtable_unlocked, FlushWorker::run and the drain.
SingleFlight == InFlight <= 1 /\ (InFlight = 1 => immutable # {})

\* While a compaction reads SSTables, replaces the manifest and removes files,
\* no flush is in flight: the manifest, which the worker and the compaction
\* write under different locks, never has two writers.
CompactionExclusive ==
  client \in {"compact", "rename", "replace", "remove"} => InFlight = 0

\* At every step, and so after a crash at any step, each SSTable the manifest
\* lists is there: files are written before they are listed and removed after.
ManifestFilesExist == Range(manifest) \subseteq DOMAIN files

\* No SSTable is listed twice, in memory or in the manifest, so the compaction
\* never meets two equal inputs and never removes its own remaining input.
NoDuplicates == IsInjective(sstable_paths) /\ IsInjective(manifest)

\* Only a compaction takes paths out of the manifest, and only its two inputs:
\* replacing the manifest by the in-memory list never loses a path that the
\* worker appended.
ManifestKeepsFlushed ==
  [][\A p \in Range(manifest) \ Range(manifest') :
       client = "replace" /\ p \in Range(inputs)]_vars

\* Every version of the history is in the MemTable, on its way to an SSTable,
\* or in an SSTable of the list: rotation, flush, compaction and restart lose
\* none.
NoVersionLost ==
  client \notin {"closed", "closing"} =>
    Range(History) \subseteq
      Range(memtable)
      \cup UNION {t.entries : t \in Range(tasks) \cup {task}}
      \cup UNION {Contents(p) : p \in Range(sstable_paths) \cup Range(completions)}

\* get answers from the history: map_ is what the log, replayed, gives.
GetSeesHistory == Opened => \A k \in Key : map[k] = Replayed(History, k)

\* What the records, applied in order, leave in map_, as a function on its keys.
Applied(recs) ==
  LET last == {i \in DOMAIN recs :
                 \A j \in DOMAIN recs : j > i => recs[j].key # recs[i].key}
      live == {recs[i] : i \in {x \in last : recs[x].val # Tombstone}}
  IN  [k \in {r.key : r \in live} |-> (CHOOSE r \in live : r.key = k).val]

\* A closed store stands for what opening it will find.  A crash keeps the WAL, and of
\* the buffer as much as a flush has written.
Contract == INSTANCE DurableMap WITH
  Key <- Key,
  Value <- Value,
  map <- IF ~Opened THEN Applied(Recovered)
         ELSE [k \in {x \in Key : map[x] # None} |-> map[k]],
  survivors <- {Applied(Recovered \o SubSeq(buffer, 1, n)) : n \in 0..Len(buffer)}

\* Without checkpoints put, del, get and flush_wal are those of a durable map, through
\* flushes, compactions, crashes and failing file operations.
ImplementsMap == Contract!Spec

\* get_at answers from the history, at every timestamp up to now, when no
\* flush is pending: layers are asked newest first and none shadows a newer.
GetAtSeesHistory ==
  client = "read" /\ immutable = {} =>
    \A k \in Key, ts \in 0..seq :
      Lookup(k, ts) = {Replayed(SelectSeq(History, LAMBDA v : v.ts <= ts), k)}

\* The same with a flush pending: the data being flushed stays visible.
NoVisibilityGap ==
  client = "read" => \A k \in Key : Lookup(k, seq) = {map[k]}

\* A key that was put and logged durably, and never deleted, is found by get
\* after any number of checkpoints and restarts.
DurableKeysFound ==
  Opened => \A k \in Key :
    LET records == Range(rotated \o wal \o snapshot \o buffer)
    IN  /\ \E v \in Range(rotated \o wal) : v.key = k
        /\ \A v \in records : v.key = k => v.val # Tombstone
        => map[k] # None

\* Once a checkpoint has rotated the WAL, recovery still finds the current value
\* of every key with a version in the active MemTable, logged or not: the
\* snapshot is complete before the WAL is deleted.
CheckpointKeepsMemTable ==
  [][client = "rotate" /\ client' = "idle" =>
       \A v \in Range(memtable) :
         Replayed(snapshot' \o wal', v.key) = map[v.key]]_vars

\* A flush never writes to an SSTable that the manifest lists.
FlushPathFresh == Busy /\ worker # "notify" => task.path \notin Range(manifest)

\* Whatever is queued gets flushed, listed in the manifest and reported.
FlushCompletes == tasks # <<>> ~> (tasks = <<>> /\ ~Busy)

\* An operation that takes mu_ gives it back, compactions included.
CallReturns == client \in {"drain", "compact"} ~> client = "idle"

------------------------------------------------------------------------------
(* The inductive invariant behind SingleFlight, CompactionExclusive,       *)
(* ManifestFilesExist, NoDuplicates and ManifestKeepsFlushed.              *)

\* From the first drained completion to the end of a compaction, and in open,
\* the client knows that no flush is in flight.
Quiet == {"closed", "drain_added", "compact", "rename", "replace", "remove",
          "start"}

\* The flush handshake.
FlightInv ==
  /\ SingleFlight
  /\ client \in Quiet => InFlight = 0
  /\ worker = "off" => InFlight = 0
  /\ client \in {"closed", "start"} => worker = "off"
  /\ client = "drain_added" => worker # "off"

\* The paths that reached the manifest and are not drained yet.
Undrained ==
  Range(completions) \cup (IF worker = "notify" THEN {task.path} ELSE {})

\* The in-memory list and the manifest differ by the flush in flight only;
\* a store that was opened without its manifest never compacts.
ListInv ==
  /\ Range(sstable_paths) \cup Undrained \subseteq Range(manifest)
  /\ worker # "off" \/ client \in {"compact", "rename", "replace", "remove", "start"}
       => Range(manifest) \subseteq Range(sstable_paths) \cup Undrained
  /\ worker = "appending" => task.path \notin Range(manifest)
  /\ NoDuplicates

\* Files outlive their listing, and the compaction's output and inputs are
\* where its current step needs them.
FileInv ==
  /\ ManifestFilesExist
  /\ worker \in {"writing", "append", "appending"} => task.path \in DOMAIN files
  /\ client \in {"rename", "replace"} =>
       /\ Len(sstable_paths) >= 2
       /\ inputs = <<sstable_paths[1], sstable_paths[2]>>
       /\ output \notin Range(sstable_paths)
  /\ client = "replace" => output \in DOMAIN files
  /\ client = "remove" => inputs # <<>> /\ Range(inputs) \cap Range(manifest) = {}

StoreInv == TypeOK /\ FlightInv /\ ListInv /\ FileInv

====
