--------------------------------- MODULE Wal ---------------------------------
(***************************************************************************)
(* The write-ahead log, class Wal: the buffer, the file and its damaged    *)
(* tails, a flush that can stop anywhere, crashes and replay.              *)
(*                                                                         *)
(* The file is a sequence of entries: a record written whole, or Torn, the *)
(* front part of a record whose writing was cut short.  Replay stops at    *)
(* the first byte that does not start a whole record with a matching CRC,  *)
(* so at the first Torn entry; that the CRC detects damage is assumed.     *)
(* A record's identity `id' stands for its type and value.                 *)
(***************************************************************************)
EXTENDS Integers, Sequences, FiniteSets, FiniteSetsExt

CONSTANTS
  Key,         \* keys
  Torn,        \* a file entry that is a cut record
  Features,    \* which of "tears", "io_faults" and "rotate" happen
  MaxRecords,  \* bound: records appended
  MaxFaults,   \* bound: failed flushes
  MaxCrashes   \* bound: crashes

Record == [seq : Nat, key : Key, id : Nat]

ASSUME WalAssumption ==
  /\ Torn \notin Record
  /\ Features \subseteq {"tears", "io_faults", "rotate"}
  /\ MaxRecords \in Nat
  /\ MaxFaults \in Nat
  /\ MaxCrashes \in Nat

VARIABLES
  fd,        \* whether fd_ is open
  buffer,    \* buffer_
  pos,       \* flush: the index of the next record to write; 0 outside flush
  file,      \* disk: the entries of the file
  durable,   \* disk: how many entries an fsync has covered
  seq,       \* KVStore::seq_
  appended,  \* records appended so far
  faults,    \* failed flushes so far
  crashes,   \* crashes so far
  log,       \* history: the records accepted and not lost in a crash
  synced     \* history: how many of them a successful flush has covered

vars == <<fd, buffer, pos, file, durable, seq, appended, faults, crashes, log,
          synced>>

\* Every variable holds a value of the type its C++ counterpart has.
TypeOK ==
  /\ fd \in BOOLEAN
  /\ buffer \in Seq(Record)
  /\ pos \in 0..(Len(buffer) + 1)
  /\ file \in Seq(Record \cup {Torn})
  /\ durable \in 0..Len(file)
  /\ seq \in Nat
  /\ appended \in Nat
  /\ faults \in Nat
  /\ crashes \in Nat
  /\ log \in Seq(Record)
  /\ synced \in 0..Len(log)

------------------------------------------------------------------------------

\* The records replay_into applies: those before the first damaged one.
Replay(entries) ==
  LET torn == {i \in DOMAIN entries : entries[i] = Torn}
  IN  SubSeq(entries, 1, IF torn = {} THEN Len(entries) ELSE Min(torn) - 1)

\* replay_into's max_seq.
MaxSeq(records) == Max({0} \cup {records[i].seq : i \in DOMAIN records})

\* KVStore::open: open the file, replay it and position at its end.  The
\* damaged tail stays in the file: truncate_to_last_good is never called.
Open ==
  /\ ~fd
  /\ fd' = TRUE
  /\ seq' = MaxSeq(Replay(file))
  /\ UNCHANGED <<buffer, pos, file, durable, appended, faults, crashes, log, synced>>

\* put or del: the next sequence number, and write_record buffers the record.
WriteRecord(k) ==
  LET record == [seq |-> seq + 1, key |-> k, id |-> appended]
  IN  /\ fd
      /\ pos = 0
      /\ appended < MaxRecords
      /\ seq' = seq + 1
      /\ appended' = appended + 1
      /\ buffer' = Append(buffer, record)
      /\ log' = Append(log, record)
      /\ UNCHANGED <<fd, pos, file, durable, faults, crashes, synced>>

\* flush with an empty buffer.
FlushEmpty == fd /\ pos = 0 /\ buffer = <<>> /\ UNCHANGED vars

\* flush begins with the first record.
FlushBegin ==
  /\ fd
  /\ pos = 0
  /\ buffer # <<>>
  /\ pos' = 1
  /\ UNCHANGED <<fd, buffer, file, durable, seq, appended, faults, crashes, log, synced>>

\* One record written whole.
FlushWrite ==
  /\ pos \in 1..Len(buffer)
  /\ file' = Append(file, buffer[pos])
  /\ pos' = pos + 1
  /\ UNCHANGED <<fd, buffer, durable, seq, appended, faults, crashes, log, synced>>

\* Mutant of FlushWriteFail: drops the buffer.
FlushWriteFailDropsBuffer ==
  /\ "io_faults" \in Features
  /\ faults < MaxFaults
  /\ pos \in 1..Len(buffer)
  /\ pos' = 0
  /\ faults' = faults + 1
  /\ buffer' = <<>>
  /\ UNCHANGED <<fd, file, durable, seq, appended, crashes, log, synced>>

\* write fails, possibly after a part of the record: return false, with the
\* buffer as it was.
FlushWriteFail ==
  /\ "io_faults" \in Features
  /\ faults < MaxFaults
  /\ pos \in 1..Len(buffer)
  /\ pos' = 0
  /\ faults' = faults + 1
  /\ \/ UNCHANGED file
     \/ "tears" \in Features /\ file' = Append(file, Torn)
  /\ UNCHANGED <<fd, buffer, durable, seq, appended, crashes, log, synced>>

\* Mutant of FlushSync: fsyncs before the last record is written.
FlushSyncEarly ==
  /\ pos \in 1..(Len(buffer) + 1)
  /\ pos' = 0
  /\ buffer' = <<>>
  /\ durable' = Len(file)
  /\ synced' = Len(log)
  /\ UNCHANGED <<fd, file, seq, appended, faults, crashes, log>>

\* Mutant of FlushSync: does not reset the position.
FlushSyncNoReset ==
  /\ pos = Len(buffer) + 1
  /\ buffer' = <<>>
  /\ durable' = Len(file)
  /\ synced' = Len(log)
  /\ UNCHANGED <<fd, pos, file, seq, appended, faults, crashes, log>>

\* fsync succeeds: the buffer is cleared.
FlushSync ==
  /\ pos = Len(buffer) + 1
  /\ pos' = 0
  /\ buffer' = <<>>
  /\ durable' = Len(file)
  /\ synced' = Len(log)
  /\ UNCHANGED <<fd, file, seq, appended, faults, crashes, log>>

\* fsync fails: return false; the next flush writes the whole buffer again.
FlushSyncFail ==
  /\ "io_faults" \in Features
  /\ faults < MaxFaults
  /\ pos = Len(buffer) + 1
  /\ pos' = 0
  /\ faults' = faults + 1
  /\ UNCHANGED <<fd, buffer, file, durable, seq, appended, crashes, log, synced>>

\* KVStore::checkpoint once its snapshot is saved: close, remove and reopen.
\* The buffer is kept.
Rotate ==
  /\ "rotate" \in Features
  /\ fd
  /\ pos = 0
  /\ file # <<>>
  /\ file' = <<>>
  /\ durable' = 0
  /\ log' = buffer
  /\ synced' = 0
  /\ UNCHANGED <<fd, buffer, pos, seq, appended, faults, crashes>>

\* The files a crash can leave: everything fsynced, and of the rest a prefix,
\* which may end within a record.
AfterCrash ==
  {SubSeq(file, 1, n) : n \in durable..Len(file)}
  \cup (IF "tears" \in Features
        THEN {Append(SubSeq(file, 1, n), Torn) : n \in durable..(Len(file) - 1)}
             \cup (IF pos \in 1..Len(buffer) THEN {Append(file, Torn)} ELSE {})
        ELSE {})

\* The process or the machine stops, at any step.
Crash ==
  /\ fd
  /\ crashes < MaxCrashes
  /\ crashes' = crashes + 1
  /\ fd' = FALSE
  /\ buffer' = <<>>
  /\ pos' = 0
  /\ seq' = 0
  /\ \E f \in AfterCrash :
       /\ file' = f
       /\ log' = Replay(f)
       /\ synced' = Min({synced, Len(Replay(f))})
  /\ UNCHANGED <<durable, appended, faults>>

Init ==
  /\ fd = FALSE
  /\ buffer = <<>>
  /\ pos = 0
  /\ file = <<>>
  /\ durable = 0
  /\ seq = 0
  /\ appended = 0
  /\ faults = 0
  /\ crashes = 0
  /\ log = <<>>
  /\ synced = 0

FlushStep == FlushBegin \/ FlushWrite \/ FlushSync

Next ==
  \/ Open
  \/ \E k \in Key : WriteRecord(k)
  \/ FlushEmpty
  \/ FlushStep
  \/ FlushWriteFail
  \/ FlushSyncFail
  \/ Rotate
  \/ Crash

Spec == Init /\ [][Next]_vars

------------------------------------------------------------------------------
(* Properties.                                                             *)

\* The last record of a key: its value after the records are applied.
Latest(records, k) ==
  LET I == {i \in DOMAIN records : records[i].key = k}
  IN  IF I = {} THEN {} ELSE {records[Max(I)].id}

SameState(s, t) == \A k \in Key : Latest(s, k) = Latest(t, k)

\* Whatever the crash, recovery finds the state as it was at some moment, and
\* no earlier than the last successful flush.
RecoversDurableState ==
  \A f \in AfterCrash :
    \E n \in synced..Len(log) : SameState(Replay(f), SubSeq(log, 1, n))

\* No record follows a damaged one.
Clean == \A i \in DOMAIN file : file[i] = Torn => i = Len(file)

\* Nothing was written after a damaged tail, and no flush has failed.
Sound == Clean /\ faults = 0

\* The same as long as that is so.
CleanRecovers == Sound => RecoversDurableState

\* A successful flush makes the file's state the store's state, even when it
\* repeats records that an earlier, failed flush had written.
FlushedIsCurrent ==
  Clean /\ pos = 0 /\ synced = Len(log) => SameState(Replay(file), log)

\* The abstract log.
DL == INSTANCE DurableLog WITH
  Record <- Record,
  log <- log,
  synced <- synced

\* As long as the file is sound, every step of the WAL is one of the abstract log: a
\* flush is atomic although it writes record by record, and a crash, torn tails
\* included, loses a suffix that no successful flush has covered.
ImplementsLog ==
  DL!Init /\ [][Sound /\ Sound' => DL!Next \/ UNCHANGED DL!vars]_vars

==============================================================================
