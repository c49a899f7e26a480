------------------------------- MODULE SSTable -------------------------------
(***************************************************************************)
(* The SSTable file and the algorithms around it: SSTableWriter::write,    *)
(* SSTableIndex, BloomFilter, SSTableReader::get_at and Compactor::compact *)
(* row by row.  Module KVStore abstracts a file to the set of its versions *)
(* and a read to SSTableGetAt; here the two are shown to agree.            *)
(*                                                                         *)
(* A file is a sequence of rows.  Keys are numbers, for their order.  A    *)
(* value is a sequence of characters, because reading a row back skips     *)
(* leading blanks.  A byte offset is a row number.                         *)
(***************************************************************************)
EXTENDS Integers, Sequences, FiniteSets, SequencesExt, Lookups

CONSTANTS
  MaxKey,       \* keys are 1..MaxKey
  Value,        \* values: sequences of characters
  Blank,        \* the white-space character
  Tombstone,    \* the value of a delete's version: std::nullopt
  Stride,       \* stride_: the index has an entry every so many rows
  BitCount,     \* bit_count_
  Hashes,       \* hash_with_seed for each of the seeds: functions on keys
  Steps,        \* by how much the timestamp of the next version may grow
  MaxVersions   \* bound: versions written

Keys == 1..MaxKey

ASSUME TableAssumption ==
  /\ MaxKey \in Nat
  /\ Tombstone \notin Value
  /\ Stride \in Nat \ {0}
  /\ BitCount \in Nat \ {0}
  /\ \A h \in Hashes : h \in [Keys -> Nat]
  /\ Steps \subseteq Nat
  /\ MaxVersions \in Nat

VARIABLES
  seq,       \* the last timestamp
  entries,   \* the MemTable's versions, in insertion order
  tables,    \* the SSTable files, oldest first
  written    \* versions written so far

vars == <<seq, entries, tables, written>>

Version == [key : Keys, ts : Nat, val : Seq(UNION {Range(v) : v \in Value}) \cup {Tombstone}]

\* Versions and rows have keys, timestamps and values.
TypeOK ==
  /\ seq \in Nat
  /\ entries \in Seq(Version)
  /\ tables \in Seq(Seq(Version))
  /\ written \in Nat

------------------------------------------------------------------------------
(* Writing.                                                                *)

\* Mutant of Rows: writes the versions as they came.
RowsUnsorted(versions) == versions

\* SSTableWriter::write: entries is a map, so key after key in the order of
\* the keys, and the versions of a key as the MemTable has them.
Rows(versions) ==
  FlattenSeq([k \in Keys |-> SelectSeq(versions, LAMBDA v : v.key = k)])

\* What getline(row >> ws, value) makes of a value: leading blanks are lost.
Reread(val) ==
  IF val = Tombstone THEN val
  ELSE SubSeq(val, Min({i \in DOMAIN val : val[i] # Blank} \cup {Len(val) + 1}), Len(val))

------------------------------------------------------------------------------
(* The sparse index.                                                       *)

\* Mutant of GroupStart: record_offset.
RecordStart(rows, i) == i

\* key_group_offset at row i: where the run of rows with its key begins.
GroupStart(rows, i) ==
  Min({j \in 1..i : \A m \in j..i : rows[m].key = rows[i].key})

\* The rows that build considers for the index.
Sampled(rows) == {i \in DOMAIN rows : (i - 1) % Stride = 0}

\* find_start_offset: the entry of the largest key that is not larger, or the
\* first entry.  try_emplace keeps the first offset of a key.
FindStartOffset(rows, k) ==
  LET keys == {rows[i].key : i \in Sampled(rows)}
      below == {x \in keys : x <= k}
      entry == IF below = {} THEN Min(keys) ELSE Max(below)
  IN  IF keys = {} THEN 1
      ELSE GroupStart(rows, Min({i \in Sampled(rows) : rows[i].key = entry}))

------------------------------------------------------------------------------
(* The Bloom filter.                                                       *)

\* The bits set by add for every row's key.
BloomBits(rows) == {h[rows[i].key] % BitCount : h \in Hashes, i \in DOMAIN rows}

PossiblyContains(rows, k) == \A h \in Hashes : h[k] % BitCount \in BloomBits(rows)

------------------------------------------------------------------------------
(* Reading.                                                                *)

\* The visible versions of the key that the scan meets before it breaks off at
\* a larger key.
Scanned(rows, k, ts) ==
  LET start == FindStartOffset(rows, k)
  IN  {i \in start..Len(rows) :
         /\ rows[i].key = k
         /\ rows[i].ts <= ts
         /\ \A j \in start..i : rows[j].key <= k}

\* Later wins among equal timestamps (timestamp >= best_timestamp).
Best(rows, k, ts) ==
  {i \in Scanned(rows, k, ts) :
     \A j \in Scanned(rows, k, ts) :
       rows[j].ts < rows[i].ts \/ (rows[j].ts = rows[i].ts /\ j <= i)}

\* SSTableReader::get_at.
ReaderGetAt(rows, k, ts) ==
  IF PossiblyContains(rows, k)
  THEN {Reread(rows[i].val) : i \in Best(rows, k, ts)}
  ELSE {}

------------------------------------------------------------------------------
(* Steps.                                                                  *)

\* Mutant of Add: steps the timestamp back, an underflow for the first version.
AddBackwards(k, v) ==
  /\ written < MaxVersions
  /\ \E d \in Steps :
       /\ seq' = seq - d
       /\ entries' = Append(entries, [key |-> k, ts |-> seq - d, val |-> v])
  /\ written' = written + 1
  /\ UNCHANGED tables

\* MemTable::put and del.
Add(k, v) ==
  /\ written < MaxVersions
  /\ \E d \in Steps :
       /\ seq' = seq + d
       /\ entries' = Append(entries, [key |-> k, ts |-> seq + d, val |-> v])
  /\ written' = written + 1
  /\ UNCHANGED tables

\* The MemTable becomes an SSTable.
Flush ==
  /\ entries # <<>>
  /\ tables' = Append(tables, Rows(entries))
  /\ entries' = <<>>
  /\ UNCHANGED <<seq, written>>

\* Mutant of Loaded: leaves tombstones out.
LoadedWithoutTombstones(rows) ==
  {[rows[i] EXCEPT !.val = Reread(@)] : i \in {j \in DOMAIN rows : rows[j].val # Tombstone}}

\* load_sstable: the versions in a file, their values read back.
Loaded(rows) == {[rows[i] EXCEPT !.val = Reread(@)] : i \in DOMAIN rows}

\* The rows of a merged table: by key, and by timestamp within a key.
SortedRows(versions) ==
  SetToSortSeq(versions, LAMBDA v, w : v.key < w.key \/ (v.key = w.key /\ v.ts < w.ts))

\* Compactor::compact on the two oldest tables.
Compact ==
  /\ Len(tables) >= 2
  /\ \E kept \in Merges(Loaded(tables[1]) \cup Loaded(tables[2])) :
       tables' = <<SortedRows(kept)>> \o SubSeq(tables, 3, Len(tables))
  /\ UNCHANGED <<seq, entries, written>>

Init == seq = 0 /\ entries = <<>> /\ tables = <<>> /\ written = 0

Next ==
  \/ \E k \in Keys, v \in Value \cup {Tombstone} : Add(k, v)
  \/ Flush
  \/ Compact

Spec == Init /\ [][Next]_vars

------------------------------------------------------------------------------
(* Properties.                                                             *)

\* In every file, flushed or compacted, keys never decrease: the order that the
\* reader's break and the sparse index rely on.
KeysSorted(rows) == \A i, j \in DOMAIN rows : i < j => rows[i].key <= rows[j].key

TablesSorted == \A i \in DOMAIN tables : KeysSorted(tables[i])

\* The reader, through Bloom filter, sparse index and a scan that breaks off,
\* answers what a search of all rows gives: a version with the largest
\* timestamp not after ts, and none only if the key has none.
ExactAt(rows, k, ts) ==
  LET expected == SSTableGetAt(Range(rows), k, ts)
  IN  /\ ReaderGetAt(rows, k, ts) \subseteq {Reread(v) : v \in expected}
      /\ ReaderGetAt(rows, k, ts) = {} => expected = {}

ReadsExact ==
  \A n \in DOMAIN tables : \A k \in Keys, ts \in 0..seq : ExactAt(tables[n], k, ts)

\* What a read finds: the MemTable first, then the tables, newest first.
Answer(versions, files, k, ts) ==
  LET n == Len(files)
      layers == <<EntriesGetAt(versions, k, ts)>>
                \o [i \in 1..n |-> ReaderGetAt(files[n + 1 - i], k, ts)]
      hits == {i \in DOMAIN layers : layers[i] # {}}
  IN  IF hits = {} THEN {} ELSE layers[Min(hits)]

\* Every version of the key has a timestamp of its own.
Unambiguous(k) ==
  LET versions == [i \in 1..(Len(tables) + 1) |->
                     SelectSeq(IF i = 1 THEN entries ELSE tables[i - 1], LAMBDA v : v.key = k)]
      stamps == FlattenSeq([i \in DOMAIN versions |->
                              [j \in DOMAIN versions[i] |-> versions[i][j].ts]])
  IN  IsInjective(stamps)

\* After a flush and after a compaction the same results remain visible, at
\* every timestamp, but for the blanks a value begins with.
ResultsKept ==
  [][seq' = seq /\ written' = written =>
       \A k \in {x \in Keys : Unambiguous(x)}, ts \in 0..seq :
         {Reread(v) : v \in Answer(entries', tables', k, ts)}
           = {Reread(v) : v \in Answer(entries, tables, k, ts)}]_vars

==============================================================================
