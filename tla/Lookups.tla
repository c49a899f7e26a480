------------------------------- MODULE Lookups -------------------------------
(***************************************************************************)
(* What one layer of the store answers, and what a compaction keeps.  A    *)
(* version is a record with a key, a timestamp `ts' and a value `val'.  A  *)
(* layer answers with the set of values it may return for a key at a read  *)
(* timestamp; the empty set is LookupState::NotFound.                      *)
(***************************************************************************)
EXTENDS Integers, Sequences, FiniteSets, FiniteSetsExt

\* The largest element, as a set of one: x' \in Largest(S) sets x to it.
Largest(S) == {n \in S : \A m \in S : m <= n}

\* MemTable::get_at and lookup_entries: newest first, in insertion order.
EntriesGetAt(entries, k, ts) ==
  LET I == {i \in DOMAIN entries : entries[i].key = k /\ entries[i].ts <= ts}
  IN  IF I = {} THEN {} ELSE {entries[Max(I)].val}

\* SSTableReader::get_at: a version with the largest visible timestamp.
SSTableGetAt(versions, k, ts) ==
  LET S == {v \in versions : v.key = k /\ v.ts <= ts}
  IN  {v.val : v \in {w \in S : \A x \in S : x.ts <= w.ts}}

\* Mutant of Merges: keeps only the newest version of a key.
MergesNewest(versions) ==
  {{v \in versions : \A w \in versions : w.key = v.key => w.ts <= v.ts}}

\* Compactor::compact keeps one version per key and timestamp; std::sort does
\* not say which.
Merges(versions) ==
  {kept \in SUBSET versions :
     \A v \in versions :
       Cardinality({w \in kept : w.key = v.key /\ w.ts = v.ts}) = 1}

==============================================================================
