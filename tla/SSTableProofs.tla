---------------------------- MODULE SSTableProofs ----------------------------
(***************************************************************************)
(* The reader's shortcuts are exact: for every sorted file, every stride,  *)
(* every Bloom filter size and every family of hash functions, a read      *)
(* through Bloom filter, sparse index and scan gives what a search of all  *)
(* rows gives.                                                             *)
(***************************************************************************)
EXTENDS SSTable, StoreLemmas, TLAPS

\* The key of a row is a natural number that is at most MaxKey.
LEMMA RowTyped ==
  ASSUME NEW rows \in Seq(Version), NEW i \in DOMAIN rows
  PROVE  /\ i \in 1..Len(rows)
         /\ rows[i].key \in Keys
         /\ rows[i].ts \in Nat
         /\ rows[i].key \in Nat
         /\ rows[i].key <= MaxKey
  <1>1. DOMAIN rows = 1..Len(rows)
    OBVIOUS
  <1>2. rows[i] \in Version
    BY <1>1
  <1>3. rows[i].key \in Keys /\ rows[i].ts \in Nat
    BY <1>2 DEF Version
  <1>4. \A x \in Keys : x \in Nat /\ x <= MaxKey
    BY TableAssumption DEF Keys
  <1>5. QED
    BY <1>1, <1>3, <1>4

\* The index entry of a row's key group is the first row of the run.
LEMMA GroupStartIsFirst ==
  ASSUME NEW rows \in Seq(Version), NEW s \in DOMAIN rows
  PROVE  /\ GroupStart(rows, s) \in 1..s
         /\ rows[GroupStart(rows, s)].key = rows[s].key
         /\ \A j \in 1..s : (\A m \in j..s : rows[m].key = rows[s].key)
                            => GroupStart(rows, s) <= j
  <1> DEFINE G == {j \in 1..s : \A m \in j..s : rows[m].key = rows[s].key}
  <1>1. s \in 1..Len(rows)
    BY RowTyped
  <1>2. G \in SUBSET Nat /\ s \in G
    BY <1>1
  <1>3. Min(G) \in G /\ \A x \in G : Min(G) <= x
    BY <1>2, MinExists, Zenon
  <1>4. GroupStart(rows, s) = Min(G)
    BY DEF GroupStart
  <1> HIDE DEF G
  <1>5. GroupStart(rows, s) \in G /\ \A x \in G : GroupStart(rows, s) <= x
    BY <1>3, <1>4
  <1>6. QED
    BY <1>1, <1>5 DEF G

\* The sparse index never starts a scan behind a row of the key.
LEMMA StartBeforeRow ==
  ASSUME NEW rows \in Seq(Version), KeysSorted(rows),
         NEW k \in Keys, NEW i \in DOMAIN rows, rows[i].key = k
  PROVE  FindStartOffset(rows, k) \in 1..i
  <1> DEFINE keys == {rows[j].key : j \in Sampled(rows)}
             below == {x \in keys : x <= k}
             entry == Max(below)
             same == {j \in Sampled(rows) : rows[j].key = entry}
             s == Min(same)
  <1>1. i \in 1..Len(rows) /\ k \in Nat /\ DOMAIN rows = 1..Len(rows)
    BY RowTyped
  <1>2. 1 \in Sampled(rows) /\ Sampled(rows) \subseteq 1..Len(rows)
    BY <1>1, TableAssumption DEF Sampled
  <1>3. rows[1].key <= k
    <2>1. CASE i = 1
      BY <1>1, <2>1
    <2>2. CASE i # 1
      BY <1>1, <2>2 DEF KeysSorted
    <2>3. QED
      BY <2>1, <2>2
  <1>4. rows[1].key \in below
    BY <1>2, <1>3
  <1>5. below \in SUBSET (0..MaxKey)
    BY <1>1, <1>2, RowTyped, TableAssumption
  <1>6. entry \in below
    BY <1>4, <1>5, MaxExists, TableAssumption, Zenon
  <1>7. same # {} /\ same \in SUBSET Nat
    <2>1. PICK j \in Sampled(rows) : rows[j].key = entry
      BY <1>6
    <2>2. j \in same /\ same \subseteq Sampled(rows)
      BY <2>1
    <2> HIDE DEF same
    <2>3. QED
      BY <1>2, <2>2
  <1>8. s \in same
    BY <1>7, MinExists, Zenon
  <1>9. s \in 1..Len(rows) /\ rows[s].key = entry /\ entry <= k /\ entry \in Nat
    BY <1>1, <1>2, <1>5, <1>6, <1>8, TableAssumption
  <1>10. FindStartOffset(rows, k) = GroupStart(rows, s)
    <2>1. keys # {} /\ below # {}
      BY <1>2, <1>4
    <2>2. QED
      BY <2>1, Zenon DEF FindStartOffset
  <1> DEFINE g == GroupStart(rows, s)
  <1>11. /\ g \in 1..s
         /\ rows[g].key = rows[s].key
         /\ \A j \in 1..s : (\A m \in j..s : rows[m].key = rows[s].key) => g <= j
    BY <1>1, <1>9, GroupStartIsFirst, Zenon
  <1> HIDE DEF g, s, same, entry, below, keys
  <1>12. ASSUME i < g PROVE FALSE
    <2>1. \A m \in i..s : rows[m].key = rows[s].key
      <3> SUFFICES ASSUME NEW m \in i..s PROVE rows[m].key = rows[s].key
        OBVIOUS
      <3>1. m \in 1..Len(rows) /\ rows[m].key \in Nat /\ rows[s].key \in Nat
        BY <1>1, <1>9, RowTyped
      <3>2. k <= rows[m].key
        BY <1>1, <3>1 DEF KeysSorted
      <3>3. rows[m].key <= rows[s].key
        BY <1>1, <1>9, <3>1 DEF KeysSorted
      <3>4. QED
        BY <1>1, <1>9, <3>1, <3>2, <3>3
    <2>2. i \in 1..s
      BY <1>1, <1>9, <1>11, <1>12
    <2>3. g <= i
      BY <1>11, <2>1, <2>2
    <2>4. QED
      BY <1>1, <1>9, <1>11, <1>12, <2>3
  <1>13. QED
    BY <1>1, <1>9, <1>10, <1>11, <1>12 DEF g

\* The scan meets every visible version of the key.
LEMMA ScanIsComplete ==
  ASSUME NEW rows \in Seq(Version), KeysSorted(rows), NEW k \in Keys, NEW ts \in Nat
  PROVE  Scanned(rows, k, ts) = {i \in DOMAIN rows : rows[i].key = k /\ rows[i].ts <= ts}
  <1> DEFINE start == FindStartOffset(rows, k)
  <1>1. ASSUME NEW i \in DOMAIN rows, rows[i].key = k, rows[i].ts <= ts
        PROVE  i \in Scanned(rows, k, ts)
    <2>1. start \in 1..i /\ i \in 1..Len(rows)
      BY <1>1, StartBeforeRow, RowTyped
    <2>2. \A j \in start..i : rows[j].key <= k
      <3> HIDE DEF start
      <3> SUFFICES ASSUME NEW j \in start..i PROVE rows[j].key <= k
        OBVIOUS
      <3>1. j \in DOMAIN rows /\ j <= i /\ j \in Nat /\ i \in Nat
        BY <2>1
      <3>2. k \in Nat
        BY <1>1, RowTyped
      <3>3. CASE j = i
        BY <1>1, <3>2, <3>3
      <3>4. CASE j # i
        BY <1>1, <3>1, <3>4 DEF KeysSorted
      <3>5. QED
        BY <3>3, <3>4
    <2>3. QED
      BY <1>1, <2>1, <2>2 DEF Scanned
  <1>2. ASSUME NEW i \in Scanned(rows, k, ts)
        PROVE  i \in DOMAIN rows /\ rows[i].key = k /\ rows[i].ts <= ts
    <2>1. i \in start..Len(rows) /\ rows[i].key = k /\ rows[i].ts <= ts
      BY <1>2 DEF Scanned
    <2>2. start \in Nat \ {0}
      <3> DEFINE keys == {rows[j].key : j \in Sampled(rows)}
                 below == {x \in keys : x <= k}
                 entry == IF below = {} THEN Min(keys) ELSE Max(below)
                 same == {j \in Sampled(rows) : rows[j].key = entry}
      <3>1. CASE keys = {}
        BY <3>1 DEF FindStartOffset
      <3>2. CASE keys # {}
        <4>1. keys \in SUBSET (0..MaxKey) /\ keys \in SUBSET Nat
          BY RowTyped, TableAssumption DEF Sampled
        <4>2. entry \in keys
          <5>1. below \in SUBSET (0..MaxKey) /\ below \subseteq keys /\ MaxKey \in Nat
            BY <4>1, TableAssumption
          <5> HIDE DEF keys, below
          <5>2. Min(keys) \in keys
            BY <3>2, <4>1, MinExists
          <5>3. below # {} => Max(below) \in below
            BY <5>1, MaxExists, Zenon
          <5>4. QED
            BY <5>1, <5>2, <5>3, Zenon
        <4>3. same # {} /\ same \in SUBSET Nat
          <5>1. PICK j \in Sampled(rows) : rows[j].key = entry
            BY <4>2, Zenon
          <5>2. j \in same /\ same \subseteq Sampled(rows)
            BY <5>1
          <5>3. Sampled(rows) \subseteq Nat
            BY RowTyped DEF Sampled
          <5> HIDE DEF same
          <5>4. QED
            BY <5>2, <5>3
        <4>4. Min(same) \in DOMAIN rows
          BY <4>3, MinExists, Zenon DEF Sampled
        <4>5. GroupStart(rows, Min(same)) \in 1..Min(same)
          BY <4>4, GroupStartIsFirst
        <4>6. start = GroupStart(rows, Min(same))
          BY <3>2, Zenon DEF FindStartOffset
        <4>7. QED
          BY <4>5, <4>6
      <3>3. QED
        BY <3>1, <3>2
    <2> HIDE DEF start
    <2>3. QED
      BY <2>1, <2>2
  <1>3. QED
    BY <1>1, <1>2

\* The Bloom filter has no false negatives.
LEMMA NoFalseNegative ==
  ASSUME NEW rows \in Seq(Version), NEW i \in DOMAIN rows
  PROVE  PossiblyContains(rows, rows[i].key)
  BY DEF PossiblyContains, BloomBits

\* Among the visible versions there is a best one.
LEMMA BestExists ==
  ASSUME NEW rows \in Seq(Version), NEW k \in Keys, NEW ts \in Nat,
         Scanned(rows, k, ts) \subseteq DOMAIN rows, Scanned(rows, k, ts) # {}
  PROVE  Best(rows, k, ts) # {}
  <1> DEFINE S == Scanned(rows, k, ts)
             T == {rows[i].ts : i \in S}
             I == {i \in S : rows[i].ts = Max(T)}
  <1>1. \A i \in S : i \in 1..Len(rows) /\ rows[i].ts \in 0..ts
    <2> TAKE i \in S
    <2>1. rows[i].ts <= ts
      BY DEF Scanned
    <2>2. i \in 1..Len(rows) /\ rows[i].ts \in Nat
      BY RowTyped
    <2>3. QED
      BY <2>1, <2>2
  <1>2. T \in SUBSET (0..ts) /\ T # {}
    BY <1>1
  <1>3. Max(T) \in T /\ \A x \in T : x <= Max(T)
    BY <1>2, MaxExists, Zenon
  <1>4. I # {} /\ I \in SUBSET (0..Len(rows)) /\ Len(rows) \in Nat
    <2>1. PICK i \in S : rows[i].ts = Max(T)
      BY <1>3, Zenon
    <2>2. i \in I /\ I \subseteq S
      BY <2>1
    <2>3. S \subseteq 0..Len(rows)
      BY <1>1
    <2> HIDE DEF I
    <2>4. QED
      BY <2>2, <2>3
  <1>5. Max(I) \in I /\ \A x \in I : x <= Max(I)
    BY <1>4, MaxExists, Zenon
  <1> DEFINE b == Max(I)
             t == Max(T)
  <1>6. b \in S /\ rows[b].ts = t /\ \A j \in S : rows[j].ts <= t
    BY <1>3, <1>5
  <1>7. \A j \in S : rows[j].ts = t => j <= b
    BY <1>5, Zenon
  <1> HIDE DEF b, t
  <1>8. \A j \in S : rows[j].ts < rows[b].ts \/ (rows[j].ts = rows[b].ts /\ j <= b)
    BY <1>1, <1>6, <1>7
  <1>9. QED
    BY <1>6, <1>8, Zenon DEF Best

\* Every read of a sorted file is exact.
THEOREM SortedReadIsExact ==
  ASSUME NEW rows \in Seq(Version), KeysSorted(rows), NEW k \in Keys, NEW ts \in Nat
  PROVE  ExactAt(rows, k, ts)
  <1> DEFINE S == Scanned(rows, k, ts)
             V == {v \in Range(rows) : v.key = k /\ v.ts <= ts}
             newest == {w \in V : \A x \in V : x.ts <= w.ts}
  <1>1. S = {i \in DOMAIN rows : rows[i].key = k /\ rows[i].ts <= ts}
    BY ScanIsComplete
  <1>2. SSTableGetAt(Range(rows), k, ts) = {v.val : v \in newest}
    BY DEF SSTableGetAt
  <1>3. ASSUME NEW i \in Best(rows, k, ts)
        PROVE  rows[i] \in newest
    <2>1. i \in S /\ \A j \in S : rows[j].ts < rows[i].ts \/ rows[j].ts = rows[i].ts
      BY <1>3 DEF Best
    <2>2. rows[i] \in V
      BY <1>1, <2>1 DEF Range
    <2>3. ASSUME NEW x \in V PROVE x.ts <= rows[i].ts
      <3>1. PICK j \in DOMAIN rows : rows[j] = x
        BY DEF Range
      <3>2. j \in S
        BY <1>1, <3>1
      <3>3. rows[i].ts \in Nat /\ rows[j].ts \in Nat
        BY <1>1, <2>1, <3>1, RowTyped
      <3>4. rows[j].ts <= rows[i].ts
        BY <2>1, <3>2, <3>3
      <3>5. QED
        BY <3>1, <3>4
    <2>4. QED
      BY <2>2, <2>3
  <1>4. ReaderGetAt(rows, k, ts) \subseteq {Reread(v) : v \in {w.val : w \in newest}}
    BY <1>3 DEF ReaderGetAt
  <1>5. ASSUME newest # {} PROVE ReaderGetAt(rows, k, ts) # {}
    <2>1. PICK i \in DOMAIN rows : rows[i].key = k /\ rows[i].ts <= ts
      BY <1>5 DEF Range
    <2>2. S # {} /\ S \subseteq DOMAIN rows
      BY <1>1, <2>1
    <2>3. Best(rows, k, ts) # {}
      BY <2>2, BestExists
    <2>4. PossiblyContains(rows, k)
      BY <2>1, NoFalseNegative
    <2>5. QED
      BY <2>3, <2>4 DEF ReaderGetAt
  <1> HIDE DEF newest
  <1>6. QED
    BY <1>2, <1>4, <1>5 DEF ExactAt

\* In a store whose files are sorted, every read of every file is exact.
THEOREM ReadsAreExact ==
  ASSUME TypeOK, TablesSorted
  PROVE  ReadsExact
  <1> SUFFICES ASSUME NEW n \in DOMAIN tables, NEW k \in Keys, NEW ts \in 0..seq
               PROVE  ExactAt(tables[n], k, ts)
    BY DEF ReadsExact
  <1>1. tables[n] \in Seq(Version) /\ ts \in Nat
    BY DEF TypeOK
  <1>2. KeysSorted(tables[n])
    BY DEF TablesSorted
  <1>3. QED
    BY <1>1, <1>2, SortedReadIsExact

==============================================================================
