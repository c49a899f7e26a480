----------------------------- MODULE StoreLemmas -----------------------------
(***************************************************************************)
(* Facts about naturals and sequences that the proofs about the store      *)
(* share.  The well-ordering of the naturals is derived here from the      *)
(* well-foundedness of the strict inclusion of finite sets, so that it     *)
(* can be cited with a set where the library asks for an operator.         *)
(***************************************************************************)
EXTENDS Integers, Sequences, FiniteSetsExt, SequenceTheorems,
        FiniteSetTheorems, TLAPS

\* A nonempty set of naturals has a least element.
LEMMA LeastExists ==
  ASSUME NEW T \in SUBSET Nat, T # {}
  PROVE  \E y \in T : \A z \in T : y <= z
  <1>1. PICK x \in T : TRUE
    OBVIOUS
  <1> DEFINE below(y) == 0..y
             F == {below(y) : y \in {w \in T : w <= x}}
  <1>2. IsFiniteSet(0..x)
    BY <1>1, FS_Interval
  <1>3. FiniteSubsetsOf(0..x) = SUBSET (0..x)
    BY <1>2, FS_FiniteSubsetsOfFinite
  <1>4. F \subseteq SUBSET (0..x) /\ F # {}
    BY <1>1
  <1>5. IsWellFoundedOn(StrictSubsetOrdering(0..x), SUBSET (0..x))
    BY <1>3, FS_StrictSubsetOrderingWellFounded
  <1>6. PICK m \in F : \A q \in F : ~(<<q, m>> \in StrictSubsetOrdering(0..x))
    BY <1>4, <1>5, WFMin
  <1>7. PICK y \in T : y <= x /\ m = 0..y
    BY <1>6
  <1>8. SUFFICES ASSUME NEW z \in T, z < y
                 PROVE  FALSE
    BY <1>7
  <1>9. 0..z \in F
    BY <1>1, <1>7, <1>8
  <1>10. 0..z \subseteq 0..y /\ 0..z # 0..y
    <2>1. y \in 0..y /\ y \notin 0..z
      BY <1>7, <1>8
    <2>2. QED
      BY <1>7, <1>8, <2>1
  <1>11. <<0..z, m>> \in StrictSubsetOrdering(0..x)
    BY <1>4, <1>6, <1>7, <1>9, <1>10 DEF StrictSubsetOrdering
  <1>12. QED
    BY <1>6, <1>9, <1>11

\* A nonempty set of naturals contains its minimum.
LEMMA MinExists ==
  ASSUME NEW S \in SUBSET Nat, S # {}
  PROVE  Min(S) \in S /\ \A x \in S : Min(S) <= x
  BY LeastExists DEF Min

\* Induction over the naturals, for a set.
LEMMA InductiveSet ==
  ASSUME NEW T \in SUBSET Nat, 0 \in T, \A n \in T : n + 1 \in T
  PROVE  T = Nat
  <1> SUFFICES ASSUME Nat \ T # {} PROVE FALSE
    OBVIOUS
  <1>1. PICK y \in Nat \ T : \A z \in Nat \ T : y <= z
    BY LeastExists
  <1>2. y - 1 \in Nat /\ ~(y <= y - 1) /\ (y - 1) + 1 = y
    BY <1>1
  <1>3. y - 1 \in T
    BY <1>1, <1>2
  <1>4. QED
    BY <1>1, <1>2, <1>3

\* A nonempty set of naturals that has an upper bound has a largest element.
LEMMA MaxExists ==
  ASSUME NEW n \in Nat, NEW S \in SUBSET (0..n), S # {}
  PROVE  Max(S) \in S /\ \A x \in S : x <= Max(S)
  <1> DEFINE T == {i \in Nat : n - i \in S}
  <1>1. T \subseteq Nat /\ T # {}
    <2>1. PICK x \in S : TRUE
      OBVIOUS
    <2>2. n - x \in Nat /\ n - (n - x) = x
      BY <2>1
    <2>3. QED
      BY <2>1, <2>2
  <1>2. PICK y \in T : \A z \in T : y <= z
    BY <1>1, LeastExists
  <1>3. n - y \in S /\ y \in Nat
    BY <1>1, <1>2
  <1>4. \A x \in S : n - y >= x
    <2> SUFFICES ASSUME NEW x \in S PROVE n - y >= x
      OBVIOUS
    <2>1. n - x \in Nat /\ n - (n - x) = x
      OBVIOUS
    <2>2. n - x \in T
      BY <2>1
    <2>3. QED
      BY <1>2, <1>3, <2>1, <2>2
  <1>5. \E m \in S : \A x \in S : m >= x
    BY <1>3, <1>4
  <1>6. QED
    BY <1>5 DEF Max

\* The sequence of two elements.
LEMMA PairIsSeq ==
  ASSUME NEW S, NEW a \in S, NEW b \in S
  PROVE  /\ <<a, b>> \in Seq(S)
         /\ Len(<<a, b>>) = 2
         /\ Range(<<a, b>>) = {a, b}
  <1>1. <<a, b>> = Append(Append(<<>>, a), b)
    OBVIOUS
  <1>2. Range(<<a, b>>) = {a, b}
    BY DEF Range
  <1>3. QED
    BY <1>1, <1>2, AppendProperties, EmptySeq

\* Appending adds one element to the range.
LEMMA RangeAppend ==
  ASSUME NEW S, NEW s \in Seq(S), NEW e \in S
  PROVE  /\ Append(s, e) \in Seq(S)
         /\ Range(Append(s, e)) = Range(s) \cup {e}
  <1>1. /\ Append(s, e) \in Seq(S)
        /\ DOMAIN Append(s, e) = 1..(Len(s) + 1)
        /\ DOMAIN s = 1..Len(s)
        /\ Len(s) \in Nat
    BY AppendProperties, LenProperties
  <1>2. \A i \in 1..Len(s) : Append(s, e)[i] = s[i]
    BY AppendProperties
  <1>3. Append(s, e)[Len(s) + 1] = e
    BY AppendProperties
  <1>4. QED
    BY <1>1, <1>2, <1>3 DEF Range

\* The head and the tail cover the range.
LEMMA RangeHeadTail ==
  ASSUME NEW S, NEW s \in Seq(S), s # <<>>
  PROVE  /\ Head(s) \in S
         /\ Tail(s) \in Seq(S)
         /\ Range(s) = {Head(s)} \cup Range(Tail(s))
  <1>1. /\ Head(s) \in S
        /\ Tail(s) \in Seq(S)
        /\ Len(Tail(s)) = Len(s) - 1
        /\ \A i \in 1..Len(Tail(s)) : Tail(s)[i] = s[i + 1]
        /\ Len(s) \in Nat \ {0}
    BY HeadTailProperties, EmptySeq
  <1>2. DOMAIN Tail(s) = 1..(Len(s) - 1) /\ DOMAIN s = 1..Len(s)
    BY <1>1, LenProperties
  <1>3. Head(s) = s[1]
    BY DEF Head
  <1>4. Range(s) \subseteq {Head(s)} \cup Range(Tail(s))
    <2> SUFFICES ASSUME NEW i \in 1..Len(s)
                 PROVE  s[i] \in {Head(s)} \cup Range(Tail(s))
      BY <1>2 DEF Range
    <2>1. CASE i = 1
      BY <2>1, <1>3
    <2>2. CASE i # 1
      <3>1. i - 1 \in 1..(Len(s) - 1) /\ (i - 1) + 1 = i
        BY <1>1, <2>2
      <3>2. Tail(s)[i - 1] = s[i]
        BY <1>1, <3>1
      <3>3. QED
        BY <1>2, <3>1, <3>2 DEF Range
    <2>3. QED
      BY <2>1, <2>2
  <1>5. {Head(s)} \cup Range(Tail(s)) \subseteq Range(s)
    <2>1. \A i \in 1..(Len(s) - 1) : i + 1 \in 1..Len(s)
      BY <1>1
    <2>2. 1 \in 1..Len(s)
      BY <1>1
    <2>3. QED
      BY <1>1, <1>2, <1>3, <2>1, <2>2 DEF Range
  <1>6. QED
    BY <1>1, <1>4, <1>5

\* Appending a new element keeps a sequence free of duplicates.
LEMMA InjectiveAppend ==
  ASSUME NEW S, NEW s \in Seq(S), NEW e \in S,
         IsInjective(s), e \notin Range(s)
  PROVE  IsInjective(Append(s, e))
  <1>1. /\ DOMAIN Append(s, e) = 1..(Len(s) + 1)
        /\ DOMAIN s = 1..Len(s)
        /\ Len(s) \in Nat
    BY AppendProperties, LenProperties
  <1>2. \A i \in 1..Len(s) : Append(s, e)[i] = s[i] /\ s[i] # e
    BY <1>1, AppendProperties DEF Range
  <1>3. Append(s, e)[Len(s) + 1] = e
    BY AppendProperties
  <1>4. QED
    BY <1>1, <1>2, <1>3 DEF IsInjective

\* What the compaction does to a list of paths without duplicates: the two
\* first elements give way to one that was not there.
LEMMA MergeFirstTwo ==
  ASSUME NEW S, NEW s \in Seq(S), NEW o \in S,
         Len(s) >= 2, IsInjective(s), o \notin Range(s)
  PROVE  LET u == <<o>> \o SubSeq(s, 3, Len(s))
         IN  /\ u \in Seq(S)
             /\ IsInjective(u)
             /\ Range(u) \subseteq Range(s) \cup {o}
             /\ o \in Range(u)
             /\ Range(s) \subseteq Range(u) \cup {s[1], s[2]}
             /\ s[1] \notin Range(u)
             /\ s[2] \notin Range(u)
  <1> DEFINE r == SubSeq(s, 3, Len(s))
             u == <<o>> \o r
             n == Len(s)
  <1>1. n \in Nat /\ DOMAIN s = 1..n /\ \A i \in 1..n : s[i] \in S
    BY LenProperties, ElementOfSeq
  <1>2. /\ r \in Seq(S)
        /\ Len(r) = n - 2
        /\ \A i \in 1..(n - 2) : r[i] = s[i + 2]
    <2>1. \A i \in 3..n : s[i] \in S
      BY <1>1
    <2>2. /\ r \in Seq(S)
          /\ Len(r) = IF 3 <= n THEN n - 3 + 1 ELSE 0
          /\ \A i \in 1..(n - 3 + 1) : r[i] = s[3 + i - 1]
      BY <1>1, <2>1, SubSeqProperties
    <2>3. QED
      BY <1>1, <2>2
  <1>3. <<o>> \in Seq(S) /\ Len(<<o>>) = 1 /\ <<o>>[1] = o
    OBVIOUS
  <1>4. /\ u \in Seq(S)
        /\ Len(u) = n - 1
        /\ \A i \in 1..(n - 1) : u[i] = IF i <= 1 THEN o ELSE r[i - 1]
    <2>1. /\ u \in Seq(S)
          /\ Len(u) = 1 + Len(r)
          /\ \A i \in 1..(1 + Len(r)) : u[i] = IF i <= 1 THEN <<o>>[i] ELSE r[i - 1]
      BY <1>2, <1>3, ConcatProperties
    <2>2. QED
      BY <1>1, <1>2, <1>3, <2>1
  <1>5. DOMAIN u = 1..(n - 1)
    BY <1>4, LenProperties
  <1>6. u[1] = o /\ \A i \in 2..(n - 1) : i + 1 \in 3..n /\ u[i] = s[i + 1]
    BY <1>1, <1>2, <1>4
  <1>7. \A i, j \in 1..n : s[i] = s[j] => i = j
    BY <1>1 DEF IsInjective
  <1>8. \A i \in 1..n : s[i] # o
    BY <1>1 DEF Range
  <1> HIDE DEF u, r
  <1>9. IsInjective(u)
    BY <1>1, <1>5, <1>6, <1>7, <1>8 DEF IsInjective
  <1>10. Range(u) \subseteq Range(s) \cup {o} /\ o \in Range(u)
    BY <1>1, <1>5, <1>6 DEF Range
  <1>11. Range(s) \subseteq Range(u) \cup {s[1], s[2]}
    <2> SUFFICES ASSUME NEW i \in 1..n, i # 1, i # 2
                 PROVE  s[i] \in Range(u)
      BY <1>1 DEF Range
    <2>1. i - 1 \in 2..(n - 1) /\ (i - 1) + 1 = i
      BY <1>1
    <2>2. u[i - 1] = s[i] /\ i - 1 \in 1..(n - 1)
      BY <1>1, <1>6, <2>1
    <2>3. QED
      BY <1>5, <2>2 DEF Range
  <1>12. s[1] \notin Range(u) /\ s[2] \notin Range(u)
    BY <1>1, <1>5, <1>6, <1>7, <1>8 DEF Range
  <1>13. QED
    BY <1>4, <1>9, <1>10, <1>11, <1>12 DEF u, r

=============================================================================
