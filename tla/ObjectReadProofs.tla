-------------------------- MODULE ObjectReadProofs ---------------------------
(***************************************************************************)
(* What callers of ObjectStore see of each other, with no lock between     *)
(* them: GetObject never returns a mix of objects, and misses a chunk only *)
(* of an object that was replaced; and a garbage collection leaves no      *)
(* garbage.                                                                *)
(***************************************************************************)
EXTENDS ObjectStoreProofs

-----------------------------------------------------------------------------
(* Chunks put together are the object.                                     *)

\* The first i chunks of d.
Front(d, i) ==
  SubSeq(d, 1, IF i * ChunkSize < Len(d) THEN i * ChunkSize ELSE Len(d))

\* The chunk count is the length divided by the size and rounded up.
LEMMA CountBounds ==
  ASSUME NEW L \in Nat, NEW C \in Nat \ {0}
  PROVE  LET q == (L + C - 1) \div C
         IN  q \in Nat /\ L <= q * C /\ \A i \in Nat : i < q => i * C < L
<1> DEFINE q == (L + C - 1) \div C
<1>1. q \in Nat /\ q * C <= L + C - 1 /\ L + C - 1 < q * C + C
  OBVIOUS
<1> HIDE DEF q
<1>2. q * C \in Nat
  BY <1>1
<1>3. L <= q * C
  BY <1>1, <1>2
<1>4. ASSUME NEW i \in Nat, i < q PROVE i * C < L
  <2>1. i * C \in Nat
    OBVIOUS
  <2>2. PICK j \in Nat : q = i + 1 + j
    <3>1. q - (i + 1) \in Nat /\ q = i + 1 + (q - (i + 1))
      BY <1>1, <1>4
    <3> QED
      BY <3>1
  <2>3. q * C = i * C + C + j * C /\ j * C \in Nat
    BY <2>2
  <2> QED
    BY <1>1, <1>2, <2>1, <2>3
<1> QED
  BY <1>1, <1>3, <1>4 DEF q

\* Sequences of one length with the same elements.
LEMMA SequencesAgree ==
  ASSUME NEW s \in Seq(Nat), NEW t \in Seq(Nat), Len(s) = Len(t),
         \A i \in 1..Len(s) : s[i] = t[i]
  PROVE  s = t
  OBVIOUS

\* Two adjacent parts of a sequence.
LEMMA PartsMeet ==
  ASSUME NEW d \in Seq(Nat), NEW s \in Nat, NEW e \in Nat, s <= e, e <= Len(d)
  PROVE  SubSeq(d, 1, s) \o SubSeq(d, s + 1, e) = SubSeq(d, 1, e)
<1>0. Len(d) \in Nat /\ \A i \in 1..Len(d) : d[i] \in Nat
  OBVIOUS
<1> DEFINE a == SubSeq(d, 1, s)
           b == SubSeq(d, s + 1, e)
           w == SubSeq(d, 1, e)
<1>1. a \in Seq(Nat) /\ Len(a) = s /\ \A i \in 1..s : a[i] = d[i]
  BY <1>0
<1>2. b \in Seq(Nat) /\ Len(b) = e - s /\ \A i \in 1..(e - s) : b[i] = d[s + i]
  <2>1. /\ b \in Seq(Nat)
        /\ Len(b) = IF s + 1 <= e THEN e - (s + 1) + 1 ELSE 0
        /\ \A i \in 1..(e - (s + 1) + 1) : b[i] = d[s + 1 + i - 1]
    BY <1>0
  <2> HIDE DEF b
  <2>2. e - (s + 1) + 1 = e - s /\ \A i \in 1..(e - s) : s + 1 + i - 1 = s + i
    OBVIOUS
  <2>3. Len(b) = e - s
    BY <2>1
  <2> QED
    BY <2>1, <2>2, <2>3, Zenon
<1>3. w \in Seq(Nat) /\ Len(w) = e /\ \A i \in 1..e : w[i] = d[i]
  BY <1>0
<1> HIDE DEF a, b, w
<1>4. /\ a \o b \in Seq(Nat) /\ Len(a \o b) = Len(a) + Len(b)
      /\ \A i \in 1..(Len(a) + Len(b)) :
           (a \o b)[i] = IF i <= Len(a) THEN a[i] ELSE b[i - Len(a)]
  <2>1. a \in Seq(Nat) /\ b \in Seq(Nat)
    BY <1>1, <1>2
  <2> QED
    BY <2>1
<1>5. Len(a) + Len(b) = e /\ Len(a \o b) = e
  BY <1>1, <1>2, <1>4
<1>6. ASSUME NEW i \in 1..e PROVE (a \o b)[i] = w[i]
  <2>0. (a \o b)[i] = IF i <= s THEN a[i] ELSE b[i - s]
    BY <1>1, <1>4, <1>5, Zenon
  <2>1. CASE i <= s
    <3>1. i \in 1..s
      BY <2>1
    <3>2. (a \o b)[i] = a[i]
      BY <2>0, <2>1
    <3> QED
      BY <1>1, <1>3, <3>1, <3>2, Zenon
  <2>2. CASE ~(i <= s)
    <3>1. i - s \in 1..(e - s) /\ s + (i - s) = i
      BY <2>2
    <3>2. (a \o b)[i] = b[i - s]
      BY <2>0, <2>2
    <3> QED
      BY <1>2, <1>3, <3>1, <3>2, Zenon
  <2> QED
    BY <2>1, <2>2, Zenon
<1>7. a \o b = w
  BY <1>3, <1>4, <1>5, <1>6, SequencesAgree, Zenon
<1> QED
  BY <1>7 DEF a, b, w

\* No chunk, one more chunk, all chunks.
LEMMA Fronts ==
  ASSUME NEW d \in Data
  PROVE  /\ Front(d, 0) = <<>>
         /\ \A i \in Nat : i < ChunkCount(d) => Front(d, i) \o Chunk(d, i) = Front(d, i + 1)
         /\ Front(d, ChunkCount(d)) = d
<1> DEFINE L == Len(d)
           C == ChunkSize
           q == ChunkCount(d)
<1>0. d \in Seq(Nat) /\ L \in Nat /\ C \in Nat \ {0}
  BY ObjectAssumption
<1>1. q = (L + C - 1) \div C
  BY DEF ChunkCount
<1> HIDE DEF L, C, q
<1>2. q \in Nat /\ L <= q * C /\ \A i \in Nat : i < q => i * C < L
  BY <1>0, <1>1, CountBounds
<1>3. Front(d, 0) = <<>>
  <2>1. 0 * C = 0
    BY <1>0
  <2>2. Front(d, 0) = SubSeq(d, 1, 0)
    BY <1>0, <2>1 DEF Front, L, C
  <2> QED
    BY <1>0, <2>2
<1>4. ASSUME NEW i \in Nat, i < q PROVE Front(d, i) \o Chunk(d, i) = Front(d, i + 1)
  <2> DEFINE s == i * C
             e == IF s + C < L THEN s + C ELSE L
  <2>1. s \in Nat /\ s < L /\ (i + 1) * C = s + C
    BY <1>0, <1>2, <1>4
  <2>2. Front(d, i) = SubSeq(d, 1, s)
    BY <2>1 DEF Front, L, C
  <2>3. Chunk(d, i) = SubSeq(d, s + 1, e)
    BY DEF Chunk, L, C
  <2>4. Front(d, i + 1) = SubSeq(d, 1, e)
    <3>1. Front(d, i + 1) = SubSeq(d, 1, IF (i + 1) * C < L THEN (i + 1) * C ELSE L)
      BY DEF Front, L, C
    <3> HIDE DEF s
    <3> QED
      BY <2>1, <3>1
  <2> HIDE DEF s
  <2>5. e \in Nat /\ s <= e /\ e <= Len(d)
    BY <1>0, <2>1 DEF L
  <2> HIDE DEF e
  <2>6. SubSeq(d, 1, s) \o SubSeq(d, s + 1, e) = SubSeq(d, 1, e)
    BY <1>0, <2>1, <2>5, PartsMeet
  <2> QED
    BY <2>2, <2>3, <2>4, <2>6, Zenon
<1>5. Front(d, q) = d
  <2>1. Front(d, q) = SubSeq(d, 1, L)
    <3>1. q * C \in Nat /\ ~(q * C < L)
      BY <1>0, <1>2
    <3> QED
      BY <3>1 DEF Front, L, C
  <2> QED
    BY <1>0, <2>1 DEF L
<1> QED
  BY <1>3, <1>4, <1>5 DEF q

-----------------------------------------------------------------------------
(* What an identifier stands for.                                          *)

\* Caller c takes d for the data of the object id, and k for its number of chunks.
ClaimedBy(c, id, d, k) ==
  \/ Pending(c) /\ id = call[c].id /\ d = call[c].data /\ k = ChunkCount(call[c].data)
  \/ /\ call[c].at \in {"get_chunks", "del_meta"}
     /\ id = call[c].meta.id /\ d = call[c].meta.etag /\ k = call[c].meta.count

\* Metadata in the contents m does.
ClaimedIn(m, id, d, k) ==
  \E n \in Name : /\ ObjectMetaKey(n) \in DOMAIN m
                  /\ id = m[ObjectMetaKey(n)].id
                  /\ d = m[ObjectMetaKey(n)].etag
                  /\ k = m[ObjectMetaKey(n)].count

Claim(id, d, k) ==
  \/ \E c \in Caller : ClaimedBy(c, id, d, k)
  \/ \E s \in survivors : ClaimedIn(s, id, d, k)

\* Nobody knows an identifier from the future; all who know one mean the same data;
\* and a chunk that is there, now or after a crash, is of that data.
ClaimInv ==
  /\ \A id, d, k : Claim(id, d, k) => id[2] <= clock /\ k = ChunkCount(d)
  /\ \A s \in survivors : \A id, i : HasChunk(s, id, i) => id[2] <= clock
  /\ \A id, d, k, e, l : Claim(id, d, k) /\ Claim(id, e, l) => d = e
  /\ \A s \in survivors : \A id, d, k, i :
       Claim(id, d, k) /\ HasChunk(s, id, i) => s[ChunkKey(id, i)] = Chunk(d, i)

\* What a get has read so far is the front of its object.
ReadInv ==
  \A c \in Caller : call[c].at = "get_chunks" =>
    call[c].data = Front(call[c].meta.etag, call[c].next)

\* The callers who have metadata.
LEMMA MetaTypes ==
  ASSUME TypeOK, NEW c \in Caller, call[c].at \in {"get_chunks", "del_meta"}
  PROVE  call[c].meta \in Metadata /\ call[c].name \in Name
BY CallKinds DEF TypeOK, GetCall, DeleteCall

LEMMA ClaimTypes ==
  ASSUME TypeOK
  PROVE  /\ \A id, d, k : Claim(id, d, k) => id \in ObjectId /\ id[2] \in Nat
         /\ \A s \in survivors : \A id, i : HasChunk(s, id, i) => id \in ObjectId /\ id[2] \in Nat
<1>1. \A id \in ObjectId : id[2] \in Nat
  BY DEF ObjectId
<1>2. \A m \in Metadata : m.id \in ObjectId
  BY DEF Metadata
<1>3. ASSUME NEW c \in Caller, NEW id, NEW d, NEW k, ClaimedBy(c, id, d, k)
      PROVE  id \in ObjectId
  BY <1>2, <1>3, IdTypes, MetaTypes DEF ClaimedBy
<1>4. ASSUME NEW s \in survivors, NEW id, NEW d, NEW k, ClaimedIn(s, id, d, k)
      PROVE  id \in ObjectId
  <2>1. PICK n \in Name : ObjectMetaKey(n) \in DOMAIN s /\ id = s[ObjectMetaKey(n)].id
    BY <1>4 DEF ClaimedIn
  <2>2. s[ObjectMetaKey(n)] \in Metadata
    BY <2>1, KeyTypes DEF TypeOK, Typed
  <2> QED
    BY <1>2, <2>1, <2>2
<1>5. ASSUME NEW s \in survivors, NEW id, NEW i, HasChunk(s, id, i)
      PROVE  id \in ObjectId
  <2>1. ChunkKey(id, i) \in MapKey
    BY <1>5 DEF TypeOK, Typed, HasChunk
  <2> QED
    BY <2>1 DEF MapKey, ChunkKey
<1> QED
  BY <1>1, <1>3, <1>4, <1>5 DEF Claim

\* The chunks are those of before, or fewer.
ChunksOld ==
  \A s \in survivors' : \A id, i : HasChunk(s, id, i) =>
    \E w \in survivors : HasChunk(w, id, i) /\ s[ChunkKey(id, i)] = w[ChunkKey(id, i)]

ClaimsOld == \A id, d, k : Claim(id, d, k)' => Claim(id, d, k)

\* Steps that bring nothing new.
LEMMA ClaimKept ==
  ASSUME ClaimInv, clock' = clock, ClaimsOld, ChunksOld
  PROVE  ClaimInv'
<1>1. \A id, d, k : Claim(id, d, k)' => id[2] <= clock' /\ k = ChunkCount(d)
  BY DEF ClaimInv, ClaimsOld
<1>2. \A s \in survivors' : \A id, i : HasChunk(s, id, i) => id[2] <= clock'
  BY DEF ClaimInv, ChunksOld
<1>3. \A id, d, k, e, l : Claim(id, d, k)' /\ Claim(id, e, l)' => d = e
  BY DEF ClaimInv, ClaimsOld
<1>4. ASSUME NEW s \in survivors', NEW id, NEW d, NEW k, NEW i,
             Claim(id, d, k)', HasChunk(s, id, i)
      PROVE  s[ChunkKey(id, i)] = Chunk(d, i)
  <2>1. PICK w \in survivors : HasChunk(w, id, i) /\ s[ChunkKey(id, i)] = w[ChunkKey(id, i)]
    BY <1>4 DEF ChunksOld
  <2>2. Claim(id, d, k)
    BY <1>4 DEF ClaimsOld
  <2>3. w[ChunkKey(id, i)] = Chunk(d, i)
    BY <2>1, <2>2 DEF ClaimInv
  <2> QED
    BY <2>1, <2>3
<1> QED
  BY <1>1, <1>2, <1>3, <1>4 DEF ClaimInv, HasChunk, Chunk, ChunkCount

\* One more survivor with no other chunks.
LEMMA ChunksKept ==
  ASSUME TypeOK, survivors' \subseteq survivors \cup {map'},
         \A id, i : HasChunk(map', id, i) =>
           HasChunk(map, id, i) /\ map'[ChunkKey(id, i)] = map[ChunkKey(id, i)]
  PROVE  ChunksOld
<1>1. map \in survivors
  BY DEF TypeOK
<1> QED
  BY <1>1 DEF ChunksOld

\* One caller's step, which brings no claim of its own nor new metadata.
LEMMA ClaimsKept ==
  ASSUME TypeOK, NEW c \in Caller, NEW q, call' = [call EXCEPT ![c] = q],
         \A id, d, k : ClaimedBy(c, id, d, k)' => Claim(id, d, k),
         survivors' \subseteq survivors \cup {map'},
         \A id, d, k : ClaimedIn(map', id, d, k) => Claim(id, d, k)
  PROVE  ClaimsOld
<1>1. \A x \in Caller : x # c => call'[x] = call[x]
  BY DEF TypeOK
<1>2. ASSUME NEW x \in Caller, NEW id, NEW d, NEW k, ClaimedBy(x, id, d, k)'
      PROVE  Claim(id, d, k)
  <2>1. CASE x = c
    BY <1>2, <2>1
  <2>2. CASE x # c
    <3>1. ClaimedBy(x, id, d, k)
      BY <1>1, <1>2, <2>2 DEF ClaimedBy, Pending, ChunkCount
    <3> QED
      BY <3>1 DEF Claim
  <2> QED
    BY <2>1, <2>2
<1>3. ASSUME NEW s \in survivors', NEW id, NEW d, NEW k, ClaimedIn(s, id, d, k)
      PROVE  Claim(id, d, k)
  BY <1>3 DEF Claim
<1>4. ASSUME NEW id, NEW d, NEW k, Claim(id, d, k)' PROVE Claim(id, d, k)
  <2>1. CASE \E x \in Caller : ClaimedBy(x, id, d, k)'
    BY <1>2, <2>1
  <2>2. CASE \E s \in survivors' : ClaimedIn(s, id, d, k)
    BY <1>3, <2>2
  <2> QED
    BY <1>4, <2>1, <2>2 DEF Claim, ClaimedIn
<1> QED
  BY <1>4 DEF ClaimsOld

-----------------------------------------------------------------------------
(* The steps.                                                              *)

\* Metadata that the map has is a claim.
LEMMA MetaClaims ==
  ASSUME TypeOK, NEW id, NEW d, NEW k, ClaimedIn(map, id, d, k)
  PROVE  Claim(id, d, k)
BY DEF TypeOK, Claim

\* Steps that write neither metadata nor chunks.
LEMMA QuietKept ==
  ASSUME TypeOK, Quiet
  PROVE  /\ survivors' \subseteq survivors \cup {map'}
         /\ \A id, d, k : ClaimedIn(map', id, d, k) => Claim(id, d, k)
         /\ ChunksOld
<1>0. map \in survivors
  BY DEF TypeOK
<1>1. CASE map' = map /\ survivors' \in {{map}, survivors}
  <2>1. survivors' \subseteq survivors \cup {map'}
    BY <1>0, <1>1
  <2>2. ChunksOld
    BY <1>1, <2>1, ChunksKept
  <2> QED
    BY <1>1, <2>1, <2>2, MetaClaims
<1>2. CASE \E k \in MapKey : /\ k[1] \in {"bucket", "bucketidx"}
                             /\ KV!Del(k) \/ \E v : KV!Put(k, v)
  <2>1. PICK k \in MapKey : /\ k[1] \in {"bucket", "bucketidx"}
                            /\ KV!Del(k) \/ \E v : KV!Put(k, v)
    BY <1>2
  <2>2. /\ \A n \in Name : k # ObjectMetaKey(n)
        /\ \A id, i : k # ChunkKey(id, i)
    BY <2>1, QuietKeys
  <2>3. Agree(map, map', k) /\ survivors' = survivors \cup {map'}
    <3>1. CASE KV!Del(k)
      BY <3>1, Written, WritesAgree, Zenon
    <3>2. CASE \E v : KV!Put(k, v)
      <4>1. PICK v : KV!Put(k, v)
        BY <3>2
      <4>2. map' = Sets(map, k, v) /\ survivors' = survivors \cup {map'}
        BY <4>1, Written
      <4> QED
        BY <4>2, WritesAgree
    <3> QED
      BY <2>1, <3>1, <3>2
  <2>4. MetasOld
    BY <2>2, <2>3 DEF Agree, MetasOld
  <2>5. \A id, i : HasChunk(map', id, i) =>
          HasChunk(map, id, i) /\ map'[ChunkKey(id, i)] = map[ChunkKey(id, i)]
    BY <2>2, <2>3 DEF Agree, HasChunk
  <2>6. ASSUME NEW id, NEW d, NEW j, ClaimedIn(map', id, d, j) PROVE Claim(id, d, j)
    <3>1. ClaimedIn(map, id, d, j)
      BY <2>4, <2>6 DEF ClaimedIn, MetasOld
    <3> QED
      BY <3>1, MetaClaims
  <2>7. ChunksOld
    BY <2>3, <2>5, ChunksKept
  <2> QED
    BY <2>3, <2>6, <2>7
<1> QED
  BY <1>1, <1>2 DEF Quiet, KV!Flush, contents

\* The metadata that a get or a delete begins with is in the map.
LEMMA BeginClaims ==
  ASSUME TypeOK, NEW c \in Caller, NEW n \in Name, GetObject(c, n) \/ DeleteObject(c, n),
         NEW id, NEW d, NEW k, ClaimedBy(c, id, d, k)'
  PROVE  Claim(id, d, k)
<1>1. /\ ObjectMetaKey(n) \in DOMAIN map /\ call'[c].meta = map[ObjectMetaKey(n)]
      /\ call'[c].at \in {"get_chunks", "del_meta"}
  BY DEF GetObject, DeleteObject, Begin, TypeOK
<1>2. id = call'[c].meta.id /\ d = call'[c].meta.etag /\ k = call'[c].meta.count
  BY <1>1 DEF ClaimedBy, Pending
<1>3. ClaimedIn(map, id, d, k)
  BY <1>1, <1>2 DEF ClaimedIn
<1> QED
  BY <1>3, MetaClaims

LEMMA OtherClaims ==
  ASSUME TypeOK, ClaimInv, NEW c \in Caller, Other(c)
  PROVE  ClaimInv'
<1>1. PICK q : /\ call' = [call EXCEPT ![c] = q]
               /\ q.at # "put_chunks"
               /\ q.at = "del_meta" => \E n \in Name : DeleteObject(c, n)
               /\ q.at = "get_chunks" => GetChunk(c) \/ \E n \in Name : GetObject(c, n)
  BY Zenon DEF Other
<1>2. call'[c] = q
  BY <1>1 DEF TypeOK
<1>3. ASSUME NEW id, NEW d, NEW k, ClaimedBy(c, id, d, k)' PROVE Claim(id, d, k)
  <2>1. \/ \E n \in Name : GetObject(c, n) \/ DeleteObject(c, n)
        \/ GetChunk(c) /\ call'[c].at = "get_chunks"
    BY <1>1, <1>2, <1>3 DEF ClaimedBy, Pending
  <2>2. CASE \E n \in Name : GetObject(c, n) \/ DeleteObject(c, n)
    BY <1>3, <2>2, BeginClaims
  <2>3. CASE GetChunk(c) /\ call'[c].at = "get_chunks"
    <3>1. call[c].at = "get_chunks" /\ call[c] \in GetCall
      BY <2>3, CallKinds DEF GetChunk, TypeOK
    <3>2. Idle.at # "get_chunks"
      BY DEF Idle
    <3>3. call'[c].meta = call[c].meta
      <4> DEFINE key == ChunkKey(call[c].meta.id, call[c].next)
      <4>1. \A i, e : [call[c] EXCEPT !.next = i, !.data = e].meta = call[c].meta
        BY <3>1 DEF GetCall
      <4> DEFINE g == [call[c] EXCEPT !.next = @ + 1, !.data = @ \o map[key]]
      <4>2. call' = [call EXCEPT ![c] = g] \/ call' = [call EXCEPT ![c] = Idle]
        BY <2>3, Zenon DEF GetChunk, Goto, Return
      <4>3. g.meta = call[c].meta
        BY <4>1
      <4> HIDE DEF g
      <4>4. call'[c] = g \/ call'[c] = Idle
        BY <4>2 DEF TypeOK
      <4> QED
        BY <2>3, <3>2, <4>3, <4>4
    <3>4. ClaimedBy(c, id, d, k)
      BY <1>3, <2>3, <3>1, <3>3 DEF ClaimedBy, Pending
    <3> QED
      BY <3>4 DEF Claim
  <2> QED
    BY <2>1, <2>2, <2>3
<1>4. /\ survivors' \subseteq survivors \cup {map'}
      /\ \A id, d, k : ClaimedIn(map', id, d, k) => Claim(id, d, k)
      /\ ChunksOld
  BY QuietKept DEF Other
<1>5. ClaimsOld
  BY <1>1, <1>3, <1>4, ClaimsKept, Zenon
<1> QED
  BY <1>4, <1>5, ClaimKept DEF Other

\* A put begins: its identifier is new.
LEMMA PutObjectClaims ==
  ASSUME "same_ms" \notin Features, TypeOK, ClaimInv, NEW c \in Caller,
         NEW n \in Name, NEW e \in Data, PutObject(c, n, e)
  PROVE  ClaimInv'
<1> DEFINE new == <<n, clock + 1>>
           q == [at |-> "put_chunks", name |-> n, id |-> new, data |-> e, next |-> 0]
<1>1. /\ call' = [call EXCEPT ![c] = q] /\ clock' = clock + 1
      /\ survivors' = survivors /\ clock \in Nat
  BY Zenon DEF PutObject, Begin, contents, TypeOK
<1>2. q.at = "put_chunks" /\ q.id = new /\ q.data = e /\ new[2] = clock + 1
  OBVIOUS
<1> HIDE DEF q, new
<1>3. call'[c] = q /\ \A x \in Caller : x # c => call'[x] = call[x]
  BY <1>1 DEF TypeOK
<1>4. /\ \A id, d, k : Claim(id, d, k) => id # new /\ id[2] <= clock'
      /\ \A s \in survivors : \A id, i : HasChunk(s, id, i) => id # new /\ id[2] <= clock'
  <2>1. /\ \A id, d, k : Claim(id, d, k) => id[2] \in Nat /\ id[2] <= clock
        /\ \A s \in survivors : \A id, i : HasChunk(s, id, i) => id[2] \in Nat /\ id[2] <= clock
    BY ClaimTypes DEF ClaimInv
  <2> QED
    BY <1>1, <1>2, <2>1
<1>5. ASSUME NEW id, NEW d, NEW k, Claim(id, d, k)'
      PROVE  Claim(id, d, k) \/ (id = new /\ d = e /\ k = ChunkCount(e))
  <2>1. CASE \E s \in survivors' : ClaimedIn(s, id, d, k)
    BY <1>1, <2>1 DEF Claim
  <2>2. CASE \E x \in Caller : ClaimedBy(x, id, d, k)'
    <3>1. PICK x \in Caller : ClaimedBy(x, id, d, k)'
      BY <2>2
    <3>2. CASE x = c
      BY <1>2, <1>3, <3>1, <3>2 DEF ClaimedBy, Pending, ChunkCount
    <3>3. CASE x # c
      <4>1. ClaimedBy(x, id, d, k)
        BY <1>3, <3>1, <3>3 DEF ClaimedBy, Pending, ChunkCount
      <4> QED
        BY <4>1 DEF Claim
    <3> QED
      BY <3>2, <3>3
  <2> QED
    BY <1>5, <2>1, <2>2 DEF Claim, ClaimedIn
<1>6. ASSUME NEW id, NEW d, NEW k, Claim(id, d, k)'
      PROVE  id[2] <= clock' /\ k = ChunkCount(d)
  <2>1. CASE Claim(id, d, k)
    BY <1>4, <2>1 DEF ClaimInv
  <2>2. CASE id = new /\ d = e /\ k = ChunkCount(e)
    BY <1>1, <1>2, <2>2
  <2> QED
    BY <1>5, <1>6, <2>1, <2>2
<1>7. \A s \in survivors' : \A id, i : HasChunk(s, id, i) => id[2] <= clock'
  BY <1>1, <1>4
<1>8. ASSUME NEW id, NEW d, NEW k, NEW f, NEW l, Claim(id, d, k)', Claim(id, f, l)'
      PROVE  d = f
  <2>1. \/ Claim(id, d, k) /\ id # new
        \/ id = new /\ d = e
    BY <1>4, <1>5, <1>8
  <2>2. \/ Claim(id, f, l) /\ id # new
        \/ id = new /\ f = e
    BY <1>4, <1>5, <1>8
  <2> QED
    BY <2>1, <2>2 DEF ClaimInv
<1>9. ASSUME NEW s \in survivors', NEW id, NEW d, NEW k, NEW i,
             Claim(id, d, k)', HasChunk(s, id, i)
      PROVE  s[ChunkKey(id, i)] = Chunk(d, i)
  <2>1. s \in survivors /\ id # new
    BY <1>1, <1>4, <1>9
  <2>2. Claim(id, d, k)
    BY <1>5, <1>9, <2>1
  <2> QED
    BY <1>9, <2>1, <2>2 DEF ClaimInv
<1> QED
  BY <1>6, <1>7, <1>8, <1>9 DEF ClaimInv, HasChunk, Chunk, ChunkCount

\* A put writes a chunk: under its own identifier, so of the data that this stands for.
LEMMA PutChunkClaims ==
  ASSUME TypeOK, ClaimInv, NEW c \in Caller, PutChunk(c)
  PROVE  ClaimInv'
<1> DEFINE p == call[c]
           key == ChunkKey(p.id, p.next)
           q == [call[c] EXCEPT !.next = @ + 1]
<1>0. Pending(c) /\ p \in PutCall
  BY IdTypes DEF PutChunk, Pending
<1>1. call' = [call EXCEPT ![c] = q] /\ clock' = clock
  BY DEF PutChunk, Goto
<1>2. q.at = p.at /\ q.id = p.id /\ q.data = p.data
  BY <1>0 DEF PutCall
<1>3. KV!Put(key, Chunk(p.data, p.next))
  BY DEF PutChunk
<1> HIDE DEF q
<1>4. call'[c] = q
  BY <1>1 DEF TypeOK
<1>5. /\ Agree(map, map', key) /\ survivors' = survivors \cup {map'}
      /\ map'[key] = Chunk(p.data, p.next)
  BY <1>3, Written, WritesAgree
<1>6. ASSUME NEW id, NEW d, NEW k, ClaimedBy(c, id, d, k)' PROVE Claim(id, d, k)
  <2>1. ClaimedBy(c, id, d, k)
    BY <1>0, <1>2, <1>4, <1>6 DEF ClaimedBy, Pending, ChunkCount
  <2> QED
    BY <2>1 DEF Claim
<1>7. MetasOld
  BY MetasUnwritten
<1>8. ASSUME NEW id, NEW d, NEW k, ClaimedIn(map', id, d, k) PROVE Claim(id, d, k)
  <2>1. ClaimedIn(map, id, d, k)
    BY <1>7, <1>8 DEF ClaimedIn, MetasOld
  <2> QED
    BY <2>1, MetaClaims
<1>9. ClaimsOld
  BY <1>1, <1>5, <1>6, <1>8, ClaimsKept, Zenon
<1>10. Claim(p.id, p.data, ChunkCount(p.data))
  BY <1>0 DEF Claim, ClaimedBy
<1>11. ASSUME NEW s \in survivors', NEW id, NEW i, HasChunk(s, id, i)
       PROVE  \/ \E w \in survivors : /\ HasChunk(w, id, i)
                                      /\ s[ChunkKey(id, i)] = w[ChunkKey(id, i)]
              \/ id = p.id /\ s[ChunkKey(id, i)] = Chunk(p.data, i)
  <2>1. CASE s \in survivors
    BY <1>11, <2>1
  <2>2. CASE s = map' /\ ChunkKey(id, i) = key
    <3>1. id = p.id /\ i = p.next
      BY <2>2, KeysDiffer
    <3> QED
      BY <1>5, <2>2, <3>1
  <2>3. CASE s = map' /\ ChunkKey(id, i) # key
    <3> HIDE DEF key
    <3>1. HasChunk(map, id, i) /\ s[ChunkKey(id, i)] = map[ChunkKey(id, i)]
      BY <1>5, <1>11, <2>3 DEF Agree, HasChunk
    <3> QED
      BY <3>1 DEF TypeOK
  <2> QED
    BY <1>5, <2>1, <2>2, <2>3
<1> HIDE DEF p, key
<1>12. \A id, d, k : Claim(id, d, k)' => id[2] <= clock' /\ k = ChunkCount(d)
  BY <1>1, <1>9 DEF ClaimInv, ClaimsOld
<1>13. ASSUME NEW s \in survivors', NEW id, NEW i, HasChunk(s, id, i)
       PROVE  id[2] <= clock'
  BY <1>1, <1>10, <1>11, <1>13 DEF ClaimInv
<1>14. \A id, d, k, e, l : Claim(id, d, k)' /\ Claim(id, e, l)' => d = e
  BY <1>9 DEF ClaimInv, ClaimsOld
<1>15. ASSUME NEW s \in survivors', NEW id, NEW d, NEW k, NEW i,
              Claim(id, d, k)', HasChunk(s, id, i)
       PROVE  s[ChunkKey(id, i)] = Chunk(d, i)
  <2>1. Claim(id, d, k)
    BY <1>9, <1>15 DEF ClaimsOld
  <2>2. CASE \E w \in survivors : /\ HasChunk(w, id, i)
                                  /\ s[ChunkKey(id, i)] = w[ChunkKey(id, i)]
    BY <2>1, <2>2 DEF ClaimInv
  <2>3. CASE id = p.id /\ s[ChunkKey(id, i)] = Chunk(p.data, i)
    <3>1. d = p.data
      BY <1>10, <2>1, <2>3 DEF ClaimInv
    <3> QED
      BY <2>3, <3>1
  <2> QED
    BY <1>11, <1>15, <2>2, <2>3
<1> QED
  BY <1>12, <1>13, <1>14, <1>15 DEF ClaimInv, HasChunk, Chunk, ChunkCount

\* Metadata is written of an object that the writer knows.
LEMMA WriteClaims ==
  ASSUME TypeOK, ClaimInv, NEW c \in Caller, NEW n \in Name, NEW meta, NEW q,
         KV!Put(ObjectMetaKey(n), meta), Claim(meta.id, meta.etag, meta.count),
         call' = [call EXCEPT ![c] = q], clock' = clock,
         q.at \notin {"put_chunks", "get_chunks", "del_meta"}
  PROVE  ClaimInv'
<1>1. /\ Agree(map, map', ObjectMetaKey(n)) /\ survivors' = survivors \cup {map'}
      /\ map'[ObjectMetaKey(n)] = meta
  BY Written, WritesAgree
<1>2. call'[c] = q
  BY DEF TypeOK
<1>3. \A id, d, k : ~ClaimedBy(c, id, d, k)'
  BY <1>2 DEF ClaimedBy, Pending
<1>4. ASSUME NEW id, NEW d, NEW k, ClaimedIn(map', id, d, k) PROVE Claim(id, d, k)
  <2>1. PICK m \in Name : /\ ObjectMetaKey(m) \in DOMAIN map'
                          /\ id = map'[ObjectMetaKey(m)].id
                          /\ d = map'[ObjectMetaKey(m)].etag
                          /\ k = map'[ObjectMetaKey(m)].count
    BY <1>4 DEF ClaimedIn
  <2>2. CASE m = n
    BY <1>1, <2>1, <2>2
  <2>3. CASE m # n
    <3>1. ObjectMetaKey(m) # ObjectMetaKey(n)
      BY <2>3, KeysDiffer
    <3>2. ObjectMetaKey(m) \in DOMAIN map /\ map'[ObjectMetaKey(m)] = map[ObjectMetaKey(m)]
      BY <1>1, <2>1, <3>1 DEF Agree
    <3>3. ClaimedIn(map, id, d, k)
      BY <2>1, <3>2 DEF ClaimedIn
    <3> QED
      BY <3>3, MetaClaims
  <2> QED
    BY <2>2, <2>3
<1>5. ClaimsOld
  BY <1>1, <1>3, <1>4, ClaimsKept, Zenon
<1>6. SameChunks
  BY MetadataChunks
<1>7. ChunksOld
  BY <1>1, <1>6, ChunksKept DEF SameChunks, HasChunk
<1> QED
  BY <1>5, <1>7, ClaimKept

LEMMA PutMetadataClaims ==
  ASSUME TypeOK, ClaimInv, NEW c \in Caller, PutMetadata(c)
  PROVE  ClaimInv'
<1> DEFINE p == call[c]
           q == [call[c] EXCEPT !.at = "put_index"]
           meta == [id |-> p.id, size |-> Len(p.data), count |-> ChunkCount(p.data),
                    etag |-> p.data, state |-> "Committed"]
<1>1. Pending(c) /\ p \in PutCall /\ p.name \in Name
  BY IdTypes DEF PutMetadata, Pending
<1>2. q.at = "put_index"
  BY <1>1 DEF PutCall
<1>3. /\ KV!Put(ObjectMetaKey(p.name), meta)
      /\ call' = [call EXCEPT ![c] = q] /\ clock' = clock
  BY DEF PutMetadata, Goto
<1>4. Claim(p.id, p.data, ChunkCount(p.data))
  BY <1>1 DEF Claim, ClaimedBy
<1>5. meta.id = p.id /\ meta.etag = p.data /\ meta.count = ChunkCount(p.data)
  OBVIOUS
<1> HIDE DEF meta, q
<1> QED
  BY <1>1, <1>2, <1>3, <1>4, <1>5, WriteClaims, Zenon

LEMMA DeleteMetadataClaims ==
  ASSUME TypeOK, ClaimInv, NEW c \in Caller, DeleteMetadata(c)
  PROVE  ClaimInv'
<1> DEFINE d == call[c]
           q == [call[c] EXCEPT !.at = "del_index"]
           meta == [call[c].meta EXCEPT !.state = "Deleted"]
<1>1. d.at = "del_meta" /\ d \in DeleteCall /\ d.name \in Name /\ d.meta \in Metadata
  BY CallKinds, MetaTypes DEF DeleteMetadata, TypeOK
<1>2. q.at = "del_index"
  BY <1>1 DEF DeleteCall
<1>3. /\ KV!Put(ObjectMetaKey(d.name), meta)
      /\ call' = [call EXCEPT ![c] = q] /\ clock' = clock
  BY DEF DeleteMetadata, Goto
<1>4. Claim(d.meta.id, d.meta.etag, d.meta.count)
  BY <1>1 DEF Claim, ClaimedBy
<1>5. meta.id = d.meta.id /\ meta.etag = d.meta.etag /\ meta.count = d.meta.count
  BY <1>1 DEF Metadata
<1> HIDE DEF meta, q
<1> QED
  BY <1>1, <1>2, <1>3, <1>4, <1>5, WriteClaims, Zenon

\* A garbage collection has no claims, and what it removes are chunks.
LEMMA CollectClaims ==
  ASSUME TypeOK, ClaimInv, NEW c \in Caller,
         GarbageCollectChunks(c) \/ GcMark(c) \/ GcScan(c) \/ GcSweep(c)
  PROVE  ClaimInv'
<1>1. PICK q : call' = [call EXCEPT ![c] = q] /\ q.at \in {"gc_mark", "gc_sweep"}
  BY CollectCalls
<1>2. call'[c] = q /\ \A x \in Caller : x # c => call'[x] = call[x]
  BY <1>1 DEF TypeOK
<1>3. clock' = clock
  BY Zenon DEF GarbageCollectChunks, GcMark, GcScan, GcSweep
<1>4. \/ map' = map /\ survivors' = survivors
      \/ \E key \in {"objchunk"} \X ObjectId \X Nat :
           Agree(map, map', key) /\ key \notin DOMAIN map' /\ survivors' = survivors \cup {map'}
  BY CollectDrops
<1>5. /\ survivors' \subseteq survivors \cup {map'}
      /\ \A id, i : HasChunk(map', id, i) =>
           HasChunk(map, id, i) /\ map'[ChunkKey(id, i)] = map[ChunkKey(id, i)]
  <2>1. CASE map' = map /\ survivors' = survivors
    BY <2>1
  <2>2. CASE \E key \in {"objchunk"} \X ObjectId \X Nat :
               Agree(map, map', key) /\ key \notin DOMAIN map' /\ survivors' = survivors \cup {map'}
    <3>1. PICK key \in {"objchunk"} \X ObjectId \X Nat :
               Agree(map, map', key) /\ key \notin DOMAIN map' /\ survivors' = survivors \cup {map'}
      BY <2>2
    <3> QED
      BY <3>1 DEF Agree, HasChunk
  <2> QED
    BY <1>4, <2>1, <2>2
<1>6. ASSUME NEW id, NEW d, NEW k, ClaimedIn(map', id, d, k) PROVE Claim(id, d, k)
  <2>1. ClaimedIn(map, id, d, k)
    BY <1>6, MetasUnwritten DEF ClaimedIn, MetasOld
  <2> QED
    BY <2>1, MetaClaims
<1>7. \A id, d, k : ~ClaimedBy(c, id, d, k)'
  BY <1>1, <1>2 DEF ClaimedBy, Pending
<1>8. ClaimsOld
  BY <1>1, <1>5, <1>6, <1>7, ClaimsKept, Zenon
<1>9. ChunksOld
  BY <1>5, ChunksKept
<1> QED
  BY <1>3, <1>8, <1>9, ClaimKept

\* A crash leaves contents that it could have left, and no callers.
LEMMA CrashClaims ==
  ASSUME TypeOK, ClaimInv, Crash
  PROVE  ClaimInv'
<1>1. /\ map' \in survivors /\ survivors' \subseteq survivors /\ clock' = clock
      /\ call' = [x \in Caller |-> Idle]
  BY DEF Crash, KV!Crash
<1>2. \A x \in Caller : call'[x].at = "idle"
  BY <1>1 DEF Idle
<1>3. \A x \in Caller : \A id, d, k : ~ClaimedBy(x, id, d, k)'
  BY <1>2 DEF ClaimedBy, Pending
<1>4. ASSUME NEW id, NEW d, NEW k, Claim(id, d, k)' PROVE Claim(id, d, k)
  <2>1. PICK s \in survivors' : ClaimedIn(s, id, d, k)
    BY <1>3, <1>4 DEF Claim, ClaimedIn
  <2> QED
    BY <1>1, <2>1 DEF Claim
<1>5. ClaimsOld
  BY <1>4 DEF ClaimsOld
<1>6. ChunksOld
  BY <1>1 DEF ChunksOld
<1> QED
  BY <1>1, <1>2, <1>5, <1>6, ClaimKept

-----------------------------------------------------------------------------
(* Reading chunk by chunk.                                                 *)

LEMMA ReadKept ==
  ASSUME TypeOK, ReadInv, NEW c \in Caller, NEW q, call' = [call EXCEPT ![c] = q],
         q.at = "get_chunks" => q.data = Front(q.meta.etag, q.next)
  PROVE  ReadInv'
<1>1. call'[c] = q /\ \A x \in Caller : x # c => call'[x] = call[x]
  BY DEF TypeOK
<1> QED
  BY <1>1 DEF ReadInv, Front

\* The chunk that GetObject appends is the next one of its object.
LEMMA GetChunkRead ==
  ASSUME TypeOK, ClaimInv, ReadInv, NEW c \in Caller, GetChunk(c)
  PROVE  ReadInv'
<1> DEFINE g == call[c]
           e == call[c].meta.etag
           key == ChunkKey(g.meta.id, g.next)
           q == [call[c] EXCEPT !.next = @ + 1, !.data = @ \o map[key]]
<1>1. g.at = "get_chunks" /\ g \in GetCall /\ g.next < g.meta.count /\ g.next \in Nat
  BY CallKinds DEF GetChunk, TypeOK, GetCall
<1>2. g.meta \in Metadata /\ e \in Data
  BY <1>1, MetaTypes DEF Metadata
<1>3. CASE key \in DOMAIN map /\ call' = [call EXCEPT ![c] = q]
  <2>1. Claim(g.meta.id, e, g.meta.count)
    BY <1>1 DEF Claim, ClaimedBy
  <2>2. g.meta.count = ChunkCount(e)
    BY <2>1 DEF ClaimInv
  <2>3. map[key] = Chunk(e, g.next)
    BY <1>3, <2>1 DEF ClaimInv, HasChunk, TypeOK
  <2>4. g.data = Front(e, g.next)
    BY <1>1 DEF ReadInv
  <2>5. Front(e, g.next) \o Chunk(e, g.next) = Front(e, g.next + 1)
    BY <1>1, <1>2, <2>2, Fronts, Zenon
  <2>6. q.meta = g.meta /\ q.next = g.next + 1 /\ q.data = g.data \o map[key]
    BY <1>1, Zenon DEF GetCall
  <2> HIDE DEF q, key
  <2>7. q.data = Front(q.meta.etag, q.next)
    BY <2>3, <2>4, <2>5, <2>6, Zenon
  <2> QED
    BY <1>3, <2>7, ReadKept, Zenon
<1>4. CASE call' = [call EXCEPT ![c] = Idle]
  <2>1. Idle.at # "get_chunks"
    BY DEF Idle
  <2> QED
    BY <1>4, <2>1, ReadKept, Zenon
<1> QED
  BY <1>3, <1>4, Zenon DEF GetChunk, Goto, Return

LEMMA GetObjectRead ==
  ASSUME TypeOK, ReadInv, NEW c \in Caller, NEW n \in Name, GetObject(c, n)
  PROVE  ReadInv'
<1> DEFINE q == [at |-> "get_chunks", name |-> n, meta |-> map[ObjectMetaKey(n)],
                 next |-> 0, data |-> <<>>]
<1>1. map[ObjectMetaKey(n)] \in Metadata
  BY KeyTypes DEF GetObject, TypeOK, Typed
<1>2. map[ObjectMetaKey(n)].etag \in Data
  BY <1>1 DEF Metadata
<1>3. Front(map[ObjectMetaKey(n)].etag, 0) = <<>>
  BY <1>2, Fronts
<1>4. call' = [call EXCEPT ![c] = q]
  BY DEF GetObject, Begin
<1>5. q.meta = map[ObjectMetaKey(n)] /\ q.next = 0 /\ q.data = <<>>
  OBVIOUS
<1> HIDE DEF q
<1>6. q.data = Front(q.meta.etag, q.next)
  BY <1>3, <1>5, Zenon
<1> QED
  BY <1>4, <1>6, ReadKept, Zenon

LEMMA OtherRead ==
  ASSUME TypeOK, ClaimInv, ReadInv, NEW c \in Caller, Other(c)
  PROVE  ReadInv'
<1>1. PICK q : /\ call' = [call EXCEPT ![c] = q]
               /\ q.at = "get_chunks" => GetChunk(c) \/ \E n \in Name : GetObject(c, n)
  BY Zenon DEF Other
<1>2. CASE q.at # "get_chunks"
  BY <1>1, <1>2, ReadKept, Zenon
<1>3. CASE q.at = "get_chunks"
  BY <1>1, <1>3, GetChunkRead, GetObjectRead
<1> QED
  BY <1>2, <1>3

LEMMA CollectAway ==
  ASSUME TypeOK, NEW c \in Caller,
         GarbageCollectChunks(c) \/ GcMark(c) \/ GcScan(c) \/ GcSweep(c)
  PROVE  \A x \in Caller : call'[x].at = "get_chunks" => call'[x] = call[x]
<1>1. PICK q : call' = [call EXCEPT ![c] = q] /\ q.at \in {"gc_mark", "gc_sweep"}
  BY CollectCalls
<1> QED
  BY <1>1 DEF TypeOK

\* Writers do not read.
LEMMA WritersAway ==
  ASSUME TypeOK, NEW c \in Caller,
         \/ \E n \in Name, d \in Data : PutObject(c, n, d)
         \/ PutChunk(c) \/ PutMetadata(c) \/ DeleteMetadata(c)
  PROVE  \A x \in Caller : call'[x].at = "get_chunks" => call'[x] = call[x]
<1>0. ASSUME NEW q, call' = [call EXCEPT ![c] = q], q.at # "get_chunks"
      PROVE  \A x \in Caller : call'[x].at = "get_chunks" => call'[x] = call[x]
  BY <1>0 DEF TypeOK
<1>1. CASE \E n \in Name, d \in Data : PutObject(c, n, d)
  <2>1. PICK n \in Name, d \in Data : PutObject(c, n, d)
    BY <1>1
  <2>2. PICK now : call' = [call EXCEPT ![c] = [at |-> "put_chunks", name |-> n,
                     id |-> <<n, now>>, data |-> d, next |-> 0]]
    BY <2>1, Zenon DEF PutObject, Begin
  <2> DEFINE q == [at |-> "put_chunks", name |-> n, id |-> <<n, now>>, data |-> d,
                   next |-> 0]
  <2>3. q.at # "get_chunks" /\ call' = [call EXCEPT ![c] = q]
    BY <2>2
  <2> HIDE DEF q
  <2> QED
    BY <1>0, <2>3
<1>2. CASE PutChunk(c)
  <2> DEFINE q == [call[c] EXCEPT !.next = @ + 1]
  <2>1. call[c] \in PutCall
    BY <1>2, CallKinds DEF PutChunk, TypeOK
  <2>2. q.at = call[c].at /\ call[c].at = "put_chunks" /\ call' = [call EXCEPT ![c] = q]
    BY <1>2, <2>1 DEF PutChunk, Goto, PutCall
  <2> HIDE DEF q
  <2> QED
    BY <1>0, <2>2
<1>3. CASE PutMetadata(c)
  <2> DEFINE q == [call[c] EXCEPT !.at = "put_index"]
  <2>1. call[c] \in PutCall
    BY <1>3, CallKinds DEF PutMetadata, TypeOK
  <2>2. q.at = "put_index" /\ call' = [call EXCEPT ![c] = q]
    BY <1>3, <2>1 DEF PutMetadata, Goto, PutCall
  <2> HIDE DEF q
  <2> QED
    BY <1>0, <2>2
<1>4. CASE DeleteMetadata(c)
  <2> DEFINE q == [call[c] EXCEPT !.at = "del_index"]
  <2>1. call[c] \in DeleteCall
    BY <1>4, CallKinds DEF DeleteMetadata, TypeOK
  <2>2. q.at = "del_index" /\ call' = [call EXCEPT ![c] = q]
    BY <1>4, <2>1 DEF DeleteMetadata, Goto, DeleteCall
  <2> HIDE DEF q
  <2> QED
    BY <1>0, <2>2
<1> QED
  BY <1>1, <1>2, <1>3, <1>4

-----------------------------------------------------------------------------

WholeInv == TypeOK /\ ClaimInv /\ ReadInv

LEMMA WholeInit == Init => WholeInv
<1> SUFFICES ASSUME Init PROVE WholeInv
  OBVIOUS
<1>1. survivors = {KV!Empty} /\ DOMAIN KV!Empty = {} /\ call = [c \in Caller |-> Idle]
  BY DEF Init, KV!Init, KV!Empty
<1>2. \A c \in Caller : call[c].at = "idle"
  BY <1>1 DEF Idle
<1>3. \A c \in Caller : \A id, d, k : ~ClaimedBy(c, id, d, k)
  BY <1>2 DEF ClaimedBy, Pending
<1>4. \A s \in survivors : DOMAIN s = {}
  BY <1>1
<1>5. \A id, d, k : ~Claim(id, d, k)
  BY <1>3, <1>4 DEF Claim, ClaimedIn
<1>6. \A s \in survivors : \A id, i : ~HasChunk(s, id, i)
  BY <1>4 DEF HasChunk
<1>7. ClaimInv
  BY <1>5, <1>6 DEF ClaimInv
<1>8. ReadInv
  BY <1>2 DEF ReadInv
<1> QED
  BY <1>7, <1>8, TypeInit DEF WholeInv

LEMMA WholeNext ==
  ASSUME "same_ms" \notin Features
  PROVE  WholeInv /\ [Next]_vars => WholeInv'
<1> SUFFICES ASSUME WholeInv, [Next]_vars PROVE WholeInv'
  OBVIOUS
<1>0. TypeOK /\ ClaimInv /\ ReadInv /\ TypeOK'
  BY TypeNext DEF WholeInv
<1>1. ASSUME \A x \in Caller : call'[x].at = "get_chunks" => call'[x] = call[x]
      PROVE  ReadInv'
  BY <1>0, <1>1 DEF ReadInv, Front
<1>2. CASE Crash
  BY <1>0, <1>2, CrashClaims, CrashAway DEF WholeInv, ReadInv
<1>3. ASSUME NEW c \in Caller, Other(c) PROVE WholeInv'
  BY <1>0, <1>3, OtherClaims, OtherRead DEF WholeInv
<1>4. ASSUME NEW c \in Caller, NEW n \in Name, NEW d \in Data, PutObject(c, n, d)
      PROVE  WholeInv'
  <2>1. ClaimInv' /\ \A x \in Caller : call'[x].at = "get_chunks" => call'[x] = call[x]
    BY <1>0, <1>4, PutObjectClaims, WritersAway
  <2> QED
    BY <1>0, <1>1, <2>1 DEF WholeInv
<1>5. ASSUME NEW c \in Caller, PutChunk(c) \/ PutMetadata(c) \/ DeleteMetadata(c)
      PROVE  WholeInv'
  <2>1. ClaimInv' /\ \A x \in Caller : call'[x].at = "get_chunks" => call'[x] = call[x]
    BY <1>0, <1>5, PutChunkClaims, PutMetadataClaims, DeleteMetadataClaims, WritersAway
  <2> QED
    BY <1>0, <1>1, <2>1 DEF WholeInv
<1>6. ASSUME NEW c \in Caller,
             GarbageCollectChunks(c) \/ GcMark(c) \/ GcScan(c) \/ GcSweep(c)
      PROVE  WholeInv'
  <2>1. ClaimInv' /\ \A x \in Caller : call'[x].at = "get_chunks" => call'[x] = call[x]
    BY <1>0, <1>6, CollectClaims, CollectAway
  <2> QED
    BY <1>0, <1>1, <2>1 DEF WholeInv
<1>7. CASE UNCHANGED vars
  <2>1. UNCHANGED <<survivors, clock, call>>
    BY <1>7 DEF vars
  <2>2. \A c \in Caller : \A id, d, k : ClaimedBy(c, id, d, k)' <=> ClaimedBy(c, id, d, k)
    BY <2>1 DEF ClaimedBy, Pending, ChunkCount
  <2>3. ClaimsOld
    BY <2>1, <2>2 DEF ClaimsOld, Claim, ClaimedIn
  <2>4. ChunksOld
    BY <2>1 DEF ChunksOld
  <2>5. ClaimInv'
    BY <1>0, <2>1, <2>3, <2>4, ClaimKept
  <2> QED
    BY <1>0, <2>1, <2>5 DEF WholeInv, ReadInv, Front
<1> QED
  BY <1>0, <1>2, <1>3, <1>4, <1>5, <1>6, <1>7, Steps

\* GetObject returns the object whose metadata it has read, whole and unmixed, for
\* any number of callers, any objects and chunk size, any failed flushes, crashes and
\* garbage collections, those that overlap a put included, as long as no two puts read
\* the same millisecond: make_object_id has nothing else that tells two puts apart.
THEOREM GetWhole ==
  ASSUME "same_ms" \notin Features
  PROVE  Spec => []GetReturnsWhole
<1>1. WholeInv => GetReturnsWhole
  <2> SUFFICES ASSUME WholeInv, NEW c \in Caller, call[c].at = "get_chunks",
                      call[c].next = call[c].meta.count
               PROVE  call[c].data = call[c].meta.etag
    BY DEF GetReturnsWhole
  <2>1. call[c].meta.etag \in Data
    BY MetaTypes DEF WholeInv, Metadata
  <2>2. Claim(call[c].meta.id, call[c].meta.etag, call[c].meta.count)
    BY DEF Claim, ClaimedBy
  <2>3. call[c].next = ChunkCount(call[c].meta.etag)
    BY <2>2 DEF WholeInv, ClaimInv
  <2>4. call[c].data = Front(call[c].meta.etag, call[c].next)
    BY DEF WholeInv, ReadInv
  <2> QED
    BY <2>1, <2>3, <2>4, Fronts
<1> QED
  BY <1>1, WholeInit, WholeNext, PTL DEF Spec

-----------------------------------------------------------------------------
(* A chunk that is missing.                                                *)

\* The objects that a crash can leave, and those that are there, are whole.
AllWhole == \A s \in survivors : \A n \in Committed(s) : Whole(s, s[ObjectMetaKey(n)])

\* The metadata of an object that is being read was there, and still is, perhaps
\* as another one.
GetInv ==
  \A c \in Caller : call[c].at = "get_chunks" =>
    ObjectMetaKey(call[c].name) \in DOMAIN map /\ call[c].meta.state = "Committed"

\* An object is seen as its data just if it is whole.
LEMMA WholeViews ==
  ASSUME NEW s, Typed(s), NEW n \in Committed(s)
  PROVE  Whole(s, s[ObjectMetaKey(n)]) <=> View(s)[n] \in Data
<1>1. s[ObjectMetaKey(n)] \in Metadata
  BY KeyTypes DEF Typed, Committed
<1>2. s[ObjectMetaKey(n)].etag \in Data /\ Broken \notin Data
  BY <1>1, ObjectAssumption DEF Metadata
<1>3. View(s)[n] = IF Whole(s, s[ObjectMetaKey(n)]) THEN s[ObjectMetaKey(n)].etag ELSE Broken
  BY DEF View
<1> QED
  BY <1>2, <1>3

LEMMA AllWholeNext ==
  ASSUME ObjectInv, TypeOK', [Next]_vars, AllWhole
  PROVE  AllWhole'
<1> DEFINE Good(f) == \A n \in DOMAIN f : f[n] \in Data
<1>0. TypeOK /\ \A s \in survivors : Good(View(s))
  BY WholeViews, ViewDomain DEF ObjectInv, TypeOK, AllWhole
<1>1. \A s \in survivors' : Good(View(s))
  <2>0. map \in survivors
    BY <1>0 DEF TypeOK
  <2>1. CASE SameObjects
    BY <1>0, <2>0, <2>1 DEF SameObjects
  <2>2. CASE \E c \in Caller : PutMetadata(c)
    <3>1. PICK c \in Caller : PutMetadata(c)
      BY <2>2
    <3>2. /\ call[c].data \in Data
          /\ View(map') = Sets(View(map), call[c].name, call[c].data)
          /\ survivors' = survivors \cup {map'}
      BY <3>1, PutMetadataEffect
    <3>3. Good(View(map'))
      BY <1>0, <2>0, <3>2 DEF Sets
    <3> QED
      BY <1>0, <3>2, <3>3
  <2>3. CASE \E c \in Caller : DeleteMetadata(c)
    <3>1. PICK c \in Caller : DeleteMetadata(c)
      BY <2>3
    <3>2. /\ View(map') = Drops(View(map), call[c].name)
          /\ survivors' = survivors \cup {map'}
      BY <1>0, <3>1, DeleteMetadataEffect
    <3>3. Good(View(map'))
      BY <1>0, <2>0, <3>2 DEF Drops
    <3> QED
      BY <1>0, <3>2, <3>3
  <2>4. CASE Crash
    BY <1>0, <2>4 DEF Crash, KV!Crash
  <2> QED
    BY <2>1, <2>2, <2>3, <2>4, SameUnless
<1>2. \A s \in survivors' : \A n \in Committed(s) : Whole(s, s[ObjectMetaKey(n)])
  BY <1>1, WholeViews, ViewDomain DEF TypeOK
<1> QED
  BY <1>2 DEF AllWhole

LEMMA GetInvNext ==
  ASSUME TypeOK, [Next]_vars, GetInv
  PROVE  GetInv'
<1> DEFINE Stays == \A n \in Name : ObjectMetaKey(n) \in DOMAIN map =>
                                      ObjectMetaKey(n) \in DOMAIN map'
<1>1. CASE Crash
  BY <1>1, CrashAway DEF GetInv
<1>2. CASE ~Crash
  <2>1. Stays
    BY <1>2, MetaStays
  <2>2. ASSUME \A x \in Caller : call'[x].at = "get_chunks" => call'[x] = call[x]
        PROVE  GetInv'
    BY <2>1, <2>2, MetaTypes DEF GetInv
  <2>3. ASSUME NEW c \in Caller, Other(c) PROVE GetInv'
    <3>1. PICK q : /\ call' = [call EXCEPT ![c] = q]
                   /\ q.at = "get_chunks" => GetChunk(c) \/ \E n \in Name : GetObject(c, n)
      BY <2>3, Zenon DEF Other
    <3>2. call'[c] = q /\ \A x \in Caller : x # c => call'[x] = call[x]
      BY <3>1 DEF TypeOK
    <3>3. ASSUME q.at = "get_chunks"
          PROVE  ObjectMetaKey(q.name) \in DOMAIN map' /\ q.meta.state = "Committed"
      <4>1. CASE GetChunk(c)
        <5>1. call[c].at = "get_chunks" /\ call[c] \in GetCall /\ Idle.at # "get_chunks"
          BY <4>1, CallKinds DEF GetChunk, TypeOK, Idle
        <5> DEFINE g == [call[c] EXCEPT !.next = @ + 1,
                           !.data = @ \o map[ChunkKey(call[c].meta.id, call[c].next)]]
        <5>2. g.name = call[c].name /\ g.meta = call[c].meta
          BY <5>1 DEF GetCall
        <5>3. call' = [call EXCEPT ![c] = g] \/ call' = [call EXCEPT ![c] = Idle]
          BY <4>1, Zenon DEF GetChunk, Goto, Return
        <5> HIDE DEF g
        <5>4. q = g \/ q = Idle
          BY <3>2, <5>3 DEF TypeOK
        <5> QED
          BY <2>1, <3>3, <5>1, <5>2, <5>4, MetaTypes DEF GetInv
      <4>2. CASE \E n \in Name : GetObject(c, n)
        <5>1. PICK n \in Name : GetObject(c, n)
          BY <4>2
        <5> DEFINE g == [at |-> "get_chunks", name |-> n, meta |-> map[ObjectMetaKey(n)],
                         next |-> 0, data |-> <<>>]
        <5>2. g.name = n /\ g.meta = map[ObjectMetaKey(n)]
          OBVIOUS
        <5>3. call' = [call EXCEPT ![c] = g] /\ ObjectMetaKey(n) \in DOMAIN map
              /\ map[ObjectMetaKey(n)].state # "Deleted"
          BY <5>1 DEF GetObject, Begin
        <5> HIDE DEF g
        <5>4. q = g
          BY <3>2, <5>3 DEF TypeOK
        <5>5. map[ObjectMetaKey(n)] \in Metadata
          BY <5>3, KeyTypes DEF TypeOK, Typed
        <5>6. map[ObjectMetaKey(n)].state = "Committed"
          BY <5>3, <5>5 DEF Metadata
        <5> QED
          BY <2>1, <5>2, <5>3, <5>4, <5>6
      <4> QED
        BY <3>1, <3>3, <4>1, <4>2
    <3> QED
      BY <2>1, <3>2, <3>3, MetaTypes DEF GetInv
  <2>4. UNCHANGED vars => GetInv'
    BY <2>2 DEF vars
  <2> QED
    BY <1>2, <2>2, <2>3, <2>4, Steps, WritersAway, CollectAway, Zenon
<1> QED
  BY <1>1, <1>2

\* Under Features = {}: GetObject misses a chunk only if its object was replaced or
\* deleted after it has read the metadata; a collection takes no chunk of an object
\* that is still there.
THEOREM MissingReplaced ==
  ASSUME Features = {}
  PROVE  Spec => []MissingOnlyIfReplaced
<1> DEFINE Inv == ObjectInv /\ AllWhole /\ GetInv
<1>1. Init => Inv
  <2> SUFFICES ASSUME Init PROVE AllWhole /\ GetInv
    BY ObjectInit
  <2>1. \A c \in Caller : call[c].at = "idle"
    BY DEF Init, Idle
  <2>2. \A s \in survivors : DOMAIN s = {}
    BY DEF Init, KV!Init, KV!Empty
  <2> QED
    BY <2>1, <2>2 DEF AllWhole, GetInv, Committed
<1>2. Inv /\ [Next]_vars => Inv'
  <2> SUFFICES ASSUME Inv, [Next]_vars PROVE Inv'
    OBVIOUS
  <2>1. ObjectInv' /\ TypeOK' /\ TypeOK
    BY ObjectNext DEF ObjectInv
  <2> QED
    BY <2>1, AllWholeNext, GetInvNext
<1>3. Inv => MissingOnlyIfReplaced
  <2> SUFFICES ASSUME Inv, NEW c \in Caller, call[c].at = "get_chunks",
                      call[c].next < call[c].meta.count,
                      ChunkKey(call[c].meta.id, call[c].next) \notin DOMAIN map,
                      map[ObjectMetaKey(call[c].name)] = call[c].meta
               PROVE  FALSE
    BY DEF MissingOnlyIfReplaced
  <2>1. /\ call[c].name \in Name /\ call[c].meta.count \in Nat /\ call[c].next \in Nat
        /\ map \in survivors
    BY MetaTypes, CallKinds DEF ObjectInv, TypeOK, Metadata, GetCall
  <2>2. call[c].name \in Committed(map)
    BY <2>1 DEF GetInv, Committed
  <2>3. Whole(map, call[c].meta)
    BY <2>1, <2>2 DEF AllWhole
  <2> QED
    BY <2>1, <2>3 DEF Whole
<1> HIDE DEF Inv
<1> QED
  BY <1>1, <1>2, <1>3, PTL DEF Spec

-----------------------------------------------------------------------------
(* What a garbage collection leaves.                                       *)

\* The identifier of an object holds its name.
OwnIds ==
  /\ \A s \in survivors, n \in Name :
       ObjectMetaKey(n) \in DOMAIN s => s[ObjectMetaKey(n)].id[1] = n
  /\ \A c \in Caller : Pending(c) => call[c].id[1] = call[c].name
  /\ \A c \in Caller : call[c].at = "del_meta" => call[c].meta.id[1] = call[c].name

\* While c collects: names with a writer are contended, what it has marked is still
\* committed, and the chunks that it will not look at any more are marked, but for
\* contended names.
SweepOf(c) ==
  /\ \A x \in Caller, n \in Name : Writes(x, n) => n \in contended
  /\ \A id \in call[c].live : \/ id[1] \in contended
                              \/ /\ id[1] \in Committed(map)
                                 /\ map[ObjectMetaKey(id[1])].id = id
  /\ call[c].at = "gc_sweep" =>
       \A id, i : HasChunk(map, id, i) =>
         ChunkKey(id, i) \in call[c].todo \/ id \in call[c].live \/ id[1] \in contended

SweepInv == \A c \in Caller : Collecting(c) => SweepOf(c)

GarbageInv == TypeOK /\ OwnIds /\ SweepInv

\* One caller's step that writes no metadata.
LEMMA OwnKept ==
  ASSUME TypeOK, OwnIds, MetasOld, survivors' \subseteq survivors \cup {map'},
         NEW c \in Caller, NEW q, call' = [call EXCEPT ![c] = q],
         q.at = "put_chunks" => q.id[1] = q.name,
         q.at = "del_meta" => q.meta.id[1] = q.name
  PROVE  OwnIds'
<1>1. call'[c] = q /\ \A x \in Caller : x # c => call'[x] = call[x]
  BY DEF TypeOK
<1>2. map \in survivors
  BY DEF TypeOK
<1>3. ASSUME NEW s \in survivors', NEW n \in Name, ObjectMetaKey(n) \in DOMAIN s
      PROVE  s[ObjectMetaKey(n)].id[1] = n
  <2>1. CASE s \in survivors
    BY <1>3, <2>1 DEF OwnIds
  <2>2. CASE s = map'
    BY <1>2, <1>3, <2>2 DEF OwnIds, MetasOld
  <2> QED
    BY <2>1, <2>2
<1>4. \A x \in Caller : Pending(x)' => call'[x].id[1] = call'[x].name
  BY <1>1 DEF OwnIds, Pending
<1>5. \A x \in Caller : call'[x].at = "del_meta" => call'[x].meta.id[1] = call'[x].name
  BY <1>1 DEF OwnIds
<1> QED
  BY <1>3, <1>4, <1>5 DEF OwnIds

\* Metadata is written under the name in its identifier.
LEMMA OwnWritten ==
  ASSUME TypeOK, OwnIds, NEW c \in Caller, NEW q, call' = [call EXCEPT ![c] = q],
         q.at \notin {"put_chunks", "del_meta"}, NEW n \in Name, NEW meta,
         KV!Put(ObjectMetaKey(n), meta), meta.id[1] = n
  PROVE  OwnIds'
<1>1. call'[c] = q /\ \A x \in Caller : x # c => call'[x] = call[x]
  BY DEF TypeOK
<1>2. map \in survivors
  BY DEF TypeOK
<1>3. /\ Agree(map, map', ObjectMetaKey(n)) /\ survivors' = survivors \cup {map'}
      /\ map'[ObjectMetaKey(n)] = meta
  BY Written, WritesAgree
<1>4. ASSUME NEW s \in survivors', NEW m \in Name, ObjectMetaKey(m) \in DOMAIN s
      PROVE  s[ObjectMetaKey(m)].id[1] = m
  <2>1. CASE s \in survivors
    BY <1>4, <2>1 DEF OwnIds
  <2>2. CASE s = map' /\ m = n
    BY <1>3, <2>2
  <2>3. CASE s = map' /\ m # n
    <3>1. ObjectMetaKey(m) # ObjectMetaKey(n)
      BY <2>3, KeysDiffer
    <3> QED
      BY <1>2, <1>3, <1>4, <2>3, <3>1 DEF OwnIds, Agree
  <2> QED
    BY <1>3, <2>1, <2>2, <2>3
<1>5. \A x \in Caller : Pending(x)' => call'[x].id[1] = call'[x].name
  BY <1>1 DEF OwnIds, Pending
<1>6. \A x \in Caller : call'[x].at = "del_meta" => call'[x].meta.id[1] = call'[x].name
  BY <1>1 DEF OwnIds
<1> QED
  BY <1>4, <1>5, <1>6 DEF OwnIds

\* A collection's own view of other callers' steps, and of other collections.
LEMMA SweepKept ==
  ASSUME NEW x \in Caller, Collecting(x), SweepOf(x), call'[x] = call[x],
         contended \subseteq contended',
         \A c \in Caller, n \in Name : Writes(c, n)' => Writes(c, n) \/ n \in contended',
         \A n \in Committed(map) \ contended :
           n \in Committed(map') /\ map'[ObjectMetaKey(n)].id = map[ObjectMetaKey(n)].id,
         \A id, i : HasChunk(map', id, i) => HasChunk(map, id, i) \/ id[1] \in contended
  PROVE  SweepOf(x)'
<1>1. \A c \in Caller, n \in Name : Writes(c, n)' => n \in contended'
  BY Zenon DEF SweepOf
<1>2. \A id \in call'[x].live : \/ id[1] \in contended'
                                \/ /\ id[1] \in Committed(map')
                                   /\ map'[ObjectMetaKey(id[1])].id = id
  BY DEF SweepOf
<1>3. call'[x].at = "gc_sweep" =>
        \A id, i : HasChunk(map', id, i) =>
          ChunkKey(id, i) \in call'[x].todo \/ id \in call'[x].live \/ id[1] \in contended'
  BY DEF SweepOf
<1> QED
  BY <1>1, <1>2, <1>3, Zenon DEF SweepOf, HasChunk, Committed

\* What is committed stays so where no metadata is written.
LEMMA CommittedStays ==
  ASSUME TypeOK, [Next]_vars, ~Crash, MetasOld
  PROVE  \A n \in Committed(map) :
           n \in Committed(map') /\ map'[ObjectMetaKey(n)].id = map[ObjectMetaKey(n)].id
BY MetaStays DEF MetasOld, Committed

\* A put or a delete begins.
LEMMA TouchGarbage ==
  ASSUME GarbageInv, NEW c \in Caller, NEW n \in Name, Touch(n), UNCHANGED contents,
         NEW q, call' = [call EXCEPT ![c] = q],
         q.at \in {"put_chunks", "del_meta"}, q.name = n,
         q.at = "put_chunks" => q.id[1] = n, q.at = "del_meta" => q.meta.id[1] = n
  PROVE  OwnIds' /\ SweepInv'
<1>0. TypeOK /\ OwnIds /\ map' = map /\ survivors' = survivors
  BY DEF GarbageInv, contents
<1>1. call'[c] = q /\ \A x \in Caller : x # c => call'[x] = call[x]
  BY <1>0 DEF TypeOK
<1>2. OwnIds'
  BY <1>0, OwnKept, Zenon DEF MetasOld
<1>3. ASSUME NEW x \in Caller, Collecting(x)' PROVE SweepOf(x)'
  <2>1. Collecting(x) /\ call'[x] = call[x]
    BY <1>1, <1>3 DEF Collecting
  <2>2. contended \subseteq contended' /\ n \in contended'
    BY <2>1 DEF Touch
  <2>3. \A y \in Caller, m \in Name : Writes(y, m)' => Writes(y, m) \/ m \in contended'
    BY <1>1, <2>2 DEF Writes, Putting, Deleting
  <2>4. SweepOf(x)
    BY <2>1 DEF GarbageInv, SweepInv
  <2> QED
    BY <1>0, <2>1, <2>2, <2>3, <2>4, SweepKept, Zenon
<1> QED
  BY <1>2, <1>3 DEF SweepInv

LEMMA PutObjectGarbage ==
  ASSUME GarbageInv, NEW c \in Caller, NEW n \in Name, NEW d \in Data, PutObject(c, n, d)
  PROVE  OwnIds' /\ SweepInv'
<1>1. PICK now : call' = [call EXCEPT ![c] =
        [at |-> "put_chunks", name |-> n, id |-> <<n, now>>, data |-> d, next |-> 0]]
  BY Zenon DEF PutObject, Begin
<1> DEFINE q == [at |-> "put_chunks", name |-> n, id |-> <<n, now>>, data |-> d, next |-> 0]
<1>2. call' = [call EXCEPT ![c] = q] /\ q.at = "put_chunks" /\ q.name = n /\ q.id[1] = n
  BY <1>1
<1>3. Touch(n) /\ UNCHANGED contents
  BY DEF PutObject
<1> HIDE DEF q
<1> QED
  BY <1>2, <1>3, TouchGarbage, Zenon

LEMMA DeleteObjectGarbage ==
  ASSUME GarbageInv, NEW c \in Caller, NEW n \in Name, DeleteObject(c, n)
  PROVE  OwnIds' /\ SweepInv'
<1> DEFINE q == [at |-> "del_meta", name |-> n, meta |-> map[ObjectMetaKey(n)]]
<1>1. /\ call' = [call EXCEPT ![c] = q]
      /\ q.at = "del_meta" /\ q.name = n /\ q.meta = map[ObjectMetaKey(n)]
      /\ Touch(n) /\ UNCHANGED contents
  BY DEF DeleteObject, Begin
<1>2. map[ObjectMetaKey(n)].id[1] = n
  BY DEF DeleteObject, GarbageInv, TypeOK, OwnIds
<1> HIDE DEF q
<1> QED
  BY <1>1, <1>2, TouchGarbage, Zenon

LEMMA OtherGarbage ==
  ASSUME GarbageInv, NEW c \in Caller, Other(c), Next, ~Crash
  PROVE  OwnIds' /\ SweepInv'
<1>0. TypeOK /\ OwnIds
  BY DEF GarbageInv
<1>1. CASE \E n \in Name : DeleteObject(c, n)
  BY <1>1, DeleteObjectGarbage
<1>2. CASE ~\E n \in Name : DeleteObject(c, n)
  <2>1. PICK q : /\ call' = [call EXCEPT ![c] = q]
                 /\ q.at \notin {"put_chunks", "del_meta", "gc_mark", "gc_sweep"}
    BY <1>2, Zenon DEF Other
  <2>2. call'[c] = q /\ \A x \in Caller : x # c => call'[x] = call[x]
    BY <1>0, <2>1 DEF TypeOK
  <2>3. MetasOld /\ SameChunks /\ survivors' \subseteq survivors \cup {map'}
    BY <1>0, MetasUnwritten, QuietView, QuietKept DEF Other
  <2>4. OwnIds'
    BY <1>0, <2>1, <2>3, OwnKept, Zenon
  <2>5. contended' = contended
    BY <1>2 DEF Other, history, PutFlush
  <2>6. \A y \in Caller, n \in Name : Writes(y, n)' => Writes(y, n)
    BY <1>0, <1>2, CarriesOther DEF Carries, Writes
  <2>7. \A n \in Committed(map) :
          n \in Committed(map') /\ map'[ObjectMetaKey(n)].id = map[ObjectMetaKey(n)].id
    BY <1>0, <2>3, CommittedStays
  <2>8. \A id, i : HasChunk(map', id, i) => HasChunk(map, id, i)
    BY <2>3 DEF SameChunks, HasChunk
  <2>9. ASSUME NEW x \in Caller, Collecting(x)' PROVE SweepOf(x)'
    <3>1. Collecting(x) /\ call'[x] = call[x]
      BY <2>1, <2>2, <2>9 DEF Collecting
    <3>2. SweepOf(x)
      BY <3>1 DEF GarbageInv, SweepInv
    <3> QED
      BY <2>5, <2>6, <2>7, <2>8, <3>1, <3>2, SweepKept, Zenon
  <2> QED
    BY <2>4, <2>9 DEF SweepInv
<1> QED
  BY <1>1, <1>2

\* A put of a contended name writes a chunk, or metadata, or a delete does.
LEMMA WriteGarbage ==
  ASSUME GarbageInv, NEW c \in Caller, PutChunk(c) \/ PutMetadata(c) \/ DeleteMetadata(c),
         Next, ~Crash
  PROVE  OwnIds' /\ SweepInv'
<1> DEFINE n == call[c].name
<1>0. TypeOK /\ OwnIds /\ UNCHANGED history
  BY DEF GarbageInv, PutChunk, PutMetadata, DeleteMetadata
<1>1. n \in Name /\ Writes(c, n)
  <2>1. CASE PutChunk(c) \/ PutMetadata(c)
    <3>1. Pending(c) /\ Putting(c)
      BY <2>1 DEF PutChunk, PutMetadata, Pending, Putting
    <3> QED
      BY <1>0, <3>1, IdTypes, Zenon DEF Writes
  <2>2. CASE DeleteMetadata(c)
    BY <1>0, <2>2, MetaTypes DEF DeleteMetadata, Writes, Deleting
  <2> QED
    BY <2>1, <2>2
<1>2. PICK q : /\ call' = [call EXCEPT ![c] = q]
               /\ q.name = n
               /\ q.at \in {"put_chunks", "put_index", "del_index"}
               /\ q.at = "put_chunks" => PutChunk(c) /\ q.id = call[c].id
  <2>1. CASE PutChunk(c)
    <3> DEFINE q == [call[c] EXCEPT !.next = @ + 1]
    <3>1. call[c] \in PutCall /\ call[c].at = "put_chunks"
      BY <1>0, <2>1, CallKinds DEF PutChunk, TypeOK
    <3>2. q.name = n /\ q.at = "put_chunks" /\ q.id = call[c].id
      BY <3>1 DEF PutCall
    <3>3. call' = [call EXCEPT ![c] = q]
      BY <2>1 DEF PutChunk, Goto
    <3> HIDE DEF q
    <3> QED
      BY <2>1, <3>2, <3>3, Zenon
  <2>2. CASE PutMetadata(c)
    <3> DEFINE q == [call[c] EXCEPT !.at = "put_index"]
    <3>1. call[c] \in PutCall
      BY <1>0, <2>2, CallKinds DEF PutMetadata, TypeOK
    <3>2. q.name = n /\ q.at = "put_index"
      BY <3>1 DEF PutCall
    <3>3. call' = [call EXCEPT ![c] = q]
      BY <2>2 DEF PutMetadata, Goto
    <3> HIDE DEF q
    <3> QED
      BY <3>2, <3>3, Zenon
  <2>3. CASE DeleteMetadata(c)
    <3> DEFINE q == [call[c] EXCEPT !.at = "del_index"]
    <3>1. call[c] \in DeleteCall
      BY <1>0, <2>3, CallKinds DEF DeleteMetadata, TypeOK
    <3>2. q.name = n /\ q.at = "del_index"
      BY <3>1 DEF DeleteCall
    <3>3. call' = [call EXCEPT ![c] = q]
      BY <2>3 DEF DeleteMetadata, Goto
    <3> HIDE DEF q
    <3> QED
      BY <3>2, <3>3, Zenon
  <2> QED
    BY <2>1, <2>2, <2>3
<1>3. call'[c] = q /\ \A x \in Caller : x # c => call'[x] = call[x]
  BY <1>0, <1>2 DEF TypeOK
<1>4. OwnIds'
  <2>1. CASE PutChunk(c)
    <3>1. MetasOld
      BY <1>0, <2>1, MetasUnwritten
    <3>2. survivors' = survivors \cup {map'}
      BY <2>1, Written DEF PutChunk
    <3>3. call[c].id[1] = n
      BY <1>0, <2>1 DEF PutChunk, OwnIds, Pending
    <3> QED
      BY <1>0, <1>2, <3>1, <3>2, <3>3, OwnKept, Zenon
  <2>2. CASE PutMetadata(c)
    <3> DEFINE meta == [id |-> call[c].id, size |-> Len(call[c].data),
                        count |-> ChunkCount(call[c].data), etag |-> call[c].data,
                        state |-> "Committed"]
    <3>1. KV!Put(ObjectMetaKey(n), meta) /\ meta.id = call[c].id
      BY <2>2 DEF PutMetadata
    <3>2. call[c].id[1] = n
      BY <1>0, <2>2 DEF PutMetadata, OwnIds, Pending
    <3>3. q.at = "put_index"
      <4>1. call[c] \in PutCall
        BY <1>0, <2>2, CallKinds DEF PutMetadata, TypeOK
      <4>2. q = [call[c] EXCEPT !.at = "put_index"]
        BY <1>0, <1>3, <2>2 DEF PutMetadata, Goto, TypeOK
      <4> QED
        BY <4>1, <4>2 DEF PutCall
    <3> HIDE DEF meta, n
    <3> QED
      BY <1>0, <1>1, <1>2, <3>1, <3>2, <3>3, OwnWritten, Zenon
  <2>3. CASE DeleteMetadata(c)
    <3> DEFINE meta == [call[c].meta EXCEPT !.state = "Deleted"]
    <3>1. call[c].at = "del_meta" /\ KV!Put(ObjectMetaKey(n), meta)
      BY <2>3 DEF DeleteMetadata
    <3>2. meta.id = call[c].meta.id
      BY <1>0, <3>1, MetaTypes DEF Metadata
    <3>3. call[c].meta.id[1] = n /\ q.at # "put_chunks"
      BY <1>0, <1>2, <3>1 DEF OwnIds, PutChunk
    <3> HIDE DEF meta, n
    <3> QED
      BY <1>0, <1>1, <1>2, <3>1, <3>2, <3>3, OwnWritten, Zenon
  <2> QED
    BY <2>1, <2>2, <2>3
<1>5. \A y \in Caller, m \in Name : Writes(y, m)' => Writes(y, m)
  BY <1>1, <1>2, <1>3 DEF Writes, Putting, Deleting
<1>6. \A m \in Committed(map) \ {n} :
        m \in Committed(map') /\ map'[ObjectMetaKey(m)].id = map[ObjectMetaKey(m)].id
  <2>1. CASE PutChunk(c)
    BY <1>0, <2>1, MetasUnwritten, CommittedStays
  <2>2. CASE PutMetadata(c) \/ DeleteMetadata(c)
    <3>1. PICK meta : KV!Put(ObjectMetaKey(n), meta)
      BY <2>2 DEF PutMetadata, DeleteMetadata
    <3>2. map' = Sets(map, ObjectMetaKey(n), meta)
      BY <3>1, Written
    <3> HIDE DEF n
    <3>3. \A m \in Name \ {n} : /\ m \in Committed(map') <=> m \in Committed(map)
                                /\ m \in Committed(map) =>
                                     map'[ObjectMetaKey(m)] = map[ObjectMetaKey(m)]
      BY <1>1, <3>2, ViewOthers
    <3> QED
      BY <3>3 DEF Committed
  <2> QED
    BY <2>1, <2>2
<1>7. \A id, i : HasChunk(map', id, i) => HasChunk(map, id, i) \/ id[1] = n
  <2>1. CASE PutChunk(c)
    <3> DEFINE key == ChunkKey(call[c].id, call[c].next)
    <3>1. \E v : map' = Sets(map, key, v)
      BY <2>1, Written DEF PutChunk
    <3>2. call[c].id[1] = n
      BY <1>0, <2>1 DEF PutChunk, OwnIds, Pending
    <3>3. \A id, i : ChunkKey(id, i) = key => id = call[c].id
      BY KeysDiffer
    <3> HIDE DEF key, n
    <3>4. Agree(map, map', key)
      BY <3>1, WritesAgree
    <3> QED
      BY <3>2, <3>3, <3>4 DEF Agree, HasChunk
  <2>2. CASE PutMetadata(c) \/ DeleteMetadata(c)
    <3>1. SameChunks
      BY <1>1, <2>2, MetadataChunks DEF PutMetadata, DeleteMetadata
    <3> QED
      BY <3>1 DEF SameChunks, HasChunk
  <2> QED
    BY <2>1, <2>2
<1>8. ASSUME NEW x \in Caller, Collecting(x)' PROVE SweepOf(x)'
  <2>1. Collecting(x) /\ call'[x] = call[x]
    BY <1>2, <1>3, <1>8 DEF Collecting
  <2>2. SweepOf(x)
    BY <2>1 DEF GarbageInv, SweepInv
  <2>3. n \in contended
    BY <1>1, <2>2 DEF SweepOf
  <2> HIDE DEF n
  <2> QED
    BY <1>0, <1>5, <1>6, <1>7, <2>1, <2>2, <2>3, SweepKept, Zenon DEF history
<1> QED
  BY <1>4, <1>8 DEF SweepInv

\* A garbage collection's own steps.
LEMMA CollectGarbage ==
  ASSUME GarbageInv, NEW c \in Caller,
         GarbageCollectChunks(c) \/ GcMark(c) \/ GcScan(c) \/ GcSweep(c), Next, ~Crash
  PROVE  OwnIds' /\ SweepInv'
<1>0. TypeOK /\ OwnIds /\ MetasOld
  BY MetasUnwritten DEF GarbageInv
<1>1. PICK q : call' = [call EXCEPT ![c] = q] /\ q.at \in {"gc_mark", "gc_sweep"}
  BY <1>0, CollectCalls
<1>2. call'[c] = q /\ \A x \in Caller : x # c => call'[x] = call[x]
  BY <1>0, <1>1 DEF TypeOK
<1>3. /\ survivors' \subseteq survivors \cup {map'}
      /\ \A id, i : HasChunk(map', id, i) => HasChunk(map, id, i)
  BY <1>0, CollectDrops DEF Agree, HasChunk
<1>4. OwnIds'
  BY <1>0, <1>1, <1>3, OwnKept, Zenon
<1>5. \A y \in Caller, n \in Name : Writes(y, n)' => Writes(y, n)
  BY <1>1, <1>2 DEF Writes, Putting, Deleting
<1>6. \A n \in Committed(map) :
        n \in Committed(map') /\ map'[ObjectMetaKey(n)].id = map[ObjectMetaKey(n)].id
  BY <1>0, CommittedStays
<1>7. contended \subseteq contended'
  BY Zenon DEF GarbageCollectChunks, GcMark, GcScan, GcSweep, history
<1>8. ASSUME NEW x \in Caller, x # c, Collecting(x)' PROVE SweepOf(x)'
  <2>1. Collecting(x) /\ call'[x] = call[x] /\ SweepOf(x)
    BY <1>2, <1>8 DEF Collecting, GarbageInv, SweepInv
  <2> QED
    BY <1>3, <1>5, <1>6, <1>7, <2>1, SweepKept, Zenon
<1> DEFINE Marked(id) == \/ id[1] \in contended'
                         \/ id[1] \in Committed(map') /\ map'[ObjectMetaKey(id[1])].id = id
<1>9. ASSUME Collecting(c), contended' = contended
      PROVE  /\ \A x \in Caller, n \in Name : Writes(x, n)' => n \in contended'
             /\ \A id \in call[c].live : Marked(id)
  <2>1. SweepOf(c)
    BY <1>9 DEF GarbageInv, SweepInv
  <2> QED
    BY <1>5, <1>6, <1>9, <2>1, Zenon DEF SweepOf
<1>10. ASSUME \A x \in Caller, n \in Name : Writes(x, n)' => n \in contended',
              \A id \in q.live : Marked(id),
              q.at = "gc_sweep" => \A id, i : HasChunk(map', id, i) =>
                ChunkKey(id, i) \in q.todo \/ id \in q.live \/ id[1] \in contended'
       PROVE  SweepOf(c)'
  BY <1>2, <1>10, Zenon DEF SweepOf, HasChunk, Committed
<1>11. ASSUME GarbageCollectChunks(c) PROVE SweepOf(c)'
  <2>1. call' = [call EXCEPT ![c] = [at |-> "gc_mark", todo |-> KeysWithPrefix("objmeta"),
                                     live |-> {}]]
    BY <1>11, Zenon DEF GarbageCollectChunks, Begin
  <2>2. q.live = {} /\ q.at = "gc_mark"
    BY <1>0, <1>2, <2>1 DEF TypeOK
  <2>3. contended' = contended \cup {n \in Name : \E x \in Caller : Writes(x, n)}
    BY <1>11, Zenon DEF GarbageCollectChunks
  <2> HIDE DEF Marked
  <2> QED
    BY <1>5, <1>10, <2>2, <2>3, Zenon
<1>12. ASSUME GcMark(c) PROVE SweepOf(c)'
  <2>1. call[c] \in MarkCall /\ Collecting(c) /\ contended' = contended /\ map' = map
    BY <1>0, <1>12, CallKinds, Zenon DEF GcMark, TypeOK, Collecting, history, contents
  <2>2. PICK key \in call[c].todo :
          call' = [call EXCEPT ![c] =
            [call[c] EXCEPT !.todo = @ \ {key},
               !.live = IF key \in DOMAIN map /\ map[key].state = "Committed"
                        THEN @ \cup {map[key].id} ELSE @]]
    BY <1>12, Zenon DEF GcMark, Goto
  <2>3. q = [call[c] EXCEPT !.todo = @ \ {key},
               !.live = IF key \in DOMAIN map /\ map[key].state = "Committed"
                        THEN @ \cup {map[key].id} ELSE @]
    BY <1>0, <1>2, <2>2 DEF TypeOK
  <2>4. /\ q.at = "gc_mark"
        /\ q.live = IF key \in DOMAIN map /\ map[key].state = "Committed"
                    THEN call[c].live \cup {map[key].id} ELSE call[c].live
    BY <2>1, <2>3 DEF MarkCall
  <2>5. PICK n \in Name : key = ObjectMetaKey(n)
    <3>1. call[c].todo \subseteq {"objmeta"} \X Name
      BY <2>1, Zenon DEF MarkCall
    <3>2. key \in {"objmeta"} \X Name
      BY <3>1, Zenon
    <3> QED
      BY <3>2 DEF ObjectMetaKey
  <2>6. ASSUME key \in DOMAIN map, map[key].state = "Committed" PROVE Marked(map[key].id)
    <3>1. map[key].id[1] = n
      BY <1>0, <2>5, <2>6 DEF OwnIds, TypeOK
    <3>2. n \in Committed(map')
      BY <2>1, <2>5, <2>6, Zenon DEF Committed
    <3> QED
      BY <2>1, <2>5, <3>1, <3>2, Zenon
  <2>7. /\ \A x \in Caller, m \in Name : Writes(x, m)' => m \in contended'
        /\ \A id \in call[c].live : Marked(id)
    BY <1>9, <2>1, Zenon
  <2> HIDE DEF Marked
  <2>8. \A id \in q.live : Marked(id)
    BY <2>4, <2>6, <2>7, Zenon
  <2> QED
    BY <1>10, <2>4, <2>7, <2>8, Zenon
<1>13. ASSUME GcScan(c) PROVE SweepOf(c)'
  <2>1. call[c] \in MarkCall /\ Collecting(c) /\ contended' = contended /\ map' = map
    BY <1>0, <1>13, CallKinds DEF GcScan, TypeOK, Collecting, history, contents
  <2>2. call' = [call EXCEPT ![c] = [call[c] EXCEPT !.at = "gc_sweep",
                                                    !.todo = KeysWithPrefix("objchunk")]]
    BY <1>13 DEF GcScan, Goto
  <2>3. q = [call[c] EXCEPT !.at = "gc_sweep", !.todo = KeysWithPrefix("objchunk")]
    BY <1>0, <1>2, <2>2 DEF TypeOK
  <2>4. q.live = call[c].live /\ q.todo = KeysWithPrefix("objchunk")
    BY <2>1, <2>3 DEF MarkCall
  <2>5. \A id, i : HasChunk(map', id, i) => ChunkKey(id, i) \in q.todo
    <3>1. \A id, i : ChunkKey(id, i)[1] = "objchunk"
      BY DEF ChunkKey
    <3> QED
      BY <2>1, <2>4, <3>1 DEF KeysWithPrefix, HasChunk
  <2>6. /\ \A x \in Caller, m \in Name : Writes(x, m)' => m \in contended'
        /\ \A id \in call[c].live : Marked(id)
    BY <1>9, <2>1
  <2> HIDE DEF Marked
  <2> QED
    BY <1>10, <2>4, <2>5, <2>6
<1>14. ASSUME GcSweep(c) PROVE SweepOf(c)'
  <2>1. /\ call[c] \in SweepCall /\ call[c].at = "gc_sweep" /\ Collecting(c)
        /\ contended' = contended
    BY <1>0, <1>14, CallKinds DEF GcSweep, TypeOK, Collecting, history
  <2>2. PICK key \in call[c].todo :
          /\ IF key[2] \in call[c].live THEN UNCHANGED contents ELSE KV!Del(key)
          /\ call' = [call EXCEPT ![c] = [call[c] EXCEPT !.todo = @ \ {key}]]
    BY <1>14, Zenon DEF GcSweep, Goto
  <2>3. q = [call[c] EXCEPT !.todo = @ \ {key}]
    BY <1>0, <1>2, <2>2 DEF TypeOK
  <2>4. q.live = call[c].live /\ q.todo = call[c].todo \ {key}
    BY <2>1, <2>3 DEF SweepCall
  <2>5. ASSUME NEW id, NEW i, HasChunk(map', id, i)
        PROVE  ChunkKey(id, i) \in q.todo \/ id \in q.live \/ id[1] \in contended'
    <3>1. ChunkKey(id, i) \in call[c].todo \/ id \in call[c].live \/ id[1] \in contended
      BY <1>3, <2>1, <2>5, Zenon DEF GarbageInv, SweepInv, SweepOf
    <3>2. ASSUME ChunkKey(id, i) = key PROVE id \in call[c].live
      <4>1. key[2] = id
        BY <3>2 DEF ChunkKey
      <4>2. KV!Del(key) => key \notin DOMAIN map'
        <5>1. KV!Del(key) => map' = Drops(map, key)
          BY Written, Zenon
        <5> QED
          BY <5>1, Zenon DEF Drops
      <4> QED
        BY <2>2, <2>5, <3>2, <4>1, <4>2 DEF HasChunk
    <3> QED
      BY <2>1, <2>4, <3>1, <3>2
  <2>6. /\ \A x \in Caller, m \in Name : Writes(x, m)' => m \in contended'
        /\ \A id \in call[c].live : Marked(id)
    BY <1>9, <2>1, Zenon
  <2> HIDE DEF Marked
  <2> QED
    BY <1>10, <2>4, <2>5, <2>6, Zenon
<1>15. SweepOf(c)'
  BY <1>11, <1>12, <1>13, <1>14
<1> QED
  BY <1>4, <1>8, <1>15 DEF SweepInv

LEMMA CrashGarbage ==
  ASSUME GarbageInv, Crash
  PROVE  OwnIds' /\ SweepInv'
<1>1. \A x \in Caller : call'[x].at = "idle"
  BY CrashAway
<1>2. survivors' \subseteq survivors
  BY DEF Crash, KV!Crash
<1>3. OwnIds'
  BY <1>1, <1>2 DEF GarbageInv, OwnIds, Pending
<1>4. \A x \in Caller : ~Collecting(x)'
  BY <1>1 DEF Collecting
<1> QED
  BY <1>3, <1>4 DEF SweepInv

LEMMA GarbageNext == GarbageInv /\ [Next]_vars => GarbageInv'
<1> SUFFICES ASSUME GarbageInv, [Next]_vars PROVE GarbageInv'
  OBVIOUS
<1>1. TypeOK /\ TypeOK'
  BY TypeNext DEF GarbageInv
<1>2. CASE UNCHANGED vars
  <2>1. UNCHANGED <<map, survivors, call, contended>>
    BY <1>2 DEF vars
  <2>2. OwnIds'
    BY <2>1 DEF GarbageInv, OwnIds, Pending
  <2>3. \A x \in Caller : Collecting(x)' => SweepOf(x)'
    BY <2>1, Zenon DEF GarbageInv, SweepInv, SweepOf, Collecting, Writes, Putting, Deleting,
                HasChunk, Committed
  <2> QED
    BY <1>1, <2>2, <2>3 DEF GarbageInv, SweepInv
<1>3. CASE Next
  <2>1. OwnIds' /\ SweepInv'
    BY <1>1, <1>3, Steps, CrashGarbage, OtherGarbage, PutObjectGarbage, WriteGarbage,
       CollectGarbage
  <2> QED
    BY <1>1, <2>1 DEF GarbageInv
<1> QED
  BY <1>2, <1>3

\* At the end of a garbage collection every chunk is of a committed object, but for
\* those of names that were written while it ran; for any Features, with any number
\* of collections at once.
THEOREM NoGarbage == Spec => []NoGarbageLeft
<1>1. Init => GarbageInv
  <2> SUFFICES ASSUME Init PROVE OwnIds /\ SweepInv
    BY TypeInit DEF GarbageInv
  <2>1. \A c \in Caller : call[c].at = "idle"
    BY DEF Init, Idle
  <2>2. \A s \in survivors : DOMAIN s = {}
    BY DEF Init, KV!Init, KV!Empty
  <2>3. \A c \in Caller : ~Collecting(c)
    BY <2>1 DEF Collecting
  <2> QED
    BY <2>1, <2>2, <2>3 DEF OwnIds, SweepInv, Pending
<1>2. GarbageInv => NoGarbageLeft
  <2> SUFFICES ASSUME GarbageInv, NEW c \in Caller, call[c].at = "gc_sweep",
                      call[c].todo = {}, NEW key \in KeysWithPrefix("objchunk")
               PROVE  \E n \in Committed(map) \cup contended :
                        /\ key[2][1] = n
                        /\ n \notin contended => map[ObjectMetaKey(n)].id = key[2]
    BY DEF NoGarbageLeft
  <2>1. key \in MapKey /\ key \in DOMAIN map /\ key[1] = "objchunk"
    BY DEF KeysWithPrefix, GarbageInv, TypeOK, Typed
  <2>2. PICK id \in ObjectId, i \in Nat : key = ChunkKey(id, i)
    BY <2>1, ScannedKeys
  <2>3. key[2] = id
    BY <2>2 DEF ChunkKey
  <2>4. SweepOf(c)
    BY DEF GarbageInv, SweepInv, Collecting
  <2>5. id \in call[c].live \/ id[1] \in contended
    BY <2>1, <2>2, <2>4 DEF SweepOf, HasChunk
  <2>6. \/ id[1] \in contended
        \/ id[1] \in Committed(map) /\ map[ObjectMetaKey(id[1])].id = id
    BY <2>4, <2>5 DEF SweepOf
  <2> QED
    BY <2>3, <2>6
<1> QED
  BY <1>1, <1>2, GarbageNext, PTL DEF Spec

==============================================================================
