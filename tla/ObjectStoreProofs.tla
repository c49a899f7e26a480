-------------------------- MODULE ObjectStoreProofs --------------------------
(***************************************************************************)
(* Theorems about ObjectStore: types, the objects as a whole under crashes  *)
(* and other callers, and the index that ListObjects goes by.              *)
(***************************************************************************)
EXTENDS ObjectStore, TLAPS

-----------------------------------------------------------------------------
(* Keys of the map.                                                        *)

\* Keys of different kinds differ, and a key determines what it was made from.
LEMMA KeysDiffer ==
  /\ \A m, n : ObjectMetaKey(m) = ObjectMetaKey(n) => m = n
  /\ \A n, id, i : ObjectMetaKey(n) # ChunkKey(id, i)
  /\ \A b, n : ObjectMetaKey(n) # BucketMetaKey(b)
  /\ \A m, n : ObjectMetaKey(n) # BucketIndexKey(m)
  /\ \A b, id, i : BucketMetaKey(b) # ChunkKey(id, i)
  /\ \A n, id, i : BucketIndexKey(n) # ChunkKey(id, i)
  /\ \A a, b, i, j : ChunkKey(a, i) = ChunkKey(b, j) => a = b /\ i = j
BY SMT DEF ObjectMetaKey, ChunkKey, BucketMetaKey, BucketIndexKey

\* Each kind of key is a key of the map.
LEMMA KeyTypes ==
  /\ \A n \in Name : ObjectMetaKey(n) \in MapKey /\ ObjectMetaKey(n)[1] = "objmeta"
  /\ \A n \in Name : BucketIndexKey(n) \in MapKey /\ BucketIndexKey(n)[1] = "bucketidx"
  /\ \A b \in Bucket : BucketMetaKey(b) \in MapKey /\ BucketMetaKey(b)[1] = "bucket"
  /\ \A id \in ObjectId, i \in Nat :
       ChunkKey(id, i) \in MapKey /\ ChunkKey(id, i)[1] = "objchunk"
BY SMT DEF ObjectMetaKey, ChunkKey, BucketMetaKey, BucketIndexKey, MapKey

\* A key of the map of one of the two kinds that are scanned.
LEMMA ScannedKeys ==
  ASSUME NEW k \in MapKey
  PROVE  /\ k[1] = "objmeta" => \E n \in Name : k = ObjectMetaKey(n)
         /\ k[1] = "objchunk" => \E id \in ObjectId, i \in Nat : k = ChunkKey(id, i)
BY SMT DEF ObjectMetaKey, ChunkKey, MapKey

\* The number of chunks and the chunks of an object.
LEMMA ChunkTypes ==
  ASSUME NEW d \in Data
  PROVE  /\ Len(d) \in Nat
         /\ ChunkCount(d) \in Nat
         /\ \A i \in Nat : Chunk(d, i) \in Seq(Nat)
<1>1. d \in Seq(Nat) /\ Len(d) \in Nat /\ ChunkSize \in Nat /\ ChunkSize > 0
  BY ObjectAssumption
<1>2. ChunkCount(d) \in Nat
  BY <1>1, SMT DEF ChunkCount
<1>3. ASSUME NEW i \in Nat PROVE Chunk(d, i) \in Seq(Nat)
  <2> DEFINE start == i * ChunkSize
             end == IF start + ChunkSize < Len(d) THEN start + ChunkSize ELSE Len(d)
  <2>1. start \in Nat
    BY <1>1, SMT
  <2>2. end \in Nat /\ end <= Len(d)
    BY <1>1, <2>1, SMT
  <2> HIDE DEF start, end
  <2>3. SubSeq(d, start + 1, end) \in Seq(Nat)
    BY <1>1, <2>1, <2>2, SMT
  <2> QED
    BY <2>3, SMT DEF Chunk, start, end
<1> QED
  BY <1>1, <1>2, <1>3

-----------------------------------------------------------------------------
(* Types.                                                                  *)

\* The contents m with v under k, and without k.
Sets(m, k, v) == [x \in DOMAIN m \cup {k} |-> IF x = k THEN v ELSE m[x]]
Drops(m, k) == [x \in DOMAIN m \ {k} |-> m[x]]

ContentsOK == map \in survivors /\ \A s \in survivors : Typed(s)

\* put of a value of the right kind.
LEMMA PutTyped ==
  ASSUME ContentsOK, NEW k \in MapKey, NEW v, KV!Put(k, v),
         k[1] = "bucket" => v \in Bucket,
         k[1] = "objmeta" => v \in Metadata,
         k[1] = "bucketidx" => v \in ObjectId,
         k[1] = "objchunk" => v \in Seq(Nat)
  PROVE  ContentsOK'
<1>1. map' = Sets(map, k, v) /\ survivors' = survivors \cup {Sets(map, k, v)}
  BY DEF KV!Put, KV!Write, KV!With, Sets
<1>2. Typed(Sets(map, k, v))
  <2> DEFINE w == Sets(map, k, v)
  <2>1. DOMAIN w = DOMAIN map \cup {k} /\ w[k] = v /\ \A x \in DOMAIN map \ {k} : w[x] = map[x]
    BY DEF Sets
  <2>2. Typed(map)
    BY DEF ContentsOK
  <2> HIDE DEF w
  <2>3. Typed(w)
    BY <2>1, <2>2 DEF Typed
  <2> QED
    BY <2>3 DEF w
<1> QED
  BY <1>1, <1>2 DEF ContentsOK, Typed

\* del, whatever the key.
LEMMA DelTyped ==
  ASSUME ContentsOK, NEW k, KV!Del(k)
  PROVE  ContentsOK'
<1>1. map' = Drops(map, k) /\ survivors' = survivors \cup {Drops(map, k)}
  BY DEF KV!Del, KV!Write, KV!Without, Drops
<1>2. Typed(Drops(map, k))
  <2> DEFINE w == Drops(map, k)
  <2>1. DOMAIN w = DOMAIN map \ {k} /\ \A x \in DOMAIN w : w[x] = map[x]
    BY DEF Drops
  <2>2. Typed(map)
    BY DEF ContentsOK
  <2> HIDE DEF w
  <2>3. Typed(w)
    BY <2>1, <2>2 DEF Typed
  <2> QED
    BY <2>3 DEF w
<1> QED
  BY <1>1, <1>2 DEF ContentsOK, Typed

\* Flush, crash, and steps that do not touch the contents.
LEMMA KeptTyped ==
  ASSUME ContentsOK, KV!Flush \/ KV!Crash \/ UNCHANGED contents
  PROVE  ContentsOK'
BY DEF ContentsOK, KV!Flush, KV!Crash, contents, Typed

\* The place of a caller determines what its locals are.
LEMMA CallKinds ==
  ASSUME NEW p \in CallState
  PROVE  /\ p.at = "bucket_put" => p \in BucketCall
         /\ p.at \in {"put_chunks", "put_index", "put_flush"} => p \in PutCall
         /\ p.at = "get_chunks" => p \in GetCall
         /\ p.at \in {"del_meta", "del_index", "del_flush"} => p \in DeleteCall
         /\ p.at = "list" => p \in ListCall
         /\ p.at = "gc_mark" => p \in MarkCall
         /\ p.at = "gc_sweep" => p \in SweepCall
         /\ p.at = "idle" => p = Idle
BY DEF CallState, Idle, BucketCall, PutCall, GetCall, DeleteCall, ListCall,
       MarkCall, SweepCall

CallsOK == call \in [Caller -> CallState] /\ calls \in [Operation -> Nat]

HistoryOK == contended \subseteq Name /\ acked \in [Name -> SUBSET Data]

CountsOK == clock \in Nat /\ failures \in Nat /\ crashes \in Nat

LEMMA TypeParts == TypeOK <=> ContentsOK /\ CallsOK /\ HistoryOK /\ CountsOK
BY DEF TypeOK, ContentsOK, CallsOK, HistoryOK, CountsOK

\* A caller that goes on, returns or begins.
LEMMA CallTyped ==
  ASSUME CallsOK, NEW c \in Caller, NEW p \in CallState,
         Goto(c, p) \/ \E op \in Operation : Begin(c, op, p)
  PROVE  CallsOK'
<1>1. call' = [call EXCEPT ![c] = p]
  BY DEF Goto, Begin
<1>2. calls' = calls \/ \E op \in Operation : calls' = [calls EXCEPT ![op] = @ + 1]
  BY DEF Goto, Begin
<1>3. call' \in [Caller -> CallState]
  BY <1>1 DEF CallsOK
<1>4. calls' \in [Operation -> Nat]
  BY <1>2 DEF CallsOK
<1> QED
  BY <1>3, <1>4 DEF CallsOK

LEMMA ReturnTyped ==
  ASSUME CallsOK, NEW c \in Caller, Return(c)
  PROVE  CallsOK'
<1>1. Idle \in CallState
  BY DEF CallState
<1> QED
  BY <1>1, CallTyped DEF Return

LEMMA TouchTyped ==
  ASSUME HistoryOK, NEW n \in Name, Touch(n)
  PROVE  HistoryOK'
BY DEF HistoryOK, Touch

\* The four parts after a step.
LEMMA TypeNextParts ==
  ASSUME ContentsOK', CallsOK', HistoryOK', CountsOK'
  PROVE  TypeOK'
BY DEF TypeOK, ContentsOK, CallsOK, HistoryOK, CountsOK

\* CreateBucket.
LEMMA BucketTypes ==
  ASSUME TypeOK, NEW c \in Caller, BucketStep(c)
  PROVE  TypeOK'
<1>0. ContentsOK /\ CallsOK /\ HistoryOK /\ CountsOK
  BY TypeParts
<1>1. ASSUME NEW b \in Bucket, CreateBucket(c, b) PROVE ContentsOK' /\ CallsOK'
  <2>1. [at |-> "bucket_put", bucket |-> b] \in CallState
    BY DEF CallState, BucketCall
  <2>2. CallsOK'
    BY <1>0, <1>1, <2>1, CallTyped DEF CreateBucket
  <2>3. ContentsOK'
    BY <1>0, <1>1, KeptTyped DEF CreateBucket
  <2> QED
    BY <2>2, <2>3
<1>2. ASSUME CreateBucketPut(c) PROVE ContentsOK' /\ CallsOK'
  <2>1. call[c].bucket \in Bucket
    BY <1>0, <1>2, CallKinds DEF CreateBucketPut, CallsOK, BucketCall
  <2>2. ContentsOK'
    BY <1>0, <1>2, <2>1, PutTyped, KeyTypes DEF CreateBucketPut
  <2>3. CallsOK'
    BY <1>0, <1>2, ReturnTyped DEF CreateBucketPut
  <2> QED
    BY <2>2, <2>3
<1>3. HistoryOK' /\ CountsOK'
  BY <1>0, Zenon DEF BucketStep, CreateBucket, CreateBucketPut, HistoryOK, CountsOK, history
<1> QED
  BY <1>1, <1>2, <1>3, TypeNextParts DEF BucketStep

\* The metadata that a put writes, and that a delete writes back.
LEMMA MetadataTypes ==
  /\ \A p \in PutCall :
       [id |-> p.id, size |-> Len(p.data), count |-> ChunkCount(p.data),
        etag |-> p.data, state |-> "Committed"] \in Metadata
  /\ \A d \in DeleteCall : [d.meta EXCEPT !.state = "Deleted"] \in Metadata
<1>1. ASSUME NEW p \in PutCall
      PROVE  [id |-> p.id, size |-> Len(p.data), count |-> ChunkCount(p.data),
              etag |-> p.data, state |-> "Committed"] \in Metadata
  <2>1. p.id \in ObjectId /\ p.data \in Data
    BY DEF PutCall
  <2>2. Len(p.data) \in Nat /\ ChunkCount(p.data) \in Nat
    BY <2>1, ChunkTypes, Zenon
  <2> QED
    BY <2>1, <2>2 DEF Metadata
<1>2. ASSUME NEW d \in DeleteCall PROVE [d.meta EXCEPT !.state = "Deleted"] \in Metadata
  BY DEF DeleteCall, Metadata
<1> QED
  BY <1>1, <1>2

\* PutObject.
LEMMA PutTypes ==
  ASSUME TypeOK, NEW c \in Caller, PutStep(c)
  PROVE  TypeOK'
<1>0. ContentsOK /\ CallsOK /\ HistoryOK /\ CountsOK
  BY TypeParts
<1>1. ASSUME NEW n \in Name, NEW d \in Data, PutObject(c, n, d) PROVE TypeOK'
  <2>1. PICK now \in {clock, clock + 1} :
          /\ clock' = now
          /\ Begin(c, "put", [at |-> "put_chunks", name |-> n, id |-> <<n, now>>,
                              data |-> d, next |-> 0])
    BY <1>1 DEF PutObject
  <2>2. now \in Nat
    BY <1>0 DEF CountsOK
  <2>3. [at |-> "put_chunks", name |-> n, id |-> <<n, now>>, data |-> d, next |-> 0]
          \in CallState
    BY <2>2 DEF CallState, PutCall, ObjectId
  <2>4. CallsOK'
    BY <1>0, <2>1, <2>3, CallTyped DEF Operation
  <2>5. ContentsOK'
    BY <1>0, <1>1, KeptTyped DEF PutObject
  <2>6. HistoryOK'
    BY <1>0, <1>1, TouchTyped DEF PutObject
  <2>7. CountsOK'
    BY <1>0, <1>1, <2>1, <2>2 DEF PutObject, CountsOK
  <2> QED
    BY <2>4, <2>5, <2>6, <2>7, TypeNextParts
<1>2. Putting(c) => call[c] \in PutCall /\ call[c] \in CallState
  BY <1>0, CallKinds DEF Putting, CallsOK
<1>3. ASSUME PutChunk(c) PROVE TypeOK'
  <2>1. call[c] \in PutCall
    BY <1>2, <1>3 DEF PutChunk, Putting
  <2>2. /\ call[c].id \in ObjectId /\ call[c].next \in Nat /\ call[c].data \in Data
        /\ [call[c] EXCEPT !.next = @ + 1] \in PutCall
    BY <2>1 DEF PutCall
  <2>3. CallsOK'
    BY <1>0, <1>3, <2>2, CallTyped DEF PutChunk, CallState
  <2>4. Chunk(call[c].data, call[c].next) \in Seq(Nat)
    BY <2>2, ChunkTypes
  <2>5. ContentsOK'
    BY <1>0, <1>3, <2>2, <2>4, PutTyped, KeyTypes DEF PutChunk
  <2>6. HistoryOK' /\ CountsOK'
    BY <1>0, <1>3 DEF PutChunk, HistoryOK, CountsOK, history
  <2> QED
    BY <2>3, <2>5, <2>6, TypeNextParts
<1>4. ASSUME PutMetadata(c) PROVE TypeOK'
  <2>1. call[c] \in PutCall
    BY <1>2, <1>4 DEF PutMetadata, Putting
  <2>2. /\ call[c].name \in Name
        /\ [call[c] EXCEPT !.at = "put_index"] \in PutCall
    BY <2>1 DEF PutCall
  <2>3. CallsOK'
    BY <1>0, <1>4, <2>2, CallTyped DEF PutMetadata, CallState
  <2>4. ContentsOK'
    BY <1>0, <1>4, <2>1, <2>2, MetadataTypes, PutTyped, KeyTypes DEF PutMetadata
  <2>5. HistoryOK' /\ CountsOK'
    BY <1>0, <1>4 DEF PutMetadata, HistoryOK, CountsOK, history
  <2> QED
    BY <2>3, <2>4, <2>5, TypeNextParts
<1>5. ASSUME PutIndex(c) PROVE TypeOK'
  <2>1. call[c] \in PutCall
    BY <1>2, <1>5 DEF PutIndex, Putting
  <2>2. /\ call[c].name \in Name /\ call[c].id \in ObjectId
        /\ [call[c] EXCEPT !.at = "put_flush"] \in PutCall
    BY <2>1 DEF PutCall
  <2>3. CallsOK'
    BY <1>0, <1>5, <2>2, CallTyped DEF PutIndex, CallState
  <2>4. ContentsOK'
    BY <1>0, <1>5, <2>2, PutTyped, KeyTypes DEF PutIndex
  <2>5. HistoryOK' /\ CountsOK'
    BY <1>0, <1>5 DEF PutIndex, HistoryOK, CountsOK, history
  <2> QED
    BY <2>3, <2>4, <2>5, TypeNextParts
<1>6. ASSUME PutFlush(c) PROVE TypeOK'
  <2>1. call[c].name \in Name /\ call[c].data \in Data
    BY <1>2, <1>6 DEF PutFlush, Putting, PutCall
  <2>2. CallsOK' /\ ContentsOK'
    BY <1>0, <1>6, ReturnTyped, KeptTyped DEF PutFlush
  <2>3. HistoryOK' /\ CountsOK'
    BY <1>0, <1>6, <2>1 DEF PutFlush, HistoryOK, CountsOK
  <2> QED
    BY <2>2, <2>3, TypeNextParts
<1> QED
  BY <1>1, <1>3, <1>4, <1>5, <1>6 DEF PutStep

\* GetObject and ListObjects.
LEMMA ReadTypes ==
  ASSUME TypeOK, NEW c \in Caller, ReadStep(c)
  PROVE  TypeOK'
<1>0. ContentsOK /\ CallsOK /\ HistoryOK /\ CountsOK
  BY TypeParts
<1>1. Typed(map)
  BY <1>0 DEF ContentsOK
<1>2. call[c] \in CallState
  BY <1>0 DEF CallsOK
<1>3. UNCHANGED <<contents, clock, failures, crashes, history>>
  BY Zenon DEF ReadStep, GetObject, GetChunk, GetReturn, ListObjects, ListEntry, ListReturn
<1>4. ContentsOK' /\ HistoryOK' /\ CountsOK'
  BY <1>0, <1>3, KeptTyped DEF HistoryOK, CountsOK, history
<1>5. ASSUME NEW n \in Name, GetObject(c, n) PROVE CallsOK'
  <2>1. map[ObjectMetaKey(n)] \in Metadata
    BY <1>1, <1>5, KeyTypes DEF GetObject, Typed
  <2>2. [at |-> "get_chunks", name |-> n, meta |-> map[ObjectMetaKey(n)],
         next |-> 0, data |-> <<>>] \in GetCall
    BY <2>1 DEF GetCall
  <2> QED
    BY <1>0, <1>5, <2>2, CallTyped DEF GetObject, CallState, Operation
<1>6. ASSUME GetChunk(c) PROVE CallsOK'
  <2>1. call[c] \in GetCall
    BY <1>2, <1>6, CallKinds DEF GetChunk
  <2>2. call[c].meta.id \in ObjectId /\ call[c].next \in Nat /\ call[c].data \in Seq(Nat)
    BY <2>1 DEF GetCall, Metadata
  <2> DEFINE key == ChunkKey(call[c].meta.id, call[c].next)
  <2>3. CASE key \notin DOMAIN map
    BY <1>0, <1>6, <2>3, ReturnTyped DEF GetChunk
  <2>4. CASE key \in DOMAIN map
    <3>1. map[key] \in Seq(Nat)
      BY <1>1, <2>2, <2>4, KeyTypes DEF Typed
    <3>2. call[c].data \o map[key] \in Seq(Nat) /\ call[c].next + 1 \in Nat
      BY <2>2, <3>1
    <3>3. \A i \in Nat, d \in Seq(Nat) :
            [call[c] EXCEPT !.next = i, !.data = d] \in GetCall
      BY <2>1, Zenon DEF GetCall
    <3>4. [call[c] EXCEPT !.next = @ + 1, !.data = @ \o map[key]] \in GetCall
      BY <3>2, <3>3, Zenon
    <3> QED
      BY <1>0, <1>6, <2>4, <3>4, CallTyped DEF GetChunk, CallState
  <2> QED
    BY <2>3, <2>4
<1>7. ASSUME GetReturn(c) \/ ListReturn(c) PROVE CallsOK'
  BY <1>0, <1>7, ReturnTyped DEF GetReturn, ListReturn
<1>8. ASSUME NEW b \in Bucket, ListObjects(c, b) PROVE CallsOK'
  <2>1. [at |-> "list", bucket |-> b, objects |-> {},
         todo |-> {n \in Name : n[1] = b /\ BucketIndexKey(n) \in DOMAIN map}] \in ListCall
    BY DEF ListCall
  <2> QED
    BY <1>0, <1>8, <2>1, CallTyped DEF ListObjects, CallState, Operation
<1>9. ASSUME ListEntry(c) PROVE CallsOK'
  <2>1. call[c] \in ListCall
    BY <1>2, <1>9, CallKinds DEF ListEntry
  <2>2. PICK n \in call[c].todo : \E o \in {call[c].objects, call[c].objects \cup {n}} :
          Goto(c, [call[c] EXCEPT !.todo = @ \ {n}, !.objects = o])
    BY <1>9, Zenon DEF ListEntry
  <2>3. \A o \in {call[c].objects, call[c].objects \cup {n}} :
          [call[c] EXCEPT !.todo = @ \ {n}, !.objects = o] \in ListCall
    BY <2>1, <2>2, Zenon DEF ListCall
  <2> QED
    BY <1>0, <2>2, <2>3, CallTyped, Zenon DEF CallState
<1>10. CallsOK'
  BY <1>5, <1>6, <1>7, <1>8, <1>9 DEF ReadStep
<1> QED
  BY <1>4, <1>10, TypeNextParts

\* DeleteObject.
LEMMA DeleteTypes ==
  ASSUME TypeOK, NEW c \in Caller, DeleteStep(c)
  PROVE  TypeOK'
<1>0. ContentsOK /\ CallsOK /\ HistoryOK /\ CountsOK
  BY TypeParts
<1>1. Deleting(c) => call[c] \in DeleteCall
  BY <1>0, CallKinds DEF Deleting, CallsOK
<1>2. ASSUME NEW n \in Name, DeleteObject(c, n) PROVE TypeOK'
  <2>1. map[ObjectMetaKey(n)] \in Metadata
    BY <1>0, <1>2, KeyTypes DEF DeleteObject, Typed, ContentsOK
  <2>2. [at |-> "del_meta", name |-> n, meta |-> map[ObjectMetaKey(n)]] \in DeleteCall
    BY <2>1 DEF DeleteCall
  <2>3. CallsOK'
    BY <1>0, <1>2, <2>2, CallTyped DEF DeleteObject, CallState, Operation
  <2>4. ContentsOK' /\ HistoryOK'
    BY <1>0, <1>2, KeptTyped, TouchTyped DEF DeleteObject
  <2>5. CountsOK'
    BY <1>0, <1>2 DEF DeleteObject, CountsOK
  <2> QED
    BY <2>3, <2>4, <2>5, TypeNextParts
<1>3. ASSUME DeleteMetadata(c) PROVE TypeOK'
  <2>1. call[c] \in DeleteCall
    BY <1>1, <1>3 DEF DeleteMetadata, Deleting
  <2>2. /\ call[c].name \in Name
        /\ [call[c] EXCEPT !.at = "del_index"] \in DeleteCall
    BY <2>1 DEF DeleteCall
  <2>3. CallsOK'
    BY <1>0, <1>3, <2>2, CallTyped DEF DeleteMetadata, CallState
  <2>4. ContentsOK'
    BY <1>0, <1>3, <2>1, <2>2, MetadataTypes, PutTyped, KeyTypes DEF DeleteMetadata
  <2>5. HistoryOK' /\ CountsOK'
    BY <1>0, <1>3 DEF DeleteMetadata, HistoryOK, CountsOK, history
  <2> QED
    BY <2>3, <2>4, <2>5, TypeNextParts
<1>4. ASSUME DeleteIndex(c) PROVE TypeOK'
  <2>1. [call[c] EXCEPT !.at = "del_flush"] \in DeleteCall
    BY <1>1, <1>4 DEF DeleteIndex, Deleting, DeleteCall
  <2>2. CallsOK'
    BY <1>0, <1>4, <2>1, CallTyped DEF DeleteIndex, CallState
  <2>3. ContentsOK'
    BY <1>0, <1>4, DelTyped DEF DeleteIndex
  <2>4. HistoryOK' /\ CountsOK'
    BY <1>0, <1>4 DEF DeleteIndex, HistoryOK, CountsOK, history
  <2> QED
    BY <2>2, <2>3, <2>4, TypeNextParts
<1>5. ASSUME DeleteFlush(c) \/ FlushFail(c) PROVE TypeOK'
  <2>1. ContentsOK' /\ CallsOK'
    BY <1>0, <1>5, ReturnTyped, KeptTyped DEF DeleteFlush, FlushFail
  <2>2. HistoryOK' /\ CountsOK'
    BY <1>0, <1>5 DEF DeleteFlush, FlushFail, HistoryOK, CountsOK, history
  <2> QED
    BY <2>1, <2>2, TypeNextParts
<1> QED
  BY <1>2, <1>3, <1>4, <1>5 DEF DeleteStep

\* GarbageCollectChunks.
LEMMA GcTypes ==
  ASSUME TypeOK, NEW c \in Caller, GcStep(c)
  PROVE  TypeOK'
<1>0. ContentsOK /\ CallsOK /\ HistoryOK /\ CountsOK
  BY TypeParts
<1>1. call[c] \in CallState
  BY <1>0 DEF CallsOK
<1>2. Typed(map)
  BY <1>0 DEF ContentsOK
<1>3. ASSUME GarbageCollectChunks(c) PROVE TypeOK'
  <2>1. KeysWithPrefix("objmeta") \subseteq {"objmeta"} \X Name
    BY <1>2, ScannedKeys DEF Typed, KeysWithPrefix, ObjectMetaKey
  <2>2. [at |-> "gc_mark", todo |-> KeysWithPrefix("objmeta"), live |-> {}] \in MarkCall
    BY <2>1 DEF MarkCall
  <2>3. CallsOK'
    BY <1>0, <1>3, <2>2, CallTyped DEF GarbageCollectChunks, CallState, Operation
  <2>4. ContentsOK' /\ HistoryOK' /\ CountsOK'
    BY <1>0, <1>3, KeptTyped DEF GarbageCollectChunks, HistoryOK, CountsOK
  <2> QED
    BY <2>3, <2>4, TypeNextParts
<1>4. ASSUME GcMark(c) PROVE TypeOK'
  <2>1. call[c] \in MarkCall
    BY <1>1, <1>4, CallKinds DEF GcMark
  <2>2. PICK key \in call[c].todo :
          Goto(c, [call[c] EXCEPT !.todo = @ \ {key},
                     !.live = IF key \in DOMAIN map /\ map[key].state = "Committed"
                              THEN @ \cup {map[key].id} ELSE @])
    BY <1>4, Zenon DEF GcMark
  <2>3. key[1] = "objmeta"
    BY <2>1, <2>2 DEF MarkCall
  <2>4. key \in DOMAIN map => map[key].id \in ObjectId
    BY <1>2, <2>3 DEF Typed, Metadata
  <2>5. [call[c] EXCEPT !.todo = @ \ {key},
           !.live = IF key \in DOMAIN map /\ map[key].state = "Committed"
                    THEN @ \cup {map[key].id} ELSE @] \in MarkCall
    BY <2>1, <2>4, Zenon DEF MarkCall
  <2>6. CallsOK'
    BY <1>0, <2>2, <2>5, CallTyped DEF CallState
  <2>7. ContentsOK' /\ HistoryOK' /\ CountsOK'
    BY <1>0, <1>4, KeptTyped DEF GcMark, HistoryOK, CountsOK, history
  <2> QED
    BY <2>6, <2>7, TypeNextParts
<1>5. ASSUME GcScan(c) PROVE TypeOK'
  <2>1. call[c] \in MarkCall
    BY <1>1, <1>5, CallKinds DEF GcScan
  <2>2. KeysWithPrefix("objchunk") \subseteq {"objchunk"} \X ObjectId \X Nat
    BY <1>2, ScannedKeys DEF Typed, KeysWithPrefix, ChunkKey
  <2>3. [call[c] EXCEPT !.at = "gc_sweep", !.todo = KeysWithPrefix("objchunk")]
          \in SweepCall
    BY <2>1, <2>2, Zenon DEF MarkCall, SweepCall
  <2>4. CallsOK'
    BY <1>0, <1>5, <2>3, CallTyped DEF GcScan, CallState
  <2>5. ContentsOK' /\ HistoryOK' /\ CountsOK'
    BY <1>0, <1>5, KeptTyped DEF GcScan, HistoryOK, CountsOK, history
  <2> QED
    BY <2>4, <2>5, TypeNextParts
<1>6. ASSUME GcSweep(c) PROVE TypeOK'
  <2>1. call[c] \in SweepCall
    BY <1>1, <1>6, CallKinds DEF GcSweep
  <2>2. PICK key \in call[c].todo :
          /\ UNCHANGED contents \/ KV!Del(key)
          /\ Goto(c, [call[c] EXCEPT !.todo = @ \ {key}])
    BY <1>6 DEF GcSweep
  <2>3. [call[c] EXCEPT !.todo = @ \ {key}] \in SweepCall
    BY <2>1 DEF SweepCall
  <2>4. CallsOK'
    BY <1>0, <2>2, <2>3, CallTyped DEF CallState
  <2>5. ContentsOK'
    BY <1>0, <2>2, KeptTyped, DelTyped
  <2>6. HistoryOK' /\ CountsOK'
    BY <1>0, <1>6 DEF GcSweep, HistoryOK, CountsOK, history
  <2> QED
    BY <2>4, <2>5, <2>6, TypeNextParts
<1>7. ASSUME GcFlush(c) PROVE TypeOK'
  <2>1. ContentsOK' /\ CallsOK'
    BY <1>0, <1>7, ReturnTyped, KeptTyped DEF GcFlush
  <2>2. HistoryOK' /\ CountsOK'
    BY <1>0, <1>7 DEF GcFlush, HistoryOK, CountsOK, history
  <2> QED
    BY <2>1, <2>2, TypeNextParts
<1> QED
  BY <1>3, <1>4, <1>5, <1>6, <1>7 DEF GcStep

LEMMA TypeInit == Init => TypeOK
<1> SUFFICES ASSUME Init PROVE TypeOK
  OBVIOUS
<1>1. map = KV!Empty /\ survivors = {KV!Empty} /\ DOMAIN KV!Empty = {}
  BY DEF Init, KV!Init, KV!Empty
<1>2. ContentsOK
  BY <1>1 DEF ContentsOK, Typed
<1>3. CallsOK /\ HistoryOK /\ CountsOK
  BY DEF Init, CallsOK, HistoryOK, CountsOK, CallState
<1> QED
  BY <1>2, <1>3, TypeParts

LEMMA TypeNext == TypeOK /\ [Next]_vars => TypeOK'
<1> SUFFICES ASSUME TypeOK, [Next]_vars PROVE TypeOK'
  OBVIOUS
<1>1. ASSUME Crash PROVE TypeOK'
  <2>1. ContentsOK'
    BY <1>1, TypeParts, KeptTyped DEF Crash
  <2>2. CallsOK' /\ HistoryOK' /\ CountsOK'
    BY <1>1, TypeParts DEF Crash, CallsOK, HistoryOK, CountsOK, CallState, history
  <2> QED
    BY <2>1, <2>2, TypeNextParts
<1>2. ASSUME UNCHANGED vars PROVE TypeOK'
  BY <1>2 DEF TypeOK, vars, Typed
<1> QED
  BY <1>1, <1>2, BucketTypes, PutTypes, ReadTypes, DeleteTypes, GcTypes DEF Next

\* Whatever the callers and the crashes interleave to, and whichever features the
\* build has, every key of the KVStore holds what its kind promises.
THEOREM TypeCorrect == Spec => []TypeOK
BY TypeInit, TypeNext, PTL DEF Spec

-----------------------------------------------------------------------------
(* The invariant behind the refinement, where two puts do not read the     *)
(* same millisecond and no garbage collection runs during a put.           *)

\* A put that has not written its metadata yet.
Pending(c) == call[c].at = "put_chunks"

\* The identifiers of the committed objects of m, and of all that a crash can leave.
Ids(m) == {m[ObjectMetaKey(n)].id : n \in Committed(m)}
CommittedIds == UNION {Ids(s) : s \in survivors}

\* No identifier is from the future.
IdInv ==
  /\ \A id \in CommittedIds : id[2] <= clock
  /\ \A c \in Caller : Pending(c) => call[c].id[2] <= clock

\* The identifier of a pending put is nobody else's.
FreshInv ==
  \A c \in Caller : Pending(c) =>
    /\ call[c].id \notin CommittedIds
    /\ \A x \in Caller : Pending(x) /\ x # c => call[x].id # call[c].id

\* The chunks that a pending put has written are still there.
ChunkInv ==
  \A c \in Caller : Pending(c) =>
    \A i \in 0..(call[c].next - 1) :
      /\ ChunkKey(call[c].id, i) \in DOMAIN map
      /\ map[ChunkKey(call[c].id, i)] = Chunk(call[c].data, i)

ApartInv == \A c, x \in Caller : Putting(c) => ~Collecting(x)

\* A garbage collection has marked each committed object, or is going to.
MarkInv ==
  \A c \in Caller : Collecting(c) =>
    \A n \in Committed(map) :
      \/ map[ObjectMetaKey(n)].id \in call[c].live
      \/ call[c].at = "gc_mark" /\ ObjectMetaKey(n) \in call[c].todo

ObjectInv == TypeOK /\ IdInv /\ FreshInv /\ ChunkInv /\ ApartInv /\ MarkInv

-----------------------------------------------------------------------------
(* What writes do to the view.                                             *)

\* m and w agree except perhaps under k.
Agree(m, w, k) ==
  /\ DOMAIN m \ {k} = DOMAIN w \ {k}
  /\ \A x \in DOMAIN m \ {k} : w[x] = m[x]

LEMMA WritesAgree ==
  ASSUME NEW m, NEW k, NEW v
  PROVE  /\ Agree(m, Sets(m, k, v), k)
         /\ k \in DOMAIN Sets(m, k, v) /\ Sets(m, k, v)[k] = v
         /\ Agree(m, Drops(m, k), k)
BY DEF Agree, Sets, Drops

\* A key that is no object's metadata and no committed object's chunk is not seen.
LEMMA ViewKept ==
  ASSUME NEW m, NEW w, NEW k, Agree(m, w, k),
         \A n \in Name : k # ObjectMetaKey(n),
         \A n \in Committed(m) : \A i : k # ChunkKey(m[ObjectMetaKey(n)].id, i)
  PROVE  /\ Committed(w) = Committed(m)
         /\ \A n \in Committed(m) : w[ObjectMetaKey(n)] = m[ObjectMetaKey(n)]
         /\ View(w) = View(m)
         /\ Ids(w) = Ids(m)
<1>1. \A n \in Name : /\ ObjectMetaKey(n) \in DOMAIN w <=> ObjectMetaKey(n) \in DOMAIN m
                      /\ ObjectMetaKey(n) \in DOMAIN m
                           => w[ObjectMetaKey(n)] = m[ObjectMetaKey(n)]
  BY DEF Agree
<1>2. Committed(w) = Committed(m)
  BY <1>1 DEF Committed
<1>3. \A n \in Committed(m) : w[ObjectMetaKey(n)] = m[ObjectMetaKey(n)]
  BY <1>1 DEF Committed
<1>4. \A n \in Committed(m) :
        Whole(w, m[ObjectMetaKey(n)]) <=> Whole(m, m[ObjectMetaKey(n)])
  BY DEF Whole, Agree
<1>5. View(w) = View(m)
  BY <1>2, <1>3, <1>4, Zenon DEF View
<1>6. Ids(w) = Ids(m)
  BY <1>2, <1>3 DEF Ids
<1> QED
  BY <1>2, <1>3, <1>5, <1>6

\* Metadata of one name leaves the other names, and every chunk, as they were.
LEMMA ViewOthers ==
  ASSUME NEW m, NEW n \in Name, NEW meta, NEW w, w = Sets(m, ObjectMetaKey(n), meta)
  PROVE  /\ w[ObjectMetaKey(n)] = meta /\ ObjectMetaKey(n) \in DOMAIN w
         /\ \A x \in Name \ {n} : /\ x \in Committed(w) <=> x \in Committed(m)
                                  /\ x \in Committed(m) =>
                                       w[ObjectMetaKey(x)] = m[ObjectMetaKey(x)]
         /\ \A o : Whole(w, o) <=> Whole(m, o)
<1>1. Agree(m, w, ObjectMetaKey(n)) /\ w[ObjectMetaKey(n)] = meta
        /\ ObjectMetaKey(n) \in DOMAIN w
  BY WritesAgree
<1>2. \A x \in Name \ {n} : ObjectMetaKey(x) # ObjectMetaKey(n)
  BY KeysDiffer
<1>3. \A x \in Name \ {n} : /\ x \in Committed(w) <=> x \in Committed(m)
                            /\ x \in Committed(m) =>
                                 w[ObjectMetaKey(x)] = m[ObjectMetaKey(x)]
  BY <1>1, <1>2 DEF Committed, Agree
<1>4. \A id, i : ChunkKey(id, i) # ObjectMetaKey(n)
  BY KeysDiffer
<1>5. \A o : Whole(w, o) <=> Whole(m, o)
  BY <1>1, <1>4 DEF Whole, Agree
<1> QED
  BY <1>1, <1>3, <1>5

\* The metadata of an object whose chunks are all there puts it.
LEMMA ViewPut ==
  ASSUME NEW m, NEW n \in Name, NEW meta, meta.state = "Committed", Whole(m, meta),
         NEW w, w = Sets(m, ObjectMetaKey(n), meta)
  PROVE  /\ View(w) = Sets(View(m), n, meta.etag)
         /\ Committed(w) = Committed(m) \cup {n}
         /\ Ids(w) \subseteq Ids(m) \cup {meta.id}
<1>1. Committed(w) = Committed(m) \cup {n}
  BY ViewOthers DEF Committed
<1>2. \A x \in Committed(m) \ {n} : View(w)[x] = View(m)[x]
  BY <1>1, ViewOthers DEF View, Committed
<1>3. View(w)[n] = meta.etag
  BY <1>1, ViewOthers DEF View
<1>4. DOMAIN View(m) = Committed(m) /\ View(w) = [x \in Committed(w) |-> View(w)[x]]
  BY DEF View
<1>5. Ids(w) \subseteq Ids(m) \cup {meta.id}
  BY <1>1, ViewOthers DEF Ids, Committed
<1> QED
  BY <1>1, <1>2, <1>3, <1>4, <1>5 DEF Sets

\* Metadata that is marked as deleted deletes it.
LEMMA ViewDelete ==
  ASSUME NEW m, NEW n \in Name, NEW meta, meta.state = "Deleted",
         NEW w, w = Sets(m, ObjectMetaKey(n), meta)
  PROVE  /\ View(w) = Drops(View(m), n)
         /\ Committed(w) = Committed(m) \ {n}
         /\ \A x \in Committed(w) : w[ObjectMetaKey(x)] = m[ObjectMetaKey(x)]
         /\ Ids(w) \subseteq Ids(m)
<1>1. Committed(w) = Committed(m) \ {n}
  BY ViewOthers DEF Committed
<1>2. \A x \in Committed(w) : w[ObjectMetaKey(x)] = m[ObjectMetaKey(x)]
  BY <1>1, ViewOthers DEF Committed
<1>3. \A x \in Committed(w) : View(w)[x] = View(m)[x]
  BY <1>1, <1>2, ViewOthers DEF View, Committed
<1>4. DOMAIN View(m) = Committed(m) /\ View(w) = [x \in Committed(w) |-> View(w)[x]]
  BY DEF View
<1>5. Ids(w) \subseteq Ids(m)
  BY <1>1, <1>2 DEF Ids
<1> QED
  BY <1>1, <1>2, <1>3, <1>4, <1>5 DEF Drops

-----------------------------------------------------------------------------
(* Steps that no object sees.                                              *)

\* A call of the KVStore that touches neither metadata nor chunks.
Quiet ==
  \/ UNCHANGED contents
  \/ KV!Flush
  \/ \E k \in MapKey : /\ k[1] \in {"bucket", "bucketidx"}
                       /\ KV!Del(k) \/ \E v : KV!Put(k, v)

\* A step of an operation that neither begins or commits an object, nor collects.
Other(c) ==
  /\ Quiet
  /\ \E q : /\ call' = [call EXCEPT ![c] = q]
            /\ q.at \notin {"put_chunks", "gc_mark", "gc_sweep"}
            /\ q.at \in {"put_index", "put_flush"} =>
                 /\ call[c].at \in {"put_index", "put_flush"}
                 /\ q.name = call[c].name /\ q.data = call[c].data
            /\ q.at \in {"del_index", "del_flush"} => Deleting(c) /\ q.name = call[c].name
            /\ q.at = "del_meta" => \E n \in Name : DeleteObject(c, n)
            /\ q.at = "get_chunks" => GetChunk(c) \/ \E n \in Name : GetObject(c, n)
  /\ clock' = clock
  /\ UNCHANGED history \/ PutFlush(c) \/ \E n \in Name : DeleteObject(c, n)

\* Every step is one of these.
LEMMA Steps ==
  ASSUME TypeOK, Next
  PROVE  \/ \E c \in Caller : \/ Other(c)
                              \/ \E n \in Name, d \in Data : PutObject(c, n, d)
                              \/ PutChunk(c) \/ PutMetadata(c) \/ DeleteMetadata(c)
                              \/ GarbageCollectChunks(c) \/ GcMark(c) \/ GcScan(c)
                              \/ GcSweep(c)
         \/ Crash
<1>0. call \in [Caller -> CallState]
  BY DEF TypeOK
<1> SUFFICES ASSUME NEW c \in Caller,
                    BucketStep(c) \/ PutStep(c) \/ ReadStep(c) \/ DeleteStep(c) \/ GcStep(c)
             PROVE  \/ Other(c)
                    \/ \E n \in Name, d \in Data : PutObject(c, n, d)
                    \/ PutChunk(c) \/ PutMetadata(c) \/ DeleteMetadata(c)
                    \/ GarbageCollectChunks(c) \/ GcMark(c) \/ GcScan(c) \/ GcSweep(c)
  BY DEF Next
<1>1. Return(c) => \E q : /\ call' = [call EXCEPT ![c] = q]
                          /\ q.at = "idle"
  <2>1. Idle.at = "idle"
    BY DEF Idle
  <2> QED
    BY <2>1, Zenon DEF Return, Goto
<1>2. ASSUME BucketStep(c) PROVE Other(c)
  <2>1. ASSUME NEW b \in Bucket, CreateBucket(c, b) PROVE Other(c)
    <3> DEFINE q == [at |-> "bucket_put", bucket |-> b]
    <3>1. call' = [call EXCEPT ![c] = q] /\ q.at = "bucket_put"
      BY <2>1 DEF CreateBucket, Goto
    <3> HIDE DEF q
    <3> QED
      BY <2>1, <3>1, Zenon DEF CreateBucket, Other, Quiet
  <2>2. ASSUME CreateBucketPut(c) PROVE Other(c)
    <3>1. call[c].bucket \in Bucket
      BY <1>0, <2>2, CallKinds DEF CreateBucketPut, BucketCall
    <3>2. Quiet
      BY <2>2, <3>1, KeyTypes DEF CreateBucketPut, Quiet
    <3> QED
      BY <1>1, <2>2, <3>2 DEF CreateBucketPut, Other
  <2> QED
    BY <1>2, <2>1, <2>2 DEF BucketStep
<1>3. ASSUME PutIndex(c) PROVE Other(c)
  <2>1. call[c] \in PutCall
    BY <1>0, <1>3, CallKinds DEF PutIndex
  <2>2. call[c].name \in Name
    BY <2>1 DEF PutCall
  <2>3. Quiet
    BY <1>3, <2>2, KeyTypes DEF PutIndex, Quiet
  <2>4. call' = [call EXCEPT ![c] = [call[c] EXCEPT !.at = "put_flush"]]
    BY <1>3 DEF PutIndex, Goto
  <2>5. /\ [call[c] EXCEPT !.at = "put_flush"].at = "put_flush"
        /\ [call[c] EXCEPT !.at = "put_flush"].name = call[c].name
        /\ [call[c] EXCEPT !.at = "put_flush"].data = call[c].data
    BY <2>1 DEF PutCall
  <2> QED
    BY <1>3, <2>3, <2>4, <2>5, Zenon DEF PutIndex, Other
<1>4. ASSUME PutFlush(c) \/ DeleteFlush(c) \/ FlushFail(c) \/ GcFlush(c) PROVE Other(c)
  <2>1. Quiet /\ clock' = clock /\ Return(c) /\ (UNCHANGED history \/ PutFlush(c))
    BY <1>4 DEF PutFlush, DeleteFlush, FlushFail, GcFlush, Quiet
  <2> QED
    BY <1>1, <2>1 DEF Other
<1>5. ASSUME ReadStep(c) PROVE Other(c)
  <2>1. Quiet /\ clock' = clock /\ UNCHANGED history
    BY <1>5, Zenon DEF ReadStep, GetObject, GetChunk, GetReturn, ListObjects, ListEntry,
                ListReturn, Quiet
  <2>2. ASSUME NEW n \in Name, GetObject(c, n) PROVE Other(c)
    <3> DEFINE q == [at |-> "get_chunks", name |-> n, meta |-> map[ObjectMetaKey(n)],
                     next |-> 0, data |-> <<>>]
    <3>1. call' = [call EXCEPT ![c] = q] /\ q.at = "get_chunks"
      BY <2>2 DEF GetObject, Begin
    <3> HIDE DEF q
    <3> QED
      BY <2>1, <2>2, <3>1, Zenon DEF Other
  <2>3. ASSUME GetChunk(c) PROVE Other(c)
    <3>1. call[c] \in GetCall
      BY <1>0, <2>3, CallKinds DEF GetChunk
    <3>2. \A i, d : [call[c] EXCEPT !.next = i, !.data = d].at = "get_chunks"
      BY <3>1 DEF GetCall
    <3> DEFINE key == ChunkKey(call[c].meta.id, call[c].next)
               q == [call[c] EXCEPT !.next = @ + 1, !.data = @ \o map[key]]
    <3>3. q.at = "get_chunks"
      BY <3>2
    <3>4. call' = [call EXCEPT ![c] = q] \/ Return(c)
      BY <2>3, Zenon DEF GetChunk, Goto
    <3> HIDE DEF q
    <3>5. \E r : call' = [call EXCEPT ![c] = r] /\ r.at \in {"idle", "get_chunks"}
      BY <1>1, <3>3, <3>4
    <3> QED
      BY <2>1, <2>3, <3>5, Zenon DEF Other
  <2>4. ASSUME GetReturn(c) \/ ListReturn(c) PROVE Other(c)
    BY <1>1, <2>1, <2>4, Zenon DEF GetReturn, ListReturn, Other
  <2>5. ASSUME NEW b \in Bucket, ListObjects(c, b) PROVE Other(c)
    <3> DEFINE q == [at |-> "list", bucket |-> b, objects |-> {},
                     todo |-> {n \in Name : n[1] = b /\ BucketIndexKey(n) \in DOMAIN map}]
    <3>1. call' = [call EXCEPT ![c] = q] /\ q.at = "list"
      BY <2>5 DEF ListObjects, Begin
    <3> HIDE DEF q
    <3> QED
      BY <2>1, <3>1, Zenon DEF Other
  <2>6. ASSUME ListEntry(c) PROVE Other(c)
    <3>1. call[c] \in ListCall
      BY <1>0, <2>6, CallKinds DEF ListEntry
    <3>2. \A t, o : [call[c] EXCEPT !.todo = t, !.objects = o].at = "list"
      BY <3>1 DEF ListCall
    <3>3. PICK n \in call[c].todo : \E o \in {call[c].objects, call[c].objects \cup {n}} :
            call' = [call EXCEPT ![c] = [call[c] EXCEPT !.todo = @ \ {n}, !.objects = o]]
      BY <2>6, Zenon DEF ListEntry, Goto
    <3>4. PICK o : call' = [call EXCEPT ![c] = [call[c] EXCEPT !.todo = @ \ {n}, !.objects = o]]
      BY <3>3, Zenon
    <3> DEFINE q == [call[c] EXCEPT !.todo = @ \ {n}, !.objects = o]
    <3>5. call' = [call EXCEPT ![c] = q] /\ q.at = "list"
      BY <3>2, <3>4
    <3> HIDE DEF q
    <3> QED
      BY <2>1, <3>5, Zenon DEF Other
  <2> QED
    BY <1>5, <2>2, <2>3, <2>4, <2>5, <2>6 DEF ReadStep
<1>6. ASSUME NEW n \in Name, DeleteObject(c, n) PROVE Other(c)
  <2> DEFINE q == [at |-> "del_meta", name |-> n, meta |-> map[ObjectMetaKey(n)]]
  <2>1. call' = [call EXCEPT ![c] = q] /\ q.at = "del_meta"
    BY <1>6 DEF DeleteObject, Begin
  <2> HIDE DEF q
  <2> QED
    BY <1>6, <2>1, Zenon DEF DeleteObject, Other, Quiet
<1>7. ASSUME DeleteIndex(c) PROVE Other(c)
  <2>1. call[c] \in DeleteCall
    BY <1>0, <1>7, CallKinds DEF DeleteIndex
  <2> DEFINE q == [call[c] EXCEPT !.at = "del_flush"]
  <2>2. call[c].name \in Name /\ q.at = "del_flush" /\ q.name = call[c].name
    BY <2>1 DEF DeleteCall
  <2>4. call' = [call EXCEPT ![c] = q] /\ Deleting(c)
    BY <1>7 DEF DeleteIndex, Goto, Deleting
  <2> HIDE DEF q
  <2>3. Quiet
    BY <1>7, <2>2, KeyTypes DEF DeleteIndex, Quiet
  <2> QED
    BY <1>7, <2>2, <2>3, <2>4, Zenon DEF DeleteIndex, Other
<1> QED
  BY <1>2, <1>3, <1>4, <1>5, <1>6, <1>7 DEF PutStep, DeleteStep, GcStep

\* The two writes of the KVStore.
LEMMA Written ==
  /\ \A k, v : KV!Put(k, v) => /\ map' = Sets(map, k, v)
                               /\ survivors' = survivors \cup {map'}
  /\ \A k : KV!Del(k) => /\ map' = Drops(map, k)
                         /\ survivors' = survivors \cup {map'}
BY DEF KV!Put, KV!Del, KV!Write, KV!With, KV!Without, Sets, Drops

\* One more survivor.
LEMMA IdsWritten ==
  ASSUME NEW S, survivors' \subseteq survivors \cup {map'}, Ids(map') \subseteq Ids(map) \cup S,
         map \in survivors
  PROVE  CommittedIds' \subseteq CommittedIds \cup S
<1>1. CommittedIds' = UNION {Ids(s) : s \in survivors'}
  BY DEF CommittedIds, Ids, Committed
<1> QED
  BY <1>1 DEF CommittedIds

\* Keys of two kinds are neither metadata nor chunks.
LEMMA QuietKeys ==
  ASSUME NEW k \in MapKey, k[1] \in {"bucket", "bucketidx"}
  PROVE  /\ \A n \in Name : k # ObjectMetaKey(n)
         /\ \A id, i : k # ChunkKey(id, i)
BY DEF ObjectMetaKey, ChunkKey

\* Every object stays as it was.
SameObjects ==
  /\ Committed(map') = Committed(map)
  /\ \A n \in Committed(map) : map'[ObjectMetaKey(n)] = map[ObjectMetaKey(n)]
  /\ View(map') = View(map)
  /\ CommittedIds' \subseteq CommittedIds
  /\ survivors' \in {{map'}, survivors \cup {map'}}

\* Every chunk stays as it was.
SameChunks ==
  \A id, i : /\ ChunkKey(id, i) \in DOMAIN map' <=> ChunkKey(id, i) \in DOMAIN map
             /\ ChunkKey(id, i) \in DOMAIN map =>
                  map'[ChunkKey(id, i)] = map[ChunkKey(id, i)]

\* A write that no object sees.
LEMMA UnseenWrite ==
  ASSUME TypeOK, NEW k, KV!Del(k) \/ \E v : KV!Put(k, v),
         \A n \in Name : k # ObjectMetaKey(n),
         \A n \in Committed(map) : \A i : k # ChunkKey(map[ObjectMetaKey(n)].id, i)
  PROVE  SameObjects /\ Agree(map, map', k)
<1>1. Agree(map, map', k) /\ survivors' = survivors \cup {map'}
  BY Written, WritesAgree, SMTT(30)
<1>2. /\ Committed(map') = Committed(map)
      /\ \A n \in Committed(map) : map'[ObjectMetaKey(n)] = map[ObjectMetaKey(n)]
      /\ View(map') = View(map)
      /\ Ids(map') = Ids(map)
  BY <1>1, ViewKept
<1>3. CommittedIds' \subseteq CommittedIds \cup {}
  BY <1>1, <1>2, IdsWritten DEF TypeOK
<1> QED
  BY <1>1, <1>2, <1>3 DEF SameObjects

LEMMA QuietView ==
  ASSUME TypeOK, Quiet
  PROVE  SameObjects /\ SameChunks
<1>0. map \in survivors
  BY DEF TypeOK
<1>1. CASE map' = map /\ survivors' \in {{map}, survivors}
  <2>1. CommittedIds' \subseteq CommittedIds \cup {}
    BY <1>0, <1>1, IdsWritten
  <2>2. survivors' \in {{map'}, survivors \cup {map'}}
    BY <1>0, <1>1
  <2> QED
    BY <1>1, <2>1, <2>2 DEF SameObjects, SameChunks
<1>2. CASE \E k \in MapKey : /\ k[1] \in {"bucket", "bucketidx"}
                             /\ KV!Del(k) \/ \E v : KV!Put(k, v)
  <2>1. PICK k \in MapKey : /\ k[1] \in {"bucket", "bucketidx"}
                            /\ KV!Del(k) \/ \E v : KV!Put(k, v)
    BY <1>2
  <2>2. /\ \A n \in Name : k # ObjectMetaKey(n)
        /\ \A id, i : k # ChunkKey(id, i)
    BY <2>1, QuietKeys
  <2>3. SameObjects /\ Agree(map, map', k)
    BY <2>1, <2>2, UnseenWrite
  <2> QED
    BY <2>2, <2>3 DEF SameChunks, Agree
<1> QED
  BY <1>1, <1>2 DEF Quiet, KV!Flush, contents

-----------------------------------------------------------------------------
(* The invariant is inductive.                                             *)

\* What steps of other kinds than a put preserve.
LEMMA PendingKept ==
  ASSUME ObjectInv, clock' = clock, CommittedIds' \subseteq CommittedIds, SameChunks,
         \A x \in Caller : Pending(x)' => Pending(x) /\ call'[x] = call[x]
  PROVE  IdInv' /\ FreshInv' /\ ChunkInv'
<1>1. IdInv'
  BY DEF ObjectInv, IdInv
<1>2. FreshInv'
  BY DEF ObjectInv, FreshInv
<1>3. ASSUME NEW c \in Caller, Pending(c)',
             NEW i \in 0..(call'[c].next - 1)
      PROVE  /\ ChunkKey(call'[c].id, i) \in DOMAIN map'
             /\ map'[ChunkKey(call'[c].id, i)] = Chunk(call'[c].data, i)
  BY <1>3 DEF ObjectInv, ChunkInv, SameChunks
<1>4. ChunkInv'
  BY <1>3 DEF ChunkInv
<1> QED
  BY <1>1, <1>2, <1>4

LEMMA ApartKept ==
  ASSUME ApartInv, \A x \in Caller : /\ Putting(x)' => Putting(x)
                                     /\ Collecting(x)' => Collecting(x)
  PROVE  ApartInv'
BY DEF ApartInv

LEMMA MarkKept ==
  ASSUME MarkInv, \A x \in Caller : Collecting(x)' => Collecting(x) /\ call'[x] = call[x],
         \A n \in Committed(map') :
           /\ n \in Committed(map)
           /\ map'[ObjectMetaKey(n)] = map[ObjectMetaKey(n)]
  PROVE  MarkInv'
<1>1. ASSUME NEW c \in Caller, Collecting(c)', NEW n \in Committed(map')
      PROVE  \/ map'[ObjectMetaKey(n)].id \in call'[c].live
             \/ call'[c].at = "gc_mark" /\ ObjectMetaKey(n) \in call'[c].todo
  BY <1>1 DEF MarkInv
<1> QED
  BY <1>1 DEF MarkInv

LEMMA OtherInv ==
  ASSUME ObjectInv, NEW c \in Caller, Other(c)
  PROVE  IdInv' /\ FreshInv' /\ ChunkInv' /\ ApartInv' /\ MarkInv'
<1>1. SameObjects /\ SameChunks
  BY QuietView DEF Other, ObjectInv
<1>2. PICK q : /\ call' = [call EXCEPT ![c] = q]
               /\ q.at \notin {"put_chunks", "gc_mark", "gc_sweep"}
               /\ q.at \in {"put_index", "put_flush"} =>
                    call[c].at \in {"put_index", "put_flush"}
  BY Zenon DEF Other
<1>3. call'[c] = q /\ \A x \in Caller : x # c => call'[x] = call[x]
  BY <1>2 DEF ObjectInv, TypeOK
<1>4. \A x \in Caller : /\ Pending(x)' => Pending(x) /\ call'[x] = call[x]
                        /\ Collecting(x)' => Collecting(x) /\ call'[x] = call[x]
                        /\ Putting(x)' => Putting(x)
  BY <1>2, <1>3 DEF Pending, Collecting, Putting
<1>5. IdInv' /\ FreshInv' /\ ChunkInv'
  BY <1>1, <1>4, PendingKept DEF SameObjects, Other
<1>6. ApartInv'
  BY <1>4, ApartKept DEF ObjectInv
<1>7. MarkInv'
  BY <1>1, <1>4, MarkKept DEF ObjectInv, SameObjects
<1> QED
  BY <1>5, <1>6, <1>7

\* The types that the comparison of identifiers needs.
LEMMA IdTypes ==
  ASSUME TypeOK
  PROVE  /\ \A id \in CommittedIds : id \in ObjectId /\ id[2] \in Nat
         /\ \A c \in Caller : Putting(c) => call[c] \in PutCall
         /\ \A c \in Caller : Pending(c) =>
              /\ call[c] \in PutCall /\ call[c].name \in Name /\ call[c].data \in Data
              /\ call[c].next \in Nat /\ call[c].id \in ObjectId /\ call[c].id[2] \in Nat
<1>1. \A s \in survivors : \A n \in Committed(s) : s[ObjectMetaKey(n)].id \in ObjectId
  <2> SUFFICES ASSUME NEW s \in survivors, NEW n \in Committed(s)
               PROVE  s[ObjectMetaKey(n)].id \in ObjectId
    OBVIOUS
  <2>1. Typed(s) /\ n \in Name /\ ObjectMetaKey(n) \in DOMAIN s
    BY DEF TypeOK, Committed
  <2>2. s[ObjectMetaKey(n)] \in Metadata
    BY <2>1, KeyTypes DEF Typed
  <2> QED
    BY <2>2 DEF Metadata
<1>2. CommittedIds \subseteq ObjectId
  BY <1>1 DEF CommittedIds, Ids
<1>3. \A c \in Caller : Putting(c) => call[c] \in PutCall
  BY CallKinds DEF TypeOK, Putting
<1>4. \A id \in ObjectId : id[2] \in Nat
  BY DEF ObjectId
<1>5. \A c \in Caller : Pending(c) => Putting(c)
  BY DEF Pending, Putting
<1>6. \A p \in PutCall : /\ p.name \in Name /\ p.data \in Data /\ p.next \in Nat
                         /\ p.id \in ObjectId
  BY DEF PutCall
<1> QED
  BY <1>2, <1>3, <1>4, <1>5, <1>6

\* A put begins: its identifier is later than every other one.
LEMMA PutObjectInv ==
  ASSUME Features = {}, ObjectInv, NEW c \in Caller, NEW n \in Name, NEW d \in Data,
         PutObject(c, n, d)
  PROVE  IdInv' /\ FreshInv' /\ ChunkInv' /\ ApartInv' /\ MarkInv'
<1> DEFINE q == [at |-> "put_chunks", name |-> n, id |-> <<n, clock + 1>>,
                 data |-> d, next |-> 0]
<1>0. TypeOK
  BY DEF ObjectInv
<1>1. clock' = clock + 1 /\ call' = [call EXCEPT ![c] = q] /\ map' = map
        /\ survivors' = survivors
  BY Zenon DEF PutObject, Begin, contents
<1>2. q.at = "put_chunks" /\ q.id[2] = clock + 1 /\ q.next = 0
  OBVIOUS
<1> HIDE DEF q
<1>3. call'[c] = q /\ \A x \in Caller : x # c => call'[x] = call[x]
  BY <1>0, <1>1 DEF TypeOK
<1>4. \A x \in Caller : ~Collecting(x)
  BY DEF PutObject
<1>5. \A x \in Caller : ~Collecting(x)'
  BY <1>2, <1>3, <1>4 DEF Collecting
<1>6. ApartInv' /\ MarkInv'
  BY <1>5 DEF ApartInv, MarkInv
<1>7. CommittedIds' = CommittedIds
  BY <1>1 DEF CommittedIds, Ids, Committed
<1>8. clock \in Nat
  BY <1>0 DEF TypeOK
<1>9. \A id \in CommittedIds : id[2] \in Nat /\ id[2] < clock + 1
  BY <1>0, <1>8, IdTypes DEF ObjectInv, IdInv
<1>10. \A x \in Caller : Pending(x) => call[x].id[2] \in Nat /\ call[x].id[2] < clock + 1
  BY <1>0, <1>8, IdTypes DEF ObjectInv, IdInv
<1>11. \A x \in Caller : x # c /\ Pending(x)' => Pending(x)
  BY <1>3 DEF Pending
<1>12. IdInv'
  BY <1>1, <1>2, <1>3, <1>7, <1>8, <1>9, <1>10, <1>11, SMTT(30) DEF IdInv
<1>13. FreshInv'
  BY <1>1, <1>2, <1>3, <1>7, <1>8, <1>9, <1>10, <1>11 DEF FreshInv, ObjectInv
<1>14. ChunkInv'
  <2>1. ASSUME NEW x \in Caller, Pending(x)', NEW i \in 0..(call'[x].next - 1)
        PROVE  /\ ChunkKey(call'[x].id, i) \in DOMAIN map'
               /\ map'[ChunkKey(call'[x].id, i)] = Chunk(call'[x].data, i)
    <3>1. CASE x = c
      <4>1. i \in 0..(0 - 1)
        BY <1>2, <1>3, <2>1, <3>1
      <4> QED
        BY <4>1
    <3>2. CASE x # c
      BY <1>1, <1>3, <1>11, <2>1, <3>2 DEF ChunkInv, ObjectInv
    <3> QED
      BY <3>1, <3>2
  <2> QED
    BY <2>1 DEF ChunkInv
<1> QED
  BY <1>6, <1>12, <1>13, <1>14

\* A chunk is written under an identifier that is nobody else's.
LEMMA PutChunkEffect ==
  ASSUME ObjectInv, NEW c \in Caller, PutChunk(c)
  PROVE  /\ SameObjects
         /\ Agree(map, map', ChunkKey(call[c].id, call[c].next))
         /\ ChunkKey(call[c].id, call[c].next) \in DOMAIN map'
         /\ map'[ChunkKey(call[c].id, call[c].next)] = Chunk(call[c].data, call[c].next)
<1> DEFINE k == ChunkKey(call[c].id, call[c].next)
<1>0. TypeOK /\ Pending(c)
  BY DEF ObjectInv, PutChunk, Pending
<1>1. KV!Put(k, Chunk(call[c].data, call[c].next))
  BY DEF PutChunk
<1>2. \A n \in Name : k # ObjectMetaKey(n)
  BY KeysDiffer
<1>3. \A n \in Committed(map) : map[ObjectMetaKey(n)].id # call[c].id
  BY <1>0 DEF ObjectInv, FreshInv, CommittedIds, Ids, TypeOK
<1>4. \A n \in Committed(map) : \A i : k # ChunkKey(map[ObjectMetaKey(n)].id, i)
  BY <1>3, KeysDiffer
<1>5. k \in DOMAIN map' /\ map'[k] = Chunk(call[c].data, call[c].next)
  BY <1>1, Written, WritesAgree
<1> HIDE DEF k
<1>6. SameObjects /\ Agree(map, map', k)
  BY <1>0, <1>1, <1>2, <1>4, UnseenWrite
<1> QED
  BY <1>5, <1>6 DEF k

LEMMA PutChunkInv ==
  ASSUME ObjectInv, NEW c \in Caller, PutChunk(c)
  PROVE  IdInv' /\ FreshInv' /\ ChunkInv' /\ ApartInv' /\ MarkInv'
<1> DEFINE k == ChunkKey(call[c].id, call[c].next)
           q == [call[c] EXCEPT !.next = @ + 1]
<1>0. TypeOK /\ Pending(c)
  BY DEF ObjectInv, PutChunk, Pending
<1>1. call[c] \in PutCall /\ call[c].next \in Nat
  BY <1>0, IdTypes
<1>2. /\ q.at = call[c].at /\ q.id = call[c].id /\ q.data = call[c].data
      /\ q.next = call[c].next + 1
  BY <1>1 DEF PutCall
<1>3. call' = [call EXCEPT ![c] = q] /\ clock' = clock
  BY DEF PutChunk, Goto
<1> HIDE DEF q
<1>4. call'[c] = q /\ \A x \in Caller : x # c => call'[x] = call[x]
  BY <1>0, <1>3 DEF TypeOK
<1>5. \A x \in Caller : /\ Pending(x)' => Pending(x) /\ call'[x].id = call[x].id
                        /\ Putting(x)' => Putting(x)
                        /\ Collecting(x)' => Collecting(x) /\ call'[x] = call[x]
  BY <1>0, <1>2, <1>4 DEF Pending, Putting, Collecting
<1>6. /\ SameObjects
      /\ Agree(map, map', k)
      /\ k \in DOMAIN map' /\ map'[k] = Chunk(call[c].data, call[c].next)
  BY PutChunkEffect
<1>7. IdInv'
  BY <1>3, <1>5, <1>6, Zenon DEF ObjectInv, IdInv, SameObjects
<1>8. FreshInv'
  BY <1>5, <1>6, Zenon DEF ObjectInv, FreshInv, SameObjects
<1>9. ApartInv'
  BY <1>5, ApartKept DEF ObjectInv
<1>10. MarkInv'
  BY <1>5, <1>6, MarkKept DEF ObjectInv, SameObjects
<1>11. ASSUME NEW x \in Caller, Pending(x)', NEW i \in 0..(call'[x].next - 1)
       PROVE  /\ ChunkKey(call'[x].id, i) \in DOMAIN map'
              /\ map'[ChunkKey(call'[x].id, i)] = Chunk(call'[x].data, i)
  <2>1. CASE x = c /\ i = call[c].next
    BY <1>2, <1>4, <1>6, <2>1
  <2>2. CASE x = c /\ i # call[c].next
    <3>1. i \in 0..(call[c].next - 1)
      BY <1>1, <1>2, <1>4, <1>11, <2>2
    <3>2. ChunkKey(call[c].id, i) # k
      BY <2>2, KeysDiffer, SMTT(30)
    <3>3. /\ ChunkKey(call[c].id, i) \in DOMAIN map
          /\ map[ChunkKey(call[c].id, i)] = Chunk(call[c].data, i)
      BY <1>0, <3>1 DEF ObjectInv, ChunkInv
    <3> HIDE DEF k
    <3> QED
      BY <1>2, <1>4, <1>6, <2>2, <3>2, <3>3 DEF Agree
  <2>3. CASE x # c
    <3>1. Pending(x) /\ call'[x] = call[x]
      BY <1>4, <1>5, <1>11, <2>3
    <3>2. ChunkKey(call[x].id, i) # k
      BY <1>0, <2>3, <3>1, KeysDiffer, SMTT(30) DEF ObjectInv, FreshInv
    <3>3. /\ ChunkKey(call[x].id, i) \in DOMAIN map
          /\ map[ChunkKey(call[x].id, i)] = Chunk(call[x].data, i)
      BY <1>11, <3>1 DEF ObjectInv, ChunkInv
    <3> HIDE DEF k
    <3> QED
      BY <1>6, <3>1, <3>2, <3>3 DEF Agree
  <2> QED
    BY <2>1, <2>2, <2>3
<1>12. ChunkInv'
  BY <1>11 DEF ChunkInv
<1> QED
  BY <1>7, <1>8, <1>9, <1>10, <1>12

\* The chunks of an object stay where metadata is written.
LEMMA MetadataChunks ==
  ASSUME NEW n \in Name, NEW meta, KV!Put(ObjectMetaKey(n), meta)
  PROVE  SameChunks
<1>1. Agree(map, map', ObjectMetaKey(n))
  BY Written, WritesAgree
<1>2. \A id, i : ChunkKey(id, i) # ObjectMetaKey(n)
  BY KeysDiffer
<1> QED
  BY <1>1, <1>2 DEF SameChunks, Agree

\* The commit point: all chunks are there.
LEMMA PutMetadataEffect ==
  ASSUME ObjectInv, NEW c \in Caller, PutMetadata(c)
  PROVE  /\ call[c].name \in Name /\ call[c].data \in Data
         /\ View(map') = Sets(View(map), call[c].name, call[c].data)
         /\ survivors' = survivors \cup {map'}
         /\ CommittedIds' \subseteq CommittedIds \cup {call[c].id}
         /\ SameChunks
<1> DEFINE meta == [id |-> call[c].id, size |-> Len(call[c].data),
                    count |-> ChunkCount(call[c].data),
                    etag |-> call[c].data, state |-> "Committed"]
<1>0. TypeOK /\ Pending(c)
  BY DEF ObjectInv, PutMetadata, Pending
<1>1. call[c].name \in Name /\ call[c].data \in Data
  BY <1>0, IdTypes
<1>2. KV!Put(ObjectMetaKey(call[c].name), meta) /\ call[c].next = ChunkCount(call[c].data)
  BY DEF PutMetadata
<1>3. /\ meta.state = "Committed" /\ meta.etag = call[c].data /\ meta.id = call[c].id
      /\ meta.count = call[c].next
  BY <1>2
<1> HIDE DEF meta
<1>4. Whole(map, meta)
  BY <1>0, <1>3 DEF ObjectInv, ChunkInv, Whole
<1>5. map' = Sets(map, ObjectMetaKey(call[c].name), meta) /\ survivors' = survivors \cup {map'}
  BY <1>2, Written
<1>6. /\ View(map') = Sets(View(map), call[c].name, meta.etag)
      /\ Ids(map') \subseteq Ids(map) \cup {meta.id}
  BY <1>1, <1>3, <1>4, <1>5, ViewPut
<1>7. CommittedIds' \subseteq CommittedIds \cup {call[c].id}
  BY <1>0, <1>3, <1>5, <1>6, IdsWritten, Zenon DEF TypeOK
<1>8. SameChunks
  BY <1>1, <1>2, MetadataChunks
<1> QED
  BY <1>1, <1>3, <1>5, <1>6, <1>7, <1>8

LEMMA PutMetadataInv ==
  ASSUME ObjectInv, NEW c \in Caller, PutMetadata(c)
  PROVE  IdInv' /\ FreshInv' /\ ChunkInv' /\ ApartInv' /\ MarkInv'
<1> DEFINE q == [call[c] EXCEPT !.at = "put_index"]
<1>0. TypeOK /\ Pending(c)
  BY DEF ObjectInv, PutMetadata, Pending
<1>1. q.at = "put_index"
  BY <1>0, IdTypes DEF PutCall
<1>2. call' = [call EXCEPT ![c] = q] /\ clock' = clock
  BY DEF PutMetadata, Goto
<1> HIDE DEF q
<1>3. call'[c] = q /\ \A x \in Caller : x # c => call'[x] = call[x]
  BY <1>0, <1>2 DEF TypeOK
<1>4. \A x \in Caller : /\ Pending(x)' => x # c /\ Pending(x) /\ call'[x] = call[x]
                        /\ Putting(x)' => Putting(x)
                        /\ Collecting(x)' => Collecting(x)
  BY <1>0, <1>1, <1>3 DEF Pending, Putting, Collecting
<1>5. CommittedIds' \subseteq CommittedIds \cup {call[c].id} /\ SameChunks
  BY PutMetadataEffect
<1>6. IdInv'
  BY <1>0, <1>2, <1>4, <1>5 DEF ObjectInv, IdInv
<1>7. FreshInv'
  BY <1>0, <1>4, <1>5 DEF ObjectInv, FreshInv
<1>8. ApartInv'
  BY <1>4, ApartKept DEF ObjectInv
<1>9. MarkInv'
  <2>1. \A x \in Caller : ~Collecting(x)'
    BY <1>0, <1>4 DEF ObjectInv, ApartInv, Putting, Pending
  <2> QED
    BY <2>1, Zenon DEF MarkInv
<1>10. ASSUME NEW x \in Caller, Pending(x)', NEW i \in 0..(call'[x].next - 1)
       PROVE  /\ ChunkKey(call'[x].id, i) \in DOMAIN map'
              /\ map'[ChunkKey(call'[x].id, i)] = Chunk(call'[x].data, i)
  <2>1. Pending(x) /\ call'[x] = call[x] /\ i \in 0..(call[x].next - 1)
    BY <1>4, <1>10
  <2>2. /\ ChunkKey(call[x].id, i) \in DOMAIN map
        /\ map[ChunkKey(call[x].id, i)] = Chunk(call[x].data, i)
    BY <2>1 DEF ObjectInv, ChunkInv
  <2>3. /\ ChunkKey(call[x].id, i) \in DOMAIN map'
        /\ map'[ChunkKey(call[x].id, i)] = map[ChunkKey(call[x].id, i)]
    BY <1>5, <2>2 DEF SameChunks
  <2> QED
    BY <2>1, <2>2, <2>3
<1>11. ChunkInv'
  BY <1>10 DEF ChunkInv
<1> QED
  BY <1>6, <1>7, <1>8, <1>9, <1>11

\* The other commit point.
LEMMA DeleteMetadataEffect ==
  ASSUME TypeOK, NEW c \in Caller, DeleteMetadata(c)
  PROVE  /\ call[c].name \in Name
         /\ View(map') = Drops(View(map), call[c].name)
         /\ survivors' = survivors \cup {map'}
         /\ \A n \in Committed(map') : /\ n \in Committed(map)
                                       /\ map'[ObjectMetaKey(n)] = map[ObjectMetaKey(n)]
         /\ CommittedIds' \subseteq CommittedIds
         /\ SameChunks
<1> DEFINE meta == [call[c].meta EXCEPT !.state = "Deleted"]
<1>1. call[c] \in DeleteCall
  BY CallKinds DEF TypeOK, DeleteMetadata
<1>2. call[c].name \in Name /\ meta.state = "Deleted"
  BY <1>1 DEF DeleteCall, Metadata
<1>3. KV!Put(ObjectMetaKey(call[c].name), meta)
  BY DEF DeleteMetadata
<1> HIDE DEF meta
<1>4. map' = Sets(map, ObjectMetaKey(call[c].name), meta) /\ survivors' = survivors \cup {map'}
  BY <1>3, Written
<1>5. /\ View(map') = Drops(View(map), call[c].name)
      /\ Committed(map') = Committed(map) \ {call[c].name}
      /\ \A n \in Committed(map') : map'[ObjectMetaKey(n)] = map[ObjectMetaKey(n)]
      /\ Ids(map') \subseteq Ids(map)
  BY <1>2, <1>4, ViewDelete
<1>6. CommittedIds' \subseteq CommittedIds \cup {}
  BY <1>4, <1>5, IdsWritten DEF TypeOK
<1>7. SameChunks
  BY <1>2, <1>3, MetadataChunks
<1> QED
  BY <1>2, <1>4, <1>5, <1>6, <1>7

LEMMA DeleteMetadataInv ==
  ASSUME ObjectInv, NEW c \in Caller, DeleteMetadata(c)
  PROVE  IdInv' /\ FreshInv' /\ ChunkInv' /\ ApartInv' /\ MarkInv'
<1> DEFINE q == [call[c] EXCEPT !.at = "del_index"]
<1>0. TypeOK
  BY DEF ObjectInv
<1>1. call[c] \in DeleteCall
  BY <1>0, CallKinds DEF TypeOK, DeleteMetadata
<1>2. q.at = "del_index"
  BY <1>1 DEF DeleteCall
<1>3. call' = [call EXCEPT ![c] = q] /\ clock' = clock
  BY DEF DeleteMetadata, Goto
<1> HIDE DEF q
<1>4. call'[c] = q /\ \A x \in Caller : x # c => call'[x] = call[x]
  BY <1>0, <1>3 DEF TypeOK
<1>5. \A x \in Caller : /\ Pending(x)' => Pending(x) /\ call'[x] = call[x]
                        /\ Putting(x)' => Putting(x)
                        /\ Collecting(x)' => Collecting(x) /\ call'[x] = call[x]
  BY <1>2, <1>4 DEF Pending, Putting, Collecting
<1>6. /\ \A n \in Committed(map') : /\ n \in Committed(map)
                                    /\ map'[ObjectMetaKey(n)] = map[ObjectMetaKey(n)]
      /\ CommittedIds' \subseteq CommittedIds
      /\ SameChunks
  BY <1>0, DeleteMetadataEffect
<1>7. IdInv' /\ FreshInv' /\ ChunkInv'
  BY <1>3, <1>5, <1>6, PendingKept
<1>8. ApartInv'
  BY <1>5, ApartKept DEF ObjectInv
<1>9. MarkInv'
  BY <1>5, <1>6, MarkKept DEF ObjectInv
<1> QED
  BY <1>7, <1>8, <1>9

\* A collection that begins has all metadata to read.
LEMMA MarkBegins ==
  ASSUME TypeOK
  PROVE  \A n \in Committed(map) : ObjectMetaKey(n) \in KeysWithPrefix("objmeta")
BY KeyTypes DEF Committed, KeysWithPrefix

\* Steps of a collection that write nothing.
LEMMA CollectInv ==
  ASSUME Features = {}, ObjectInv, NEW c \in Caller,
         GarbageCollectChunks(c) \/ GcMark(c) \/ GcScan(c)
  PROVE  IdInv' /\ FreshInv' /\ ChunkInv' /\ ApartInv' /\ MarkInv'
<1>0. TypeOK
  BY DEF ObjectInv
<1>1. UNCHANGED contents /\ clock' = clock
  BY Zenon DEF GarbageCollectChunks, GcMark, GcScan
<1>2. SameObjects /\ SameChunks /\ map' = map
  BY <1>0, <1>1, QuietView DEF Quiet, contents
<1>3. PICK q : /\ call' = [call EXCEPT ![c] = q]
               /\ q.at \in {"gc_mark", "gc_sweep"}
               /\ \A n \in Committed(map) :
                    \/ map[ObjectMetaKey(n)].id \in q.live
                    \/ q.at = "gc_mark" /\ ObjectMetaKey(n) \in q.todo
  <2>1. CASE GarbageCollectChunks(c)
    <3> DEFINE q == [at |-> "gc_mark", todo |-> KeysWithPrefix("objmeta"), live |-> {}]
    <3>1. call' = [call EXCEPT ![c] = q] /\ q.at = "gc_mark"
            /\ q.todo = KeysWithPrefix("objmeta")
      BY <2>1, Zenon DEF GarbageCollectChunks, Begin
    <3> HIDE DEF q
    <3> QED
      BY <1>0, <3>1, MarkBegins, Zenon
  <2>2. CASE GcMark(c)
    <3>1. PICK key \in call[c].todo :
            call' = [call EXCEPT ![c] =
              [call[c] EXCEPT !.todo = @ \ {key},
                 !.live = IF key \in DOMAIN map /\ map[key].state = "Committed"
                          THEN @ \cup {map[key].id} ELSE @]]
      BY <2>2, Zenon DEF GcMark, Goto
    <3> DEFINE q == [call[c] EXCEPT !.todo = @ \ {key},
                       !.live = IF key \in DOMAIN map /\ map[key].state = "Committed"
                                THEN @ \cup {map[key].id} ELSE @]
    <3>2. call[c] \in MarkCall /\ Collecting(c) /\ call[c].at = "gc_mark"
      BY <1>0, <2>2, CallKinds, Zenon DEF GcMark, TypeOK, Collecting
    <3>3. /\ q.at = "gc_mark" /\ q.todo = call[c].todo \ {key}
          /\ call[c].live \subseteq q.live
          /\ key \in DOMAIN map /\ map[key].state = "Committed" => map[key].id \in q.live
      BY <3>2 DEF MarkCall
    <3>4. call' = [call EXCEPT ![c] = q]
      BY <3>1
    <3> HIDE DEF q
    <3>5. ASSUME NEW n \in Committed(map)
          PROVE  \/ map[ObjectMetaKey(n)].id \in q.live
                 \/ q.at = "gc_mark" /\ ObjectMetaKey(n) \in q.todo
      <4>1. \/ map[ObjectMetaKey(n)].id \in call[c].live
            \/ ObjectMetaKey(n) \in call[c].todo
        BY <3>2 DEF ObjectInv, MarkInv
      <4>2. ObjectMetaKey(n) \in DOMAIN map /\ map[ObjectMetaKey(n)].state = "Committed"
        BY DEF Committed
      <4> QED
        BY <3>3, <4>1, <4>2
    <3> QED
      BY <3>3, <3>4, <3>5, Zenon
  <2>3. CASE GcScan(c)
    <3> DEFINE q == [call[c] EXCEPT !.at = "gc_sweep", !.todo = KeysWithPrefix("objchunk")]
    <3>1. call[c] \in MarkCall /\ Collecting(c) /\ call[c].todo = {}
      BY <1>0, <2>3, CallKinds DEF GcScan, TypeOK, Collecting
    <3>2. q.at = "gc_sweep" /\ q.live = call[c].live
      BY <3>1 DEF MarkCall
    <3>3. call' = [call EXCEPT ![c] = q]
      BY <2>3 DEF GcScan, Goto
    <3> HIDE DEF q
    <3>4. \A n \in Committed(map) : map[ObjectMetaKey(n)].id \in call[c].live
      BY <3>1 DEF ObjectInv, MarkInv
    <3> QED
      BY <3>2, <3>3, <3>4, Zenon
  <2> QED
    BY <2>1, <2>2, <2>3
<1>4. call'[c] = q /\ \A x \in Caller : x # c => call'[x] = call[x]
  BY <1>0, <1>3 DEF TypeOK
<1>5. \A x \in Caller : Pending(x)' => Pending(x) /\ call'[x] = call[x]
  BY <1>3, <1>4 DEF Pending
<1>6. IdInv' /\ FreshInv' /\ ChunkInv'
  BY <1>1, <1>2, <1>5, PendingKept DEF SameObjects
<1>7. \A x \in Caller : ~Putting(x)
  BY Zenon DEF GarbageCollectChunks, GcMark, GcScan, ObjectInv, ApartInv, Collecting
<1>8. \A x \in Caller : ~Putting(x)'
  BY <1>3, <1>4, <1>7 DEF Putting
<1>9. ApartInv'
  BY <1>8 DEF ApartInv
<1>10. MarkInv'
  <2>1. ASSUME NEW x \in Caller, Collecting(x)', NEW n \in Committed(map)
        PROVE  \/ map[ObjectMetaKey(n)].id \in call'[x].live
               \/ call'[x].at = "gc_mark" /\ ObjectMetaKey(n) \in call'[x].todo
    BY <1>3, <1>4, <2>1 DEF ObjectInv, MarkInv, Collecting
  <2> QED
    BY <1>2, <2>1 DEF MarkInv
<1> QED
  BY <1>6, <1>9, <1>10

\* The sweep removes no chunk of a committed object.
LEMMA GcSweepEffect ==
  ASSUME ObjectInv, NEW c \in Caller, GcSweep(c)
  PROVE  SameObjects
<1>0. TypeOK
  BY DEF ObjectInv
<1>1. PICK key \in call[c].todo :
        IF key[2] \in call[c].live THEN UNCHANGED contents ELSE KV!Del(key)
  BY DEF GcSweep
<1>2. CASE UNCHANGED contents
  BY <1>0, <1>2, QuietView DEF Quiet
<1>3. CASE key[2] \notin call[c].live /\ KV!Del(key)
  <2>1. call[c] \in SweepCall /\ Collecting(c) /\ call[c].at = "gc_sweep"
    BY <1>0, CallKinds DEF GcSweep, TypeOK, Collecting
  <2>2. key \in {"objchunk"} \X ObjectId \X Nat
    BY <1>1, <2>1 DEF SweepCall
  <2>3. \A n \in Name : key # ObjectMetaKey(n)
    BY <2>2 DEF ObjectMetaKey
  <2>4. \A n \in Committed(map) : map[ObjectMetaKey(n)].id \in call[c].live
    BY <2>1 DEF ObjectInv, MarkInv
  <2>5. \A id, i : key = ChunkKey(id, i) => key[2] = id
    BY DEF ChunkKey
  <2>6. \A n \in Committed(map) : \A i : key # ChunkKey(map[ObjectMetaKey(n)].id, i)
    BY <1>3, <2>4, <2>5
  <2> QED
    BY <1>0, <1>3, <2>3, <2>6, UnseenWrite
<1> QED
  BY <1>1, <1>2, <1>3

LEMMA GcSweepInv ==
  ASSUME ObjectInv, NEW c \in Caller, GcSweep(c)
  PROVE  IdInv' /\ FreshInv' /\ ChunkInv' /\ ApartInv' /\ MarkInv'
<1>0. TypeOK
  BY DEF ObjectInv
<1>1. SameObjects
  BY GcSweepEffect
<1>2. PICK key \in call[c].todo : call' = [call EXCEPT ![c] = [call[c] EXCEPT !.todo = @ \ {key}]]
  BY Zenon DEF GcSweep, Goto
<1> DEFINE q == [call[c] EXCEPT !.todo = @ \ {key}]
<1>3. call[c] \in SweepCall /\ Collecting(c) /\ call[c].at = "gc_sweep"
  BY <1>0, CallKinds DEF GcSweep, TypeOK, Collecting
<1>4. q.at = "gc_sweep" /\ q.live = call[c].live
  BY <1>3 DEF SweepCall
<1>5. call' = [call EXCEPT ![c] = q] /\ clock' = clock
  BY <1>2 DEF GcSweep
<1> HIDE DEF q
<1>6. call'[c] = q /\ \A x \in Caller : x # c => call'[x] = call[x]
  BY <1>0, <1>5 DEF TypeOK
<1>7. \A x \in Caller : ~Putting(x)
  BY <1>3 DEF ObjectInv, ApartInv
<1>8. \A x \in Caller : ~Putting(x)' /\ ~Pending(x)'
  BY <1>4, <1>6, <1>7 DEF Putting, Pending
<1>9. FreshInv' /\ ApartInv'
  BY <1>8 DEF FreshInv, ApartInv
<1>10. ChunkInv'
  BY <1>8, Zenon DEF ChunkInv
<1>11. IdInv'
  BY <1>1, <1>5, <1>8 DEF IdInv, ObjectInv, SameObjects
<1>12. ASSUME NEW x \in Caller, Collecting(x)', NEW n \in Committed(map')
       PROVE  \/ map'[ObjectMetaKey(n)].id \in call'[x].live
              \/ call'[x].at = "gc_mark" /\ ObjectMetaKey(n) \in call'[x].todo
  <2>1. n \in Committed(map) /\ map'[ObjectMetaKey(n)] = map[ObjectMetaKey(n)]
    BY <1>1 DEF SameObjects
  <2>2. CASE x = c
    BY <1>3, <1>4, <1>6, <2>1, <2>2 DEF ObjectInv, MarkInv
  <2>3. CASE x # c
    BY <1>6, <1>12, <2>1, <2>3 DEF ObjectInv, MarkInv, Collecting
  <2> QED
    BY <2>2, <2>3
<1>13. MarkInv'
  BY <1>12 DEF MarkInv
<1> QED
  BY <1>9, <1>10, <1>11, <1>13

LEMMA CrashInv ==
  ASSUME ObjectInv, Crash
  PROVE  IdInv' /\ FreshInv' /\ ChunkInv' /\ ApartInv' /\ MarkInv'
<1>1. \A x \in Caller : call'[x].at = "idle"
  BY DEF Crash, Idle
<1>2. \A x \in Caller : ~Pending(x)' /\ ~Putting(x)' /\ ~Collecting(x)'
  BY <1>1 DEF Pending, Putting, Collecting
<1>3. FreshInv' /\ ApartInv'
  BY <1>2 DEF FreshInv, ApartInv
<1>4. ChunkInv' /\ MarkInv'
  BY <1>2, Zenon DEF ChunkInv, MarkInv
<1>5. survivors' \subseteq survivors /\ clock' = clock
  BY DEF Crash, KV!Crash
<1>6. CommittedIds' = UNION {Ids(s) : s \in survivors'}
  BY DEF CommittedIds, Ids, Committed
<1>7. CommittedIds' \subseteq CommittedIds
  BY <1>5, <1>6 DEF CommittedIds
<1>8. IdInv'
  BY <1>2, <1>5, <1>7 DEF IdInv, ObjectInv
<1> QED
  BY <1>3, <1>4, <1>8

LEMMA ObjectInit == Init => ObjectInv
<1> SUFFICES ASSUME Init PROVE ObjectInv
  OBVIOUS
<1>1. TypeOK
  BY TypeInit
<1>2. \A x \in Caller : call[x].at = "idle"
  BY DEF Init, Idle
<1>3. \A x \in Caller : ~Pending(x) /\ ~Putting(x) /\ ~Collecting(x)
  BY <1>2 DEF Pending, Putting, Collecting
<1>4. survivors = {KV!Empty} /\ DOMAIN KV!Empty = {}
  BY DEF Init, KV!Init, KV!Empty
<1>5. CommittedIds = {}
  BY <1>4 DEF CommittedIds, Ids, Committed
<1> QED
  BY <1>1, <1>3, <1>5, Zenon DEF ObjectInv, IdInv, FreshInv, ChunkInv, ApartInv, MarkInv

LEMMA ObjectNext == ASSUME Features = {} PROVE ObjectInv /\ [Next]_vars => ObjectInv'
<1> SUFFICES ASSUME ObjectInv, [Next]_vars PROVE ObjectInv'
  OBVIOUS
<1>1. TypeOK'
  BY TypeNext DEF ObjectInv
<1>2. CASE UNCHANGED vars
  BY <1>2, <1>1, Zenon DEF vars, ObjectInv, IdInv, FreshInv, ChunkInv, ApartInv, MarkInv, Pending,
       Putting, Collecting, CommittedIds, Ids, Committed
<1>3. ASSUME Next PROVE IdInv' /\ FreshInv' /\ ChunkInv' /\ ApartInv' /\ MarkInv'
  BY <1>3, Steps, OtherInv, PutObjectInv, PutChunkInv, PutMetadataInv, DeleteMetadataInv,
     CollectInv, GcSweepInv, CrashInv DEF ObjectInv
<1> QED
  BY <1>1, <1>2, <1>3 DEF ObjectInv

-----------------------------------------------------------------------------
(* The refinement.                                                         *)

LEMMA ViewInit == Init => Objects!Init
<1> SUFFICES ASSUME Init PROVE Objects!Init
  OBVIOUS
<1>1. map = KV!Empty /\ survivors = {KV!Empty} /\ DOMAIN KV!Empty = {}
  BY DEF Init, KV!Init, KV!Empty
<1>2. Committed(KV!Empty) = {}
  BY <1>1 DEF Committed
<1>3. View(KV!Empty) = Objects!Empty
  BY <1>2 DEF View, Objects!Empty
<1> QED
  BY <1>1, <1>3 DEF Objects!Init

\* Where every object stays as it was, the step is a flush or none.
LEMMA SameSteps ==
  ASSUME TypeOK, SameObjects
  PROVE  Objects!Flush \/ UNCHANGED Objects!vars
<1>1. map \in survivors
  BY DEF TypeOK
<1>2. View(map') = View(map)
  BY DEF SameObjects
<1>3. CASE survivors' = {map'}
  <2>1. {View(s) : s \in survivors'} = {View(map)}
    BY <1>2, <1>3
  <2> QED
    BY <1>2, <2>1 DEF Objects!Flush
<1>4. CASE survivors' = survivors \cup {map'}
  <2>1. {View(s) : s \in survivors'} = {View(s) : s \in survivors}
    BY <1>1, <1>2, <1>4
  <2> QED
    BY <1>2, <2>1 DEF Objects!vars
<1> QED
  BY <1>3, <1>4 DEF SameObjects

\* Three kinds of steps change objects.
LEMMA SameUnless ==
  ASSUME ObjectInv, [Next]_vars
  PROVE  \/ SameObjects
         \/ \E c \in Caller : PutMetadata(c) \/ DeleteMetadata(c)
         \/ Crash
<1>0. TypeOK
  BY DEF ObjectInv
<1>1. ASSUME UNCHANGED contents PROVE SameObjects
  BY <1>0, <1>1, QuietView DEF Quiet
<1>2. ASSUME NEW c \in Caller,
             \/ \E n \in Name, d \in Data : PutObject(c, n, d)
             \/ GarbageCollectChunks(c) \/ GcMark(c) \/ GcScan(c)
      PROVE  SameObjects
  BY <1>1, <1>2, Zenon DEF PutObject, GarbageCollectChunks, GcMark, GcScan
<1>3. ASSUME NEW c \in Caller, Other(c) \/ PutChunk(c) \/ GcSweep(c) PROVE SameObjects
  BY <1>0, <1>3, QuietView, PutChunkEffect, GcSweepEffect DEF Other
<1>4. UNCHANGED vars => SameObjects
  BY <1>1 DEF vars, contents
<1> QED
  BY <1>0, <1>2, <1>3, <1>4, Steps

\* A step of the store is at most one step of a durable map from names to data.
LEMMA ViewNext ==
  ASSUME ObjectInv, [Next]_vars
  PROVE  [Objects!Next]_(Objects!vars)
<1>0. TypeOK
  BY DEF ObjectInv
<1>1. ASSUME SameObjects PROVE [Objects!Next]_(Objects!vars)
  BY <1>0, <1>1, SameSteps DEF Objects!Next
<1>2. ASSUME NEW c \in Caller, PutMetadata(c) PROVE Objects!Next
  <2>1. /\ call[c].name \in Name /\ call[c].data \in Data
        /\ View(map') = Sets(View(map), call[c].name, call[c].data)
        /\ survivors' = survivors \cup {map'}
    BY <1>2, PutMetadataEffect
  <2>2. {View(s) : s \in survivors'} = {View(s) : s \in survivors} \cup {View(map')}
    BY <2>1
  <2>3. Objects!Put(call[c].name, call[c].data)
    BY <2>1, <2>2 DEF Objects!Put, Objects!Write, Objects!With, Sets
  <2> QED
    BY <2>1, <2>3 DEF Objects!Next
<1>3. ASSUME NEW c \in Caller, DeleteMetadata(c) PROVE Objects!Next
  <2>1. /\ call[c].name \in Name
        /\ View(map') = Drops(View(map), call[c].name)
        /\ survivors' = survivors \cup {map'}
    BY <1>0, <1>3, DeleteMetadataEffect
  <2>2. {View(s) : s \in survivors'} = {View(s) : s \in survivors} \cup {View(map')}
    BY <2>1
  <2>3. Objects!Del(call[c].name)
    BY <2>1, <2>2 DEF Objects!Del, Objects!Write, Objects!Without, Drops
  <2> QED
    BY <2>1, <2>3 DEF Objects!Next
<1>4. ASSUME Crash PROVE Objects!Next
  <2>1. PICK s \in survivors : map' = s /\ survivors' = {s}
    BY <1>4 DEF Crash, KV!Crash
  <2>2. View(s) \in {View(t) : t \in survivors} /\ {View(t) : t \in survivors'} = {View(s)}
    BY <2>1
  <2>3. Objects!Crash
    BY <2>1, <2>2 DEF Objects!Crash
  <2> QED
    BY <2>3 DEF Objects!Next
<1> QED
  BY <1>1, <1>2, <1>3, <1>4, SameUnless

\* Under Features = {} the store is a durable map of whole objects: put and delete
\* are atomic at their metadata write, chunks, index entries and collections are
\* invisible, and a crash at whatever step leaves the objects as after one of the
\* puts and deletes since the last flush.
THEOREM ObjectRefinement == ASSUME Features = {} PROVE Spec => ImplementsObjects
<1>1. Init => ObjectInv
  BY ObjectInit
<1>2. ObjectInv /\ [Next]_vars => ObjectInv'
  BY ObjectNext
<1>3. Init => Objects!Init
  BY ViewInit
<1>4. ObjectInv /\ [Next]_vars => [Objects!Next]_(Objects!vars)
  BY ViewNext
<1> QED
  BY <1>1, <1>2, <1>3, <1>4, PTL DEF Spec, ImplementsObjects, Objects!Spec

-----------------------------------------------------------------------------
(* What was acknowledged survives.                                         *)

\* A writer goes on with its name, and with what it has stored, or ends.
Carries(x) ==
  /\ Putting(x)' \/ Deleting(x)' =>
       (Putting(x) \/ Deleting(x)) /\ call'[x].name = call[x].name
  /\ call'[x].at \in {"put_index", "put_flush"} =>
       call[x].at \in {"put_index", "put_flush"} /\ call'[x].data = call[x].data

\* A caller that goes somewhere else than to a write.
LEMMA CarriesAway ==
  ASSUME TypeOK, NEW c \in Caller, NEW q, call' = [call EXCEPT ![c] = q],
         \/ q.at \notin {"put_chunks", "put_index", "put_flush",
                         "del_meta", "del_index", "del_flush"}
         \/ /\ Putting(c) \/ Deleting(c)
            /\ q.name = call[c].name
            /\ q.at \in {"put_index", "put_flush"} =>
                 call[c].at \in {"put_index", "put_flush"} /\ q.data = call[c].data
  PROVE  \A x \in Caller : Carries(x)
<1>1. call'[c] = q /\ \A x \in Caller : x # c => call'[x] = call[x]
  BY DEF TypeOK
<1> QED
  BY <1>1 DEF Carries, Putting, Deleting

LEMMA CarriesOther ==
  ASSUME TypeOK, NEW c \in Caller, Other(c), ~\E n \in Name : DeleteObject(c, n)
  PROVE  \A x \in Caller : Carries(x)
<1>1. PICK q : /\ call' = [call EXCEPT ![c] = q]
               /\ q.at \notin {"put_chunks", "gc_mark", "gc_sweep"}
               /\ q.at \in {"put_index", "put_flush"} =>
                    /\ call[c].at \in {"put_index", "put_flush"}
                    /\ q.name = call[c].name /\ q.data = call[c].data
               /\ q.at \in {"del_index", "del_flush"} => Deleting(c) /\ q.name = call[c].name
               /\ q.at # "del_meta"
  BY Zenon DEF Other
<1> QED
  BY <1>1, CarriesAway, Zenon DEF Putting

\* The steps of a put and a delete that write.
LEMMA CarriesWrite ==
  ASSUME TypeOK, NEW c \in Caller, PutChunk(c) \/ DeleteMetadata(c)
  PROVE  \A x \in Caller : Carries(x)
<1>1. CASE PutChunk(c)
  <2> DEFINE q == [call[c] EXCEPT !.next = @ + 1]
  <2>1. Putting(c) /\ call[c] \in PutCall
    BY <1>1, IdTypes DEF PutChunk, Putting
  <2>2. q.name = call[c].name /\ q.data = call[c].data /\ q.at = "put_chunks"
    BY <1>1, <2>1 DEF PutCall, PutChunk
  <2>3. call' = [call EXCEPT ![c] = q]
    BY <1>1 DEF PutChunk, Goto
  <2> HIDE DEF q
  <2> QED
    BY <2>1, <2>2, <2>3, CarriesAway, Zenon
<1>2. CASE DeleteMetadata(c)
  <2> DEFINE q == [call[c] EXCEPT !.at = "del_index"]
  <2>1. Deleting(c) /\ call[c] \in DeleteCall
    BY <1>2, CallKinds DEF DeleteMetadata, Deleting, TypeOK
  <2>2. q.name = call[c].name /\ q.at = "del_index"
    BY <2>1 DEF DeleteCall
  <2>3. call' = [call EXCEPT ![c] = q]
    BY <1>2 DEF DeleteMetadata, Goto
  <2> HIDE DEF q
  <2> QED
    BY <2>1, <2>2, <2>3, CarriesAway, Zenon
<1> QED
  BY <1>1, <1>2

\* Where a garbage collection goes.
LEMMA CollectCalls ==
  ASSUME TypeOK, NEW c \in Caller,
         GarbageCollectChunks(c) \/ GcMark(c) \/ GcScan(c) \/ GcSweep(c)
  PROVE  \E q : call' = [call EXCEPT ![c] = q] /\ q.at \in {"gc_mark", "gc_sweep"}
<1>1. CASE GarbageCollectChunks(c)
  <2> DEFINE q == [at |-> "gc_mark", todo |-> KeysWithPrefix("objmeta"), live |-> {}]
  <2>1. call' = [call EXCEPT ![c] = q] /\ q.at = "gc_mark"
    BY <1>1, Zenon DEF GarbageCollectChunks, Begin
  <2> HIDE DEF q
  <2> QED
    BY <2>1, Zenon
<1>2. CASE GcMark(c)
  <2>1. call[c] \in MarkCall
    BY <1>2, CallKinds, Zenon DEF GcMark, TypeOK
  <2>2. \A t, l : [call[c] EXCEPT !.todo = t, !.live = l].at = "gc_mark"
    BY <2>1 DEF MarkCall
  <2>3. PICK t, l : call' = [call EXCEPT ![c] = [call[c] EXCEPT !.todo = t, !.live = l]]
    BY <1>2, Zenon DEF GcMark, Goto
  <2> QED
    BY <2>2, <2>3, Zenon
<1>3. CASE GcScan(c)
  <2>1. call[c] \in MarkCall
    BY <1>3, CallKinds DEF GcScan, TypeOK
  <2>2. \A t : [call[c] EXCEPT !.at = "gc_sweep", !.todo = t].at = "gc_sweep"
    BY <2>1 DEF MarkCall
  <2>3. PICK t : call' = [call EXCEPT ![c] = [call[c] EXCEPT !.at = "gc_sweep", !.todo = t]]
    BY <1>3, Zenon DEF GcScan, Goto
  <2> QED
    BY <2>2, <2>3, Zenon
<1>4. CASE GcSweep(c)
  <2>1. call[c] \in SweepCall
    BY <1>4, CallKinds DEF GcSweep, TypeOK
  <2>2. \A t : [call[c] EXCEPT !.todo = t].at = "gc_sweep"
    BY <2>1 DEF SweepCall
  <2>3. PICK t : call' = [call EXCEPT ![c] = [call[c] EXCEPT !.todo = t]]
    BY <1>4, Zenon DEF GcSweep, Goto
  <2> QED
    BY <2>2, <2>3, Zenon
<1> QED
  BY <1>1, <1>2, <1>3, <1>4

LEMMA CarriesCollect ==
  ASSUME TypeOK, NEW c \in Caller,
         GarbageCollectChunks(c) \/ GcMark(c) \/ GcScan(c) \/ GcSweep(c)
  PROVE  \A x \in Caller : Carries(x)
<1>1. PICK q : call' = [call EXCEPT ![c] = q] /\ q.at \in {"gc_mark", "gc_sweep"}
  BY CollectCalls
<1> QED
  BY <1>1, CarriesAway, Zenon

\* A name that is not contended has one writer at most.
OneWriter ==
  \A c, x \in Caller, n \in Name \ contended : Writes(c, n) /\ Writes(x, n) => c = x

\* What its put has written is still there.
Stored ==
  \A c \in Caller :
    call[c].at \in {"put_index", "put_flush"} /\ call[c].name \notin contended =>
      call[c].name \in Committed(map) /\ View(map)[call[c].name] = call[c].data

\* Nobody writes a name whose object was reported as stored.
Settled == \A n \in Name : acked[n] # {} => \A c \in Caller : ~Writes(c, n)

AckInv == ObjectInv /\ OneWriter /\ Stored /\ Settled /\ AckedSurvive

LEMMA ViewDomain == \A m : DOMAIN View(m) = Committed(m)
BY DEF View

\* Names are written by those who wrote them before.
LEMMA CarriedOwners ==
  ASSUME OneWriter, Settled, \A x \in Caller : Carries(x), contended \subseteq contended'
  PROVE  /\ OneWriter'
         /\ acked' = acked => Settled'
         /\ \A x \in Caller, n \in Name : Writes(x, n)' => Writes(x, n)
<1>1. \A x \in Caller, n \in Name : Writes(x, n)' => Writes(x, n)
  BY DEF Writes, Carries
<1>2. OneWriter'
  BY <1>1 DEF OneWriter
<1>3. acked' = acked => Settled'
  BY <1>1 DEF Settled
<1> QED
  BY <1>1, <1>2, <1>3

\* Where all objects stay as they were.
LEMMA CarriedObjects ==
  ASSUME AckInv, SameObjects, \A x \in Caller : Carries(x), contended \subseteq contended'
  PROVE  /\ Stored'
         /\ \A n \in Name : \A d \in acked[n], s \in survivors' :
              n \in Committed(s) /\ View(s)[n] = d
<1>1. ASSUME NEW c \in Caller, call'[c].at \in {"put_index", "put_flush"},
             call'[c].name \notin contended'
      PROVE  call'[c].name \in Committed(map') /\ View(map')[call'[c].name] = call'[c].data
  <2>1. /\ call[c].at \in {"put_index", "put_flush"} /\ call'[c].data = call[c].data
        /\ call'[c].name = call[c].name
    BY <1>1 DEF Carries, Putting
  <2> QED
    BY <1>1, <2>1 DEF AckInv, Stored, SameObjects
<1>2. Stored'
  BY <1>1 DEF Stored
<1>3. map \in survivors /\ \A s \in survivors' : s \in survivors \/ s = map'
  BY DEF SameObjects, AckInv, ObjectInv, TypeOK
<1>4. ASSUME NEW n \in Name, NEW d \in acked[n], NEW s \in survivors'
      PROVE  n \in Committed(s) /\ View(s)[n] = d
  BY <1>3 DEF AckInv, AckedSurvive, SameObjects
<1> QED
  BY <1>2, <1>4

\* PutFlush reports the object as stored.
LEMMA PutFlushAcked ==
  ASSUME AckInv, NEW c \in Caller, PutFlush(c), SameObjects, \A x \in Caller : Carries(x)
  PROVE  OneWriter' /\ Stored' /\ Settled' /\ AckedSurvive'
<1>0. TypeOK
  BY DEF AckInv, ObjectInv
<1>1. /\ call[c].at = "put_flush" /\ survivors' = {map} /\ map' = map
      /\ contended' = contended
      /\ acked' = IF call[c].name \in contended THEN acked
                  ELSE [acked EXCEPT ![call[c].name] = {call[c].data}]
      /\ call' = [call EXCEPT ![c] = Idle]
  BY DEF PutFlush, KV!Flush, Return, Goto
<1>2. call[c].name \in Name /\ Writes(c, call[c].name)
  BY <1>0, <1>1, IdTypes DEF Putting, PutCall, Writes
<1>3. OneWriter' /\ \A x \in Caller, n \in Name : Writes(x, n)' => Writes(x, n)
  BY <1>1, CarriedOwners DEF AckInv
<1>4. Stored' /\ \A n \in Name : \A d \in acked[n], s \in survivors' :
                   n \in Committed(s) /\ View(s)[n] = d
  BY <1>1, CarriedObjects
<1>5. \A n \in Name :
        \/ acked'[n] = acked[n]
        \/ n = call[c].name /\ n \notin contended /\ acked'[n] = {call[c].data}
  BY <1>0, <1>1, <1>2 DEF TypeOK
<1>6. \A n \in Name : ~Writes(c, n)'
  BY <1>0, <1>1 DEF TypeOK, Writes, Putting, Deleting, Idle
<1>7. Settled'
  <2> SUFFICES ASSUME NEW n \in Name, acked'[n] # {}, NEW x \in Caller, Writes(x, n)'
               PROVE  FALSE
    BY DEF Settled
  <2>1. Writes(x, n)
    BY <1>3
  <2>2. CASE acked'[n] = acked[n]
    BY <2>1, <2>2 DEF AckInv, Settled
  <2>3. CASE n = call[c].name /\ n \notin contended
    <3>1. x = c
      BY <1>2, <2>1, <2>3 DEF AckInv, OneWriter
    <3> QED
      BY <1>6, <3>1
  <2> QED
    BY <1>5, <2>2, <2>3
<1>8. ASSUME NEW n \in Name, NEW d \in acked'[n], NEW s \in survivors'
      PROVE  n \in Committed(s) /\ View(s)[n] = d
  <2>1. CASE acked'[n] = acked[n]
    BY <1>4, <1>8, <2>1, Zenon
  <2>2. CASE n = call[c].name /\ n \notin contended /\ acked'[n] = {call[c].data}
    <3>1. s = map /\ d = call[c].data
      BY <1>1, <1>8, <2>2
    <3>2. n \in Committed(map) /\ View(map)[n] = call[c].data
      BY <1>1, <2>2 DEF AckInv, Stored
    <3> QED
      BY <3>1, <3>2
  <2> QED
    BY <1>5, <2>1, <2>2
<1>9. AckedSurvive'
  BY <1>8 DEF AckedSurvive
<1> QED
  BY <1>3, <1>4, <1>7, <1>9

\* A put or a delete begins: the name has a writer, and nothing is reported of it.
LEMMA TouchAcked ==
  ASSUME AckInv, NEW c \in Caller, NEW n \in Name, Touch(n), UNCHANGED contents,
         call[c] = Idle, NEW q, call' = [call EXCEPT ![c] = q],
         q.at \in {"put_chunks", "del_meta"}, q.name = n
  PROVE  OneWriter' /\ Stored' /\ Settled' /\ AckedSurvive'
<1>0. TypeOK
  BY DEF AckInv, ObjectInv
<1>1. call'[c] = q /\ \A x \in Caller : x # c => call'[x] = call[x]
  BY <1>0 DEF TypeOK
<1>2. \A x \in Caller, m \in Name : Writes(x, m)' => Writes(x, m) \/ (x = c /\ m = n)
  BY <1>1 DEF Writes, Putting, Deleting
<1>3. \A m \in Name : ~Writes(c, m)
  BY DEF Writes, Putting, Deleting, Idle
<1>4. /\ contended \subseteq contended'
      /\ (\E x \in Caller : Writes(x, n)) => n \in contended'
      /\ acked'[n] = {} /\ \A m \in Name : m # n => acked'[m] = acked[m]
  BY <1>0 DEF Touch, TypeOK
<1>5. OneWriter'
  BY <1>2, <1>3, <1>4, SMTT(30) DEF AckInv, OneWriter
<1>6. Settled'
  BY <1>2, <1>4, Zenon DEF AckInv, Settled
<1>7. Stored'
  BY <1>1, <1>4 DEF AckInv, Stored, contents
<1>8. AckedSurvive'
  BY <1>4, Zenon DEF AckInv, AckedSurvive, contents
<1> QED
  BY <1>5, <1>6, <1>7, <1>8

\* A commit changes the object of one name, which the caller writes.
LEMMA CommitAcked ==
  ASSUME AckInv, NEW c \in Caller, NEW n \in Name, Writes(c, n),
         survivors' = survivors \cup {map'}, UNCHANGED history,
         \A m \in Committed(map) \ {n} : m \in Committed(map') /\ View(map')[m] = View(map)[m]
  PROVE  /\ AckedSurvive'
         /\ \A x \in Caller :
              x # c /\ call[x].at \in {"put_index", "put_flush"} /\ call[x].name \notin contended
                => /\ call[x].name \in Committed(map')
                   /\ View(map')[call[x].name] = call[x].data
<1>0. map \in survivors /\ acked' = acked
  BY DEF AckInv, ObjectInv, TypeOK, history
<1>1. \A m \in Name : acked[m] # {} => m # n
  BY DEF AckInv, Settled
<1>2. ASSUME NEW m \in Name, NEW d \in acked[m], NEW s \in survivors'
      PROVE  m \in Committed(s) /\ View(s)[m] = d
  <2>1. CASE s \in survivors
    BY <2>1 DEF AckInv, AckedSurvive
  <2>2. CASE s = map'
    BY <1>0, <1>1, <2>2 DEF AckInv, AckedSurvive
  <2> QED
    BY <2>1, <2>2
<1>3. AckedSurvive'
  BY <1>0, <1>2 DEF AckedSurvive
<1>4. ASSUME NEW x \in Caller, x # c, call[x].at \in {"put_index", "put_flush"},
             call[x].name \notin contended
      PROVE  /\ call[x].name \in Committed(map')
             /\ View(map')[call[x].name] = call[x].data
  <2>1. Putting(x) /\ call[x].name \in Name
    BY <1>4, IdTypes DEF AckInv, ObjectInv, Putting, PutCall
  <2>2. call[x].name # n
    BY <1>4, <2>1 DEF AckInv, OneWriter, Writes
  <2>3. call[x].name \in Committed(map) /\ View(map)[call[x].name] = call[x].data
    BY <1>4 DEF AckInv, Stored
  <2> QED
    BY <2>2, <2>3
<1> QED
  BY <1>3, <1>4, Zenon

LEMMA PutMetadataAcked ==
  ASSUME AckInv, NEW c \in Caller, PutMetadata(c)
  PROVE  OneWriter' /\ Stored' /\ Settled' /\ AckedSurvive'
<1> DEFINE q == [call[c] EXCEPT !.at = "put_index"]
           n == call[c].name
<1>0. ObjectInv /\ TypeOK /\ Pending(c) /\ Putting(c)
  BY DEF AckInv, ObjectInv, PutMetadata, Pending, Putting
<1>1. q.at = "put_index" /\ q.name = n /\ q.data = call[c].data /\ n \in Name
  BY <1>0, IdTypes DEF PutCall
<1>2. call' = [call EXCEPT ![c] = q] /\ UNCHANGED history
  BY DEF PutMetadata, Goto
<1>3. View(map') = Sets(View(map), n, call[c].data) /\ survivors' = survivors \cup {map'}
  BY <1>0, PutMetadataEffect
<1> HIDE DEF q
<1>4. call'[c] = q /\ \A x \in Caller : x # c => call'[x] = call[x]
  BY <1>0, <1>2 DEF TypeOK
<1>5. /\ Committed(map') = Committed(map) \cup {n}
      /\ View(map')[n] = call[c].data
      /\ \A m \in Committed(map) \ {n} : View(map')[m] = View(map)[m]
  BY <1>3, ViewDomain DEF Sets
<1>6. \A x \in Caller, m \in Name : Writes(x, m)' => Writes(x, m)
  BY <1>0, <1>1, <1>4 DEF Writes, Putting, Deleting
<1>7. OneWriter' /\ Settled'
  BY <1>2, <1>6 DEF AckInv, OneWriter, Settled, history
<1>8. Writes(c, n)
  BY <1>0 DEF Writes
<1> HIDE DEF n
<1>9. /\ AckedSurvive'
      /\ \A x \in Caller :
           x # c /\ call[x].at \in {"put_index", "put_flush"} /\ call[x].name \notin contended
             => /\ call[x].name \in Committed(map')
                /\ View(map')[call[x].name] = call[x].data
  BY <1>1, <1>2, <1>3, <1>5, <1>8, CommitAcked, Zenon
<1>10. ASSUME NEW x \in Caller, call'[x].at \in {"put_index", "put_flush"},
              call'[x].name \notin contended'
       PROVE  /\ call'[x].name \in Committed(map')
              /\ View(map')[call'[x].name] = call'[x].data
  <2>1. CASE x = c
    <3>1. call'[x].name = n /\ call'[x].data = call[c].data
      BY <1>1, <1>4, <2>1
    <3> QED
      BY <1>5, <3>1
  <2>2. CASE x # c
    <3>1. call'[x] = call[x] /\ contended' = contended
      BY <1>2, <1>4, <2>2 DEF history
    <3> QED
      BY <1>9, <1>10, <2>2, <3>1
  <2> QED
    BY <2>1, <2>2
<1>11. Stored'
  BY <1>10, Zenon DEF Stored
<1> QED
  BY <1>7, <1>9, <1>11

LEMMA DeleteMetadataAcked ==
  ASSUME AckInv, NEW c \in Caller, DeleteMetadata(c)
  PROVE  OneWriter' /\ Stored' /\ Settled' /\ AckedSurvive'
<1> DEFINE n == call[c].name
<1>0. TypeOK /\ Deleting(c) /\ UNCHANGED history
  BY DEF AckInv, ObjectInv, DeleteMetadata, Deleting
<1>1. n \in Name /\ View(map') = Drops(View(map), n) /\ survivors' = survivors \cup {map'}
  BY <1>0, DeleteMetadataEffect
<1>2. \A x \in Caller : Carries(x)
  BY <1>0, CarriesWrite
<1>3. \A m \in Committed(map) \ {n} : m \in Committed(map') /\ View(map')[m] = View(map)[m]
  BY <1>1, ViewDomain DEF Drops
<1>4. OneWriter' /\ Settled'
  BY <1>0, <1>2, CarriedOwners DEF AckInv, history
<1>5. Writes(c, n)
  BY <1>0 DEF Writes
<1>6. call'[c].at \notin {"put_index", "put_flush"}
  BY <1>0, <1>2 DEF Carries, Deleting
<1> HIDE DEF n
<1>7. /\ AckedSurvive'
      /\ \A x \in Caller :
           x # c /\ call[x].at \in {"put_index", "put_flush"} /\ call[x].name \notin contended
             => /\ call[x].name \in Committed(map')
                /\ View(map')[call[x].name] = call[x].data
  BY <1>0, <1>1, <1>3, <1>5, CommitAcked, Zenon
<1>8. Stored'
  BY <1>0, <1>2, <1>6, <1>7 DEF Stored, history, Carries, Putting
<1> QED
  BY <1>4, <1>7, <1>8

LEMMA AckNext == ASSUME Features = {} PROVE AckInv /\ [Next]_vars => AckInv'
<1> SUFFICES ASSUME AckInv, [Next]_vars PROVE AckInv'
  OBVIOUS
<1> DEFINE Goal == OneWriter' /\ Stored' /\ Settled' /\ AckedSurvive'
<1>0. ObjectInv /\ TypeOK /\ ObjectInv'
  BY ObjectNext DEF AckInv, ObjectInv
<1>1. ASSUME SameObjects, \A x \in Caller : Carries(x), acked' = acked,
             contended \subseteq contended'
      PROVE  Goal
  <2>1. OneWriter' /\ Settled'
    BY <1>1, CarriedOwners DEF AckInv
  <2>2. Stored' /\ AckedSurvive'
    BY <1>1, CarriedObjects DEF AckedSurvive
  <2> QED
    BY <2>1, <2>2
<1>2. ASSUME UNCHANGED vars PROVE Goal
  <2>1. UNCHANGED contents /\ acked' = acked /\ contended' = contended /\ call' = call
    BY <1>2 DEF vars, contents
  <2>2. SameObjects
    BY <1>0, <2>1, QuietView DEF Quiet
  <2>3. \A x \in Caller : Carries(x)
    BY <2>1 DEF Carries, Putting, Deleting
  <2> QED
    BY <1>1, <2>1, <2>2, <2>3
<1>3. ASSUME NEW c \in Caller, NEW n \in Name, NEW d \in Data, PutObject(c, n, d) PROVE Goal
  <2>1. PICK now : call[c] = Idle /\ call' = [call EXCEPT ![c] =
          [at |-> "put_chunks", name |-> n, id |-> <<n, now>>, data |-> d, next |-> 0]]
    BY <1>3, Zenon DEF PutObject, Begin
  <2> DEFINE q == [at |-> "put_chunks", name |-> n, id |-> <<n, now>>, data |-> d, next |-> 0]
  <2>2. call' = [call EXCEPT ![c] = q] /\ q.at = "put_chunks" /\ q.name = n
    BY <2>1
  <2>3. Touch(n) /\ UNCHANGED contents
    BY <1>3 DEF PutObject
  <2> HIDE DEF q
  <2> QED
    BY <2>1, <2>2, <2>3, TouchAcked, Zenon
<1>4. ASSUME NEW c \in Caller, NEW n \in Name, DeleteObject(c, n) PROVE Goal
  <2> DEFINE q == [at |-> "del_meta", name |-> n, meta |-> map[ObjectMetaKey(n)]]
  <2>1. /\ call[c] = Idle /\ call' = [call EXCEPT ![c] = q]
        /\ q.at = "del_meta" /\ q.name = n
        /\ Touch(n) /\ UNCHANGED contents
    BY <1>4 DEF DeleteObject, Begin
  <2> HIDE DEF q
  <2> QED
    BY <2>1, TouchAcked, Zenon
<1>5. ASSUME NEW c \in Caller, Other(c) PROVE Goal
  <2>1. SameObjects
    BY <1>0, <1>5, QuietView DEF Other
  <2>2. CASE ~\E n \in Name : DeleteObject(c, n)
    <3>1. \A x \in Caller : Carries(x)
      BY <1>0, <1>5, <2>2, CarriesOther
    <3>2. UNCHANGED history \/ PutFlush(c)
      BY <1>5, <2>2 DEF Other
    <3> QED
      BY <1>1, <2>1, <3>1, <3>2, PutFlushAcked DEF history
  <2> QED
    BY <1>4, <2>2
<1>6. ASSUME NEW c \in Caller, PutChunk(c) PROVE Goal
  <2>1. SameObjects /\ \A x \in Caller : Carries(x)
    BY <1>0, <1>6, PutChunkEffect, CarriesWrite
  <2> QED
    BY <1>1, <1>6, <2>1 DEF PutChunk, history
<1>7. ASSUME NEW c \in Caller,
             GarbageCollectChunks(c) \/ GcMark(c) \/ GcScan(c) \/ GcSweep(c)
      PROVE  Goal
  <2>1. UNCHANGED contents => SameObjects
    BY <1>0, QuietView DEF Quiet
  <2>2. SameObjects
    BY <1>0, <1>7, <2>1, GcSweepEffect, Zenon DEF GarbageCollectChunks, GcMark, GcScan
  <2>3. \A x \in Caller : Carries(x)
    BY <1>0, <1>7, CarriesCollect
  <2>4. acked' = acked /\ contended \subseteq contended'
    BY <1>7, Zenon DEF GarbageCollectChunks, GcMark, GcScan, GcSweep, history
  <2> QED
    BY <1>1, <2>2, <2>3, <2>4
<1>8. ASSUME Crash PROVE Goal
  <2>1. \A x \in Caller : call'[x].at = "idle"
    BY <1>8 DEF Crash, Idle
  <2>2. \A x \in Caller, n \in Name : ~Writes(x, n)'
    BY <2>1 DEF Writes, Putting, Deleting
  <2>3. OneWriter' /\ Settled'
    BY <2>2 DEF OneWriter, Settled
  <2>4. Stored'
    BY <2>1 DEF Stored
  <2>5. survivors' \subseteq survivors /\ acked' = acked
    BY <1>8 DEF Crash, KV!Crash, history
  <2>6. AckedSurvive'
    BY <2>5 DEF AckInv, AckedSurvive
  <2> QED
    BY <2>3, <2>4, <2>6
<1>9. ASSUME Next PROVE Goal
  BY <1>0, <1>3, <1>5, <1>6, <1>7, <1>8, <1>9, Steps, PutMetadataAcked, DeleteMetadataAcked
<1> QED
  BY <1>0, <1>2, <1>9 DEF AckInv

\* Under Features = {}: what PutObject has reported as stored, and nothing was called
\* for since, is in every state that a crash can leave, whatever other callers write,
\* delete and collect.
THEOREM AckedObjects == ASSUME Features = {} PROVE Spec => []AckedSurvive
<1>1. Init => AckInv
  <2> SUFFICES ASSUME Init PROVE AckInv
    OBVIOUS
  <2>1. \A x \in Caller : call[x].at = "idle"
    BY DEF Init, Idle
  <2>2. \A x \in Caller, n \in Name : ~Writes(x, n)
    BY <2>1 DEF Writes, Putting, Deleting
  <2>3. \A n \in Name : acked[n] = {}
    BY DEF Init
  <2> QED
    BY <2>1, <2>2, <2>3, ObjectInit, Zenon
       DEF AckInv, OneWriter, Stored, Settled, AckedSurvive
<1>2. AckInv /\ [Next]_vars => AckInv'
  BY AckNext
<1>3. AckInv => AckedSurvive
  BY DEF AckInv
<1> QED
  BY <1>1, <1>2, <1>3, PTL DEF Spec

-----------------------------------------------------------------------------
(* The index and the metadata.                                             *)

\* A chunk of an object is there.
HasChunk(m, id, i) == ChunkKey(id, i) \in DOMAIN m

\* Metadata is as it was.
MetasOld ==
  \A n \in Name : ObjectMetaKey(n) \in DOMAIN map' =>
    ObjectMetaKey(n) \in DOMAIN map /\ map'[ObjectMetaKey(n)] = map[ObjectMetaKey(n)]

\* What a garbage collection does to the contents.
LEMMA CollectDrops ==
  ASSUME TypeOK, NEW c \in Caller,
         GarbageCollectChunks(c) \/ GcMark(c) \/ GcScan(c) \/ GcSweep(c)
  PROVE  \/ map' = map /\ survivors' = survivors
         \/ \E key \in {"objchunk"} \X ObjectId \X Nat :
              Agree(map, map', key) /\ key \notin DOMAIN map' /\ survivors' = survivors \cup {map'}
<1>1. CASE GarbageCollectChunks(c) \/ GcMark(c) \/ GcScan(c)
  BY <1>1, Zenon DEF GarbageCollectChunks, GcMark, GcScan, contents
<1>2. CASE GcSweep(c)
  <2>1. call[c] \in SweepCall
    BY <1>2, CallKinds DEF GcSweep, TypeOK
  <2>2. PICK key \in call[c].todo : UNCHANGED contents \/ KV!Del(key)
    BY <1>2 DEF GcSweep
  <2>3. key \in {"objchunk"} \X ObjectId \X Nat
    BY <2>1 DEF SweepCall
  <2>4. CASE UNCHANGED contents
    BY <2>4 DEF contents
  <2>5. CASE KV!Del(key)
    <3>1. map' = Drops(map, key) /\ survivors' = survivors \cup {map'}
      BY <2>5, Written, Zenon
    <3>2. Agree(map, map', key) /\ key \notin DOMAIN map'
      BY <3>1, WritesAgree, Zenon DEF Drops
    <3> QED
      BY <2>3, <3>1, <3>2
  <2> QED
    BY <2>2, <2>4, <2>5
<1> QED
  BY <1>1, <1>2

\* Neither a put's chunks nor a collection touch metadata.
LEMMA MetasUnwritten ==
  ASSUME TypeOK, NEW c \in Caller,
         \/ Quiet
         \/ PutChunk(c)
         \/ GarbageCollectChunks(c) \/ GcMark(c) \/ GcScan(c) \/ GcSweep(c)
  PROVE  MetasOld
<1>1. ASSUME map' = map PROVE MetasOld
  BY <1>1 DEF MetasOld
<1>2. ASSUME NEW k, Agree(map, map', k), \A n \in Name : ObjectMetaKey(n) # k PROVE MetasOld
  BY <1>2 DEF Agree, MetasOld
<1>3. ASSUME Quiet PROVE MetasOld
  <2>1. CASE map' = map
    BY <1>1, <2>1
  <2>2. CASE \E k \in MapKey : /\ k[1] \in {"bucket", "bucketidx"}
                               /\ KV!Del(k) \/ \E v : KV!Put(k, v)
    <3>1. PICK k \in MapKey : /\ k[1] \in {"bucket", "bucketidx"}
                              /\ KV!Del(k) \/ \E v : KV!Put(k, v)
      BY <2>2
    <3>2. map' = Drops(map, k) \/ \E v : map' = Sets(map, k, v)
      BY <3>1, Written
    <3>3. Agree(map, map', k)
      BY <3>2, WritesAgree
    <3> QED
      BY <1>2, <3>1, <3>3, QuietKeys
  <2> QED
    BY <1>3, <2>1, <2>2 DEF Quiet, KV!Flush, contents
<1>4. ASSUME PutChunk(c) PROVE MetasOld
  <2> DEFINE key == ChunkKey(call[c].id, call[c].next)
  <2>1. \E v : map' = Sets(map, key, v)
    BY <1>4, Written DEF PutChunk
  <2>2. \A n \in Name : ObjectMetaKey(n) # key
    BY KeysDiffer
  <2> HIDE DEF key
  <2> QED
    BY <1>2, <2>1, <2>2, WritesAgree, Zenon
<1>5. ASSUME GarbageCollectChunks(c) \/ GcMark(c) \/ GcScan(c) \/ GcSweep(c) PROVE MetasOld
  <2>1. \A key \in {"objchunk"} \X ObjectId \X Nat : \A n \in Name : ObjectMetaKey(n) # key
    BY DEF ObjectMetaKey
  <2> QED
    BY <1>1, <1>2, <1>5, <2>1, CollectDrops, Zenon
<1> QED
  BY <1>3, <1>4, <1>5

\* A crash ends every call.
LEMMA CrashAway == ASSUME Crash PROVE \A x \in Caller : call'[x].at = "idle"
BY DEF Crash, Idle

\* Only a crash takes metadata away.
LEMMA MetaStays ==
  ASSUME TypeOK, [Next]_vars
  PROVE  \/ Crash
         \/ \A n \in Name : ObjectMetaKey(n) \in DOMAIN map => ObjectMetaKey(n) \in DOMAIN map'
<1> DEFINE Stays == \A n \in Name : ObjectMetaKey(n) \in DOMAIN map =>
                                      ObjectMetaKey(n) \in DOMAIN map'
<1>1. ASSUME map' = map PROVE Stays
  BY <1>1
<1>2. ASSUME NEW k, NEW v, KV!Put(k, v) PROVE Stays
  <2>1. Agree(map, map', k) /\ k \in DOMAIN map'
    BY <1>2, Written, WritesAgree
  <2> QED
    BY <2>1 DEF Agree
<1>3. ASSUME NEW k, KV!Del(k), \A n \in Name : ObjectMetaKey(n) # k PROVE Stays
  <2>1. Agree(map, map', k)
    BY <1>3, Written, WritesAgree, Zenon
  <2> QED
    BY <1>3, <2>1 DEF Agree
<1>4. ASSUME NEW c \in Caller, Other(c) PROVE Stays
  <2>1. CASE UNCHANGED contents \/ KV!Flush
    BY <1>1, <2>1 DEF contents, KV!Flush
  <2>2. CASE \E k \in MapKey : /\ k[1] \in {"bucket", "bucketidx"}
                               /\ KV!Del(k) \/ \E v : KV!Put(k, v)
    BY <1>2, <1>3, <2>2, QuietKeys, Zenon
  <2> QED
    BY <1>4, <2>1, <2>2, Zenon DEF Other, Quiet
<1>5. ASSUME NEW c \in Caller, GcSweep(c) PROVE Stays
  <2>1. call[c] \in SweepCall
    BY <1>5, CallKinds DEF GcSweep, TypeOK
  <2>2. PICK key \in call[c].todo : UNCHANGED contents \/ KV!Del(key)
    BY <1>5 DEF GcSweep
  <2>3. \A n \in Name : ObjectMetaKey(n) # key
    BY <2>1 DEF SweepCall, ObjectMetaKey
  <2> QED
    BY <1>1, <1>3, <2>2, <2>3 DEF contents
<1>6. ASSUME NEW c \in Caller, PutChunk(c) \/ PutMetadata(c) \/ DeleteMetadata(c) PROVE Stays
  BY <1>2, <1>6 DEF PutChunk, PutMetadata, DeleteMetadata
<1>7. ASSUME NEW c \in Caller,
             \/ \E n \in Name, d \in Data : PutObject(c, n, d)
             \/ GarbageCollectChunks(c) \/ GcMark(c) \/ GcScan(c)
      PROVE  Stays
  BY <1>1, <1>7, Zenon DEF PutObject, GarbageCollectChunks, GcMark, GcScan, contents
<1>8. UNCHANGED vars => Stays
  BY <1>1 DEF vars
<1> QED
  BY <1>4, <1>5, <1>6, <1>7, <1>8, Steps, Zenon

\* An index entry, now or after a crash, has metadata.
EntryInv ==
  \A s \in survivors, n \in Name :
    BucketIndexKey(n) \in DOMAIN s => ObjectMetaKey(n) \in DOMAIN s

\* So has a name whose put has come to the index, or whose delete has begun.
WriterInv ==
  \A c \in Caller :
    call[c].at \in {"put_index", "put_flush", "del_meta", "del_index", "del_flush"} =>
      ObjectMetaKey(call[c].name) \in DOMAIN map

\* Index and metadata of n agree but while its writer is between the two.
IndexOf(n) ==
  /\ (\A c \in Caller : Writes(c, n) => call[c].at \notin {"put_index", "del_index"}) =>
       (n \in Committed(map) <=> BucketIndexKey(n) \in DOMAIN map)
  /\ \A c \in Caller : Writes(c, n) =>
       /\ call[c].at = "put_index" => n \in Committed(map)
       /\ call[c].at = "del_index" => n \notin Committed(map)

IndexInv ==
  /\ TypeOK /\ EntryInv /\ WriterInv /\ OneWriter
  /\ crashes = 0 => \A n \in Name \ contended : IndexOf(n)

IndexOld == \A n \in Name : BucketIndexKey(n) \in DOMAIN map' <=> BucketIndexKey(n) \in DOMAIN map

\* A step of c that writes neither metadata nor index.
Still(c) ==
  /\ MetasOld /\ IndexOld /\ survivors' \subseteq survivors \cup {map'}
  /\ crashes' = crashes
  /\ call[c].at \notin {"put_index", "del_index"}
  /\ \E q : /\ call' = [call EXCEPT ![c] = q]
            /\ q.at \notin {"put_index", "put_flush", "del_index", "del_flush"}
            /\ q.at = "put_chunks" =>
                 \/ call[c].at = "put_chunks" /\ q.name = call[c].name
                 \/ call[c] = Idle /\ Touch(q.name)
            /\ q.at = "del_meta" =>
                 /\ call[c] = Idle /\ Touch(q.name)
                 /\ q.name \in Name /\ ObjectMetaKey(q.name) \in DOMAIN map
  /\ contended \subseteq contended'

\* Steps that do not write, or only flush, and go where no put or delete is.
LEMMA QuietStill ==
  ASSUME TypeOK, NEW c \in Caller, UNCHANGED contents \/ KV!Flush, NEW q,
         call' = [call EXCEPT ![c] = q],
         q.at \notin {"put_chunks", "put_index", "put_flush", "del_meta", "del_index",
                      "del_flush"},
         call[c].at \notin {"put_index", "del_index"},
         crashes' = crashes, contended \subseteq contended'
  PROVE  Still(c)
<1>1. map' = map /\ survivors' \subseteq survivors \cup {map'}
  BY DEF contents, KV!Flush, TypeOK
<1> QED
  BY <1>1, Zenon DEF Still, MetasOld, IndexOld

LEMMA ReturnStill ==
  ASSUME TypeOK, NEW c \in Caller, UNCHANGED contents \/ KV!Flush, Return(c),
         call[c].at \notin {"put_index", "del_index"},
         crashes' = crashes, contended' = contended
  PROVE  Still(c)
<1>1. call' = [call EXCEPT ![c] = Idle] /\ Idle.at = "idle"
  BY DEF Return, Goto, Idle
<1> QED
  BY <1>1, QuietStill, Zenon

LEMMA ReadStill ==
  ASSUME TypeOK, NEW c \in Caller, ReadStep(c)
  PROVE  Still(c)
<1>0. /\ UNCHANGED contents /\ crashes' = crashes /\ contended' = contended
      /\ Idle.at = "idle"
  BY Zenon DEF ReadStep, GetObject, GetChunk, GetReturn, ListObjects, ListEntry, ListReturn,
         history, Idle
<1>1. ASSUME NEW n \in Name, GetObject(c, n) PROVE Still(c)
  <2> DEFINE q == [at |-> "get_chunks", name |-> n, meta |-> map[ObjectMetaKey(n)],
                   next |-> 0, data |-> <<>>]
  <2>1. call' = [call EXCEPT ![c] = q] /\ q.at = "get_chunks" /\ call[c] = Idle
    BY <1>1, Zenon DEF GetObject, Begin
  <2> HIDE DEF q
  <2> QED
    BY <1>0, <2>1, QuietStill, Zenon
<1>2. ASSUME GetChunk(c) PROVE Still(c)
  <2>1. call[c] \in GetCall /\ call[c].at = "get_chunks"
    BY <1>2, CallKinds DEF GetChunk, TypeOK
  <2> DEFINE q == [call[c] EXCEPT !.next = @ + 1,
                     !.data = @ \o map[ChunkKey(call[c].meta.id, call[c].next)]]
  <2>2. q.at = "get_chunks"
    BY <2>1 DEF GetCall
  <2>3. call' = [call EXCEPT ![c] = q] \/ Return(c)
    BY <1>2, Zenon DEF GetChunk, Goto
  <2> HIDE DEF q
  <2> QED
    BY <1>0, <2>1, <2>2, <2>3, QuietStill, ReturnStill
<1>3. ASSUME GetReturn(c) \/ ListReturn(c) PROVE Still(c)
  BY <1>0, <1>3, ReturnStill DEF GetReturn, ListReturn
<1>4. ASSUME NEW b \in Bucket, ListObjects(c, b) PROVE Still(c)
  <2> DEFINE q == [at |-> "list", bucket |-> b, objects |-> {},
                   todo |-> {n \in Name : n[1] = b /\ BucketIndexKey(n) \in DOMAIN map}]
  <2>1. call' = [call EXCEPT ![c] = q] /\ q.at = "list" /\ call[c] = Idle
    BY <1>4, Zenon DEF ListObjects, Begin
  <2> HIDE DEF q
  <2> QED
    BY <1>0, <2>1, QuietStill, Zenon
<1>5. ASSUME ListEntry(c) PROVE Still(c)
  <2>1. call[c] \in ListCall /\ call[c].at = "list"
    BY <1>5, CallKinds DEF ListEntry, TypeOK
  <2>2. \A t, o : [call[c] EXCEPT !.todo = t, !.objects = o].at = "list"
    BY <2>1 DEF ListCall
  <2>3. PICK n \in call[c].todo : \E o \in {call[c].objects, call[c].objects \cup {n}} :
          call' = [call EXCEPT ![c] = [call[c] EXCEPT !.todo = @ \ {n}, !.objects = o]]
    BY <1>5, Zenon DEF ListEntry, Goto
  <2>4. PICK o : call' = [call EXCEPT ![c] = [call[c] EXCEPT !.todo = @ \ {n}, !.objects = o]]
    BY <2>3, Zenon
  <2> DEFINE q == [call[c] EXCEPT !.todo = @ \ {n}, !.objects = o]
  <2>5. call' = [call EXCEPT ![c] = q] /\ q.at = "list"
    BY <2>2, <2>4
  <2> HIDE DEF q
  <2> QED
    BY <1>0, <2>1, <2>5, QuietStill, Zenon
<1> QED
  BY <1>1, <1>2, <1>3, <1>4, <1>5 DEF ReadStep

LEMMA BeginStill ==
  ASSUME TypeOK, NEW c \in Caller, NEW n \in Name,
         DeleteObject(c, n) \/ \E d \in Data : PutObject(c, n, d)
  PROVE  Still(c)
<1>0. /\ map' = map /\ survivors' = survivors /\ crashes' = crashes /\ Touch(n)
      /\ contended \subseteq contended' /\ call[c] = Idle
      /\ Idle.at = "idle"
  BY Zenon DEF PutObject, DeleteObject, contents, Touch, Begin, Idle
<1>1. CASE DeleteObject(c, n)
  <2> DEFINE q == [at |-> "del_meta", name |-> n, meta |-> map[ObjectMetaKey(n)]]
  <2>1. /\ call' = [call EXCEPT ![c] = q] /\ q.at = "del_meta" /\ q.name = n
        /\ ObjectMetaKey(n) \in DOMAIN map
    BY <1>1 DEF DeleteObject, Begin
  <2> HIDE DEF q
  <2> QED
    BY <1>0, <2>1, Zenon DEF Still, MetasOld, IndexOld
<1>2. CASE \E d \in Data : PutObject(c, n, d)
  <2>1. PICK d \in Data : PutObject(c, n, d)
    BY <1>2
  <2>2. PICK now : call' = [call EXCEPT ![c] =
          [at |-> "put_chunks", name |-> n, id |-> <<n, now>>, data |-> d, next |-> 0]]
    BY <2>1, Zenon DEF PutObject, Begin
  <2> DEFINE q == [at |-> "put_chunks", name |-> n, id |-> <<n, now>>, data |-> d, next |-> 0]
  <2>3. call' = [call EXCEPT ![c] = q] /\ q.at = "put_chunks" /\ q.name = n
    BY <2>2
  <2> HIDE DEF q
  <2> QED
    BY <1>0, <2>3, Zenon DEF Still, MetasOld, IndexOld
<1> QED
  BY <1>1, <1>2

LEMMA CollectStill ==
  ASSUME TypeOK, NEW c \in Caller,
         GarbageCollectChunks(c) \/ GcMark(c) \/ GcScan(c) \/ GcSweep(c)
  PROVE  Still(c)
<1>1. PICK q : call' = [call EXCEPT ![c] = q] /\ q.at \in {"gc_mark", "gc_sweep"}
  BY CollectCalls
<1>2. MetasOld
  BY MetasUnwritten
<1>3. IndexOld /\ survivors' \subseteq survivors \cup {map'}
  <2>1. \A key \in {"objchunk"} \X ObjectId \X Nat : \A n \in Name : BucketIndexKey(n) # key
    BY DEF BucketIndexKey
  <2> QED
    BY <2>1, CollectDrops DEF Agree, IndexOld
<1>4. call[c].at \notin {"put_index", "del_index"}
  <2>1. Idle.at = "idle"
    BY DEF Idle
  <2>2. GarbageCollectChunks(c) => call[c] = Idle
    BY Zenon DEF GarbageCollectChunks, Begin
  <2>3. GcMark(c) \/ GcScan(c) => call[c].at = "gc_mark"
    BY Zenon DEF GcMark, GcScan
  <2>4. GcSweep(c) => call[c].at = "gc_sweep"
    BY DEF GcSweep
  <2> QED
    BY <2>1, <2>2, <2>3, <2>4
<1>5. crashes' = crashes /\ contended \subseteq contended'
  BY Zenon DEF GarbageCollectChunks, GcMark, GcScan, GcSweep, history
<1> QED
  BY <1>1, <1>2, <1>3, <1>4, <1>5, Zenon DEF Still

\* A bucket and a chunk are under keys of their own.
LEMMA WriteStill ==
  ASSUME TypeOK, NEW c \in Caller, CreateBucketPut(c) \/ PutChunk(c)
  PROVE  Still(c)
<1>0. crashes' = crashes /\ contended' = contended /\ Idle.at = "idle"
  BY DEF CreateBucketPut, PutChunk, history, Idle
<1>1. ASSUME NEW k, NEW v, KV!Put(k, v),
             \A n \in Name : ObjectMetaKey(n) # k /\ BucketIndexKey(n) # k
      PROVE  MetasOld /\ IndexOld /\ survivors' \subseteq survivors \cup {map'}
  <2>1. Agree(map, map', k) /\ survivors' = survivors \cup {map'}
    BY <1>1, Written, WritesAgree
  <2> QED
    BY <1>1, <2>1, Zenon DEF MetasOld, IndexOld, Agree
<1>2. CASE CreateBucketPut(c)
  <2>1. MetasOld /\ IndexOld /\ survivors' \subseteq survivors \cup {map'}
    <3>1. \A n, b : ObjectMetaKey(n) # BucketMetaKey(b) /\ BucketIndexKey(n) # BucketMetaKey(b)
      BY DEF ObjectMetaKey, BucketMetaKey, BucketIndexKey
    <3> QED
      BY <1>1, <1>2, <3>1, Zenon DEF CreateBucketPut
  <2>2. call' = [call EXCEPT ![c] = Idle] /\ call[c].at = "bucket_put"
    BY <1>2 DEF CreateBucketPut, Return, Goto
  <2> QED
    BY <1>0, <2>1, <2>2, Zenon DEF Still
<1>3. CASE PutChunk(c)
  <2> DEFINE q == [call[c] EXCEPT !.next = @ + 1]
  <2>1. MetasOld /\ IndexOld /\ survivors' \subseteq survivors \cup {map'}
    BY <1>1, <1>3, KeysDiffer DEF PutChunk
  <2>2. call[c] \in PutCall /\ call[c].at = "put_chunks"
    BY <1>3, CallKinds DEF PutChunk, TypeOK
  <2>3. q.name = call[c].name /\ q.at = "put_chunks"
    BY <2>2 DEF PutCall
  <2>4. call' = [call EXCEPT ![c] = q]
    BY <1>3 DEF PutChunk, Goto
  <2> HIDE DEF q
  <2> QED
    BY <1>0, <2>1, <2>2, <2>3, <2>4, Zenon DEF Still
<1> QED
  BY <1>2, <1>3

\* Every step is one of these.
LEMMA IndexSteps ==
  ASSUME TypeOK, Next
  PROVE  \/ Crash
         \/ \E c \in Caller : \/ Still(c)
                              \/ PutMetadata(c) \/ PutIndex(c)
                              \/ DeleteMetadata(c) \/ DeleteIndex(c)
<1> SUFFICES ASSUME NEW c \in Caller,
                    BucketStep(c) \/ PutStep(c) \/ ReadStep(c) \/ DeleteStep(c) \/ GcStep(c)
             PROVE  \/ Still(c)
                    \/ PutMetadata(c) \/ PutIndex(c) \/ DeleteMetadata(c) \/ DeleteIndex(c)
  BY DEF Next
<1>1. ASSUME NEW b \in Bucket, CreateBucket(c, b) PROVE Still(c)
  <2> DEFINE q == [at |-> "bucket_put", bucket |-> b]
  <2>1. /\ call' = [call EXCEPT ![c] = q] /\ q.at = "bucket_put" /\ call[c].at = "idle"
        /\ UNCHANGED contents /\ crashes' = crashes /\ contended' = contended
    BY <1>1 DEF CreateBucket, Goto, history, Idle
  <2> HIDE DEF q
  <2> QED
    BY <2>1, QuietStill, Zenon
<1>2. ASSUME PutFlush(c) \/ DeleteFlush(c) \/ FlushFail(c) \/ GcFlush(c) PROVE Still(c)
  BY <1>2, ReturnStill, Zenon DEF PutFlush, DeleteFlush, FlushFail, GcFlush, history
<1> QED
  BY <1>1, <1>2, ReadStill, BeginStill, CollectStill, WriteStill
     DEF BucketStep, PutStep, DeleteStep, GcStep

\* The name of a writer.
LEMMA WriterNames ==
  ASSUME TypeOK, NEW c \in Caller,
         call[c].at \in {"put_index", "put_flush", "del_meta", "del_index", "del_flush"}
  PROVE  call[c].name \in Name /\ Writes(c, call[c].name)
<1>1. CASE call[c].at \in {"put_index", "put_flush"}
  <2>1. call[c] \in PutCall /\ Putting(c)
    BY <1>1, CallKinds DEF TypeOK, Putting
  <2> QED
    BY <2>1, Zenon DEF PutCall, Writes
<1>2. CASE call[c].at \in {"del_meta", "del_index", "del_flush"}
  <2>1. call[c] \in DeleteCall /\ Deleting(c)
    BY <1>2, CallKinds DEF TypeOK, Deleting
  <2> QED
    BY <2>1 DEF DeleteCall, Writes
<1> QED
  BY <1>1, <1>2

LEMMA StillIndex ==
  ASSUME IndexInv, NEW c \in Caller, Still(c), Next, ~Crash
  PROVE  EntryInv' /\ WriterInv' /\ OneWriter' /\
         (crashes' = 0 => \A n \in Name \ contended' : IndexOf(n)')
<1>0. TypeOK /\ MetasOld /\ IndexOld /\ survivors' \subseteq survivors \cup {map'}
  BY DEF IndexInv, Still
<1>1. \A n \in Name : ObjectMetaKey(n) \in DOMAIN map => ObjectMetaKey(n) \in DOMAIN map'
  BY <1>0, MetaStays
<1>2. PICK q : /\ call' = [call EXCEPT ![c] = q]
               /\ q.at \notin {"put_index", "put_flush", "del_index", "del_flush"}
               /\ q.at = "put_chunks" =>
                    \/ call[c].at = "put_chunks" /\ q.name = call[c].name
                    \/ call[c] = Idle /\ Touch(q.name)
               /\ q.at = "del_meta" =>
                    /\ call[c] = Idle /\ Touch(q.name)
                    /\ q.name \in Name /\ ObjectMetaKey(q.name) \in DOMAIN map
  BY Zenon DEF Still
<1>3. call'[c] = q /\ \A x \in Caller : x # c => call'[x] = call[x]
  BY <1>0, <1>2 DEF TypeOK
<1>4. EntryInv'
  <2>1. ASSUME NEW s \in survivors', NEW n \in Name, BucketIndexKey(n) \in DOMAIN s
        PROVE  ObjectMetaKey(n) \in DOMAIN s
    <3>1. CASE s \in survivors
      BY <2>1, <3>1 DEF IndexInv, EntryInv
    <3>2. CASE s = map'
      BY <1>0, <1>1, <2>1, <3>2 DEF IndexInv, EntryInv, IndexOld, TypeOK
    <3> QED
      BY <1>0, <3>1, <3>2
  <2> QED
    BY <2>1 DEF EntryInv
<1>5. WriterInv'
  <2>1. ASSUME NEW x \in Caller,
               call'[x].at \in {"put_index", "put_flush", "del_meta", "del_index", "del_flush"}
        PROVE  ObjectMetaKey(call'[x].name) \in DOMAIN map'
    <3>1. CASE x = c
      BY <1>1, <1>2, <1>3, <2>1, <3>1
    <3>2. CASE x # c
      BY <1>0, <1>1, <1>3, <2>1, <3>2, WriterNames, Zenon DEF IndexInv, WriterInv
    <3> QED
      BY <3>1, <3>2
  <2> QED
    BY <2>1 DEF WriterInv
<1>6. contended \subseteq contended'
  BY DEF Still
<1>7. ASSUME NEW x \in Caller, NEW n \in Name, Writes(x, n)'
      PROVE  Writes(x, n) \/ (x = c /\ call[c] = Idle /\ Touch(n))
  BY <1>2, <1>3, <1>7 DEF Writes, Putting, Deleting
<1>8. OneWriter'
  <2>1. ASSUME NEW n \in Name \ contended', Touch(n) PROVE \A x \in Caller : ~Writes(x, n)
    BY <2>1 DEF Touch
  <2> QED
    BY <1>6, <1>7, <2>1 DEF OneWriter, IndexInv
<1>9. ASSUME crashes' = 0, NEW n \in Name \ contended' PROVE IndexOf(n)'
  <2>1. IndexOf(n)
    BY <1>6, <1>9 DEF IndexInv, Still
  <2>2. n \in Committed(map') <=> n \in Committed(map)
    BY <1>0, <1>1 DEF MetasOld, Committed
  <2>3. BucketIndexKey(n) \in DOMAIN map' <=> BucketIndexKey(n) \in DOMAIN map
    BY <1>0 DEF IndexOld
  <2>4. \A x \in Caller : call[x].at \in {"put_index", "del_index"} =>
          /\ call'[x] = call[x]
          /\ Writes(x, n) => Writes(x, n)'
    BY <1>3 DEF Still, Writes, Putting, Deleting
  <2>5. \A x \in Caller : call'[x].at \in {"put_index", "del_index"} =>
          /\ call'[x] = call[x]
          /\ Writes(x, n)' => Writes(x, n)
    BY <1>2, <1>3 DEF Writes, Putting, Deleting
  <2>6. (\A x \in Caller : Writes(x, n)' => call'[x].at \notin {"put_index", "del_index"}) =>
          (n \in Committed(map') <=> BucketIndexKey(n) \in DOMAIN map')
    BY <2>1, <2>2, <2>3, <2>4 DEF IndexOf
  <2>7. \A x \in Caller : Writes(x, n)' =>
          /\ call'[x].at = "put_index" => n \in Committed(map')
          /\ call'[x].at = "del_index" => n \notin Committed(map')
    BY <2>1, <2>2, <2>5, Zenon DEF IndexOf
  <2> QED
    BY <2>6, <2>7, Zenon DEF IndexOf, Committed
<1> QED
  BY <1>4, <1>5, <1>8, <1>9

\* A step of the writer of n.
LEMMA WriteIndex ==
  ASSUME IndexInv, NEW c \in Caller, NEW n \in Name, Writes(c, n), NEW q,
         call' = [call EXCEPT ![c] = q], q.name = n,
         q.at \in {"put_index", "put_flush", "del_index", "del_flush"},
         contended' = contended, crashes' = crashes,
         \A m \in Name : m # n =>
           /\ m \in Committed(map') <=> m \in Committed(map)
           /\ BucketIndexKey(m) \in DOMAIN map' <=> BucketIndexKey(m) \in DOMAIN map,
         \A m \in Name : ObjectMetaKey(m) \in DOMAIN map => ObjectMetaKey(m) \in DOMAIN map',
         survivors' \subseteq survivors \cup {map'}, ObjectMetaKey(n) \in DOMAIN map',
         crashes = 0 /\ n \notin contended =>
           /\ q.at = "put_index" => n \in Committed(map')
           /\ q.at = "del_index" => n \notin Committed(map')
           /\ q.at \in {"put_flush", "del_flush"} =>
                (n \in Committed(map') <=> BucketIndexKey(n) \in DOMAIN map')
  PROVE  EntryInv' /\ WriterInv' /\ OneWriter' /\
         (crashes' = 0 => \A m \in Name \ contended' : IndexOf(m)')
<1>0. TypeOK
  BY DEF IndexInv
<1>1. call'[c] = q /\ \A x \in Caller : x # c => call'[x] = call[x]
  BY <1>0 DEF TypeOK
<1>2. EntryInv'
  <2>1. ASSUME NEW s \in survivors', NEW m \in Name, BucketIndexKey(m) \in DOMAIN s
        PROVE  ObjectMetaKey(m) \in DOMAIN s
    <3>1. CASE s \in survivors
      BY <2>1, <3>1 DEF IndexInv, EntryInv
    <3>2. CASE s = map' /\ m = n
      BY <3>2
    <3>3. CASE s = map' /\ m # n
      BY <1>0, <2>1, <3>3 DEF IndexInv, EntryInv, TypeOK
    <3> QED
      BY <3>1, <3>2, <3>3
  <2> QED
    BY <2>1 DEF EntryInv
<1>3. WriterInv'
  <2>1. ASSUME NEW x \in Caller,
               call'[x].at \in {"put_index", "put_flush", "del_meta", "del_index", "del_flush"}
        PROVE  ObjectMetaKey(call'[x].name) \in DOMAIN map'
    <3>1. CASE x = c
      BY <1>1, <3>1
    <3>2. CASE x # c
      BY <1>0, <1>1, <2>1, <3>2, WriterNames DEF IndexInv, WriterInv
    <3> QED
      BY <3>1, <3>2
  <2> QED
    BY <2>1 DEF WriterInv
<1>4. \A x \in Caller, m \in Name : Writes(x, m)' <=> Writes(x, m)
  BY <1>1 DEF Writes, Putting, Deleting
<1>5. OneWriter'
  BY <1>4 DEF OneWriter, IndexInv
<1>6. ASSUME crashes' = 0, NEW m \in Name \ contended' PROVE IndexOf(m)'
  <2>1. CASE m = n
    <3>1. \A x \in Caller : Writes(x, m)' => x = c
      BY <1>4, <1>6, <2>1 DEF IndexInv, OneWriter
    <3>2. Writes(c, m)'
      BY <1>4, <2>1
    <3>3. (\A x \in Caller : Writes(x, m)' => call'[x].at \notin {"put_index", "del_index"}) =>
            (m \in Committed(map') <=> BucketIndexKey(m) \in DOMAIN map')
      BY <1>1, <1>6, <2>1, <3>2
    <3>4. \A x \in Caller : Writes(x, m)' =>
            /\ call'[x].at = "put_index" => m \in Committed(map')
            /\ call'[x].at = "del_index" => m \notin Committed(map')
      BY <1>1, <1>6, <2>1, <3>1
    <3> QED
      BY <3>3, <3>4, Zenon DEF IndexOf, Committed
  <2>2. CASE m # n
    <3>1. IndexOf(m)
      BY <1>6 DEF IndexInv
    <3>2. \A x \in Caller : Writes(x, m) => call'[x] = call[x]
      BY <1>1, <2>2 DEF Writes
    <3>3. (\A x \in Caller : Writes(x, m)' => call'[x].at \notin {"put_index", "del_index"}) =>
            (m \in Committed(map') <=> BucketIndexKey(m) \in DOMAIN map')
      BY <1>4, <2>2, <3>1, <3>2 DEF IndexOf
    <3>4. \A x \in Caller : Writes(x, m)' =>
            /\ call'[x].at = "put_index" => m \in Committed(map')
            /\ call'[x].at = "del_index" => m \notin Committed(map')
      BY <1>4, <2>2, <3>1, <3>2 DEF IndexOf
    <3> QED
      BY <3>3, <3>4, Zenon DEF IndexOf, Committed
  <2> QED
    BY <2>1, <2>2
<1> QED
  BY <1>2, <1>3, <1>5, <1>6

LEMMA MetadataIndex ==
  ASSUME IndexInv, NEW c \in Caller, PutMetadata(c) \/ DeleteMetadata(c), Next
  PROVE  EntryInv' /\ WriterInv' /\ OneWriter' /\
         (crashes' = 0 => \A n \in Name \ contended' : IndexOf(n)')
<1> DEFINE n == call[c].name
<1>0. TypeOK
  BY DEF IndexInv
<1>1. PICK q, meta :
        /\ call' = [call EXCEPT ![c] = q] /\ q.name = n
        /\ \/ q.at = "put_index" /\ meta.state = "Committed"
           \/ q.at = "del_index" /\ meta.state = "Deleted"
        /\ KV!Put(ObjectMetaKey(n), meta)
  <2>1. CASE PutMetadata(c)
    <3> DEFINE q == [call[c] EXCEPT !.at = "put_index"]
               meta == [id |-> call[c].id, size |-> Len(call[c].data),
                        count |-> ChunkCount(call[c].data), etag |-> call[c].data,
                        state |-> "Committed"]
    <3>1. call[c] \in PutCall
      BY <1>0, <2>1, CallKinds DEF PutMetadata, Putting, TypeOK
    <3>2. q.at = "put_index" /\ q.name = n
      BY <3>1 DEF PutCall
    <3>3. meta.state = "Committed"
      OBVIOUS
    <3>4. call' = [call EXCEPT ![c] = q] /\ KV!Put(ObjectMetaKey(n), meta)
      BY <2>1 DEF PutMetadata, Goto
    <3> HIDE DEF q, meta
    <3> QED
      BY <3>2, <3>3, <3>4, Zenon
  <2>2. CASE DeleteMetadata(c)
    <3> DEFINE q == [call[c] EXCEPT !.at = "del_index"]
               meta == [call[c].meta EXCEPT !.state = "Deleted"]
    <3>1. call[c] \in DeleteCall
      BY <1>0, <2>2, CallKinds DEF DeleteMetadata, Deleting, TypeOK
    <3>2. q.at = "del_index" /\ q.name = n
      BY <3>1 DEF DeleteCall
    <3>3. meta.state = "Deleted"
      BY <3>1 DEF DeleteCall, Metadata
    <3>4. call' = [call EXCEPT ![c] = q] /\ KV!Put(ObjectMetaKey(n), meta)
      BY <2>2 DEF DeleteMetadata, Goto
    <3> HIDE DEF q, meta
    <3> QED
      BY <3>2, <3>3, <3>4, Zenon
  <2> QED
    BY <2>1, <2>2
<1>2. n \in Name /\ Writes(c, n)
  <2>1. CASE PutMetadata(c)
    <3>1. call[c] \in PutCall /\ Putting(c)
      BY <1>0, <2>1, CallKinds DEF PutMetadata, Putting, TypeOK
    <3> QED
      BY <3>1 DEF PutCall, Writes
  <2>2. CASE DeleteMetadata(c)
    BY <1>0, <2>2, WriterNames DEF DeleteMetadata
  <2> QED
    BY <2>1, <2>2
<1>3. contended' = contended /\ crashes' = crashes
  BY DEF PutMetadata, DeleteMetadata, history
<1> HIDE DEF n
<1>4. map' = Sets(map, ObjectMetaKey(n), meta) /\ survivors' = survivors \cup {map'}
  BY <1>1, Written
<1>5. /\ ObjectMetaKey(n) \in DOMAIN map' /\ map'[ObjectMetaKey(n)] = meta
      /\ \A m \in Name : m # n => (m \in Committed(map') <=> m \in Committed(map))
  <2>1. /\ Agree(map, map', ObjectMetaKey(n))
        /\ ObjectMetaKey(n) \in DOMAIN map' /\ map'[ObjectMetaKey(n)] = meta
    BY <1>4, WritesAgree
  <2>2. \A m \in Name : m # n => ObjectMetaKey(m) # ObjectMetaKey(n)
    BY KeysDiffer
  <2>3. \A m \in Name : m # n => (m \in Committed(map') <=> m \in Committed(map))
    BY <2>1, <2>2 DEF Committed, Agree
  <2> QED
    BY <2>1, <2>3
<1>6. \A m \in Name : BucketIndexKey(m) \in DOMAIN map' <=> BucketIndexKey(m) \in DOMAIN map
  BY <1>4, KeysDiffer DEF Sets
<1>7. \A m \in Name : ObjectMetaKey(m) \in DOMAIN map => ObjectMetaKey(m) \in DOMAIN map'
  BY <1>4 DEF Sets
<1>8. /\ q.at = "put_index" => n \in Committed(map')
      /\ q.at = "del_index" => n \notin Committed(map')
  BY <1>1, <1>2, <1>5, Zenon DEF Committed
<1> QED
  BY <1>1, <1>2, <1>3, <1>4, <1>5, <1>6, <1>7, <1>8, WriteIndex, Zenon

LEMMA EntryIndex ==
  ASSUME IndexInv, NEW c \in Caller, PutIndex(c) \/ DeleteIndex(c), Next
  PROVE  EntryInv' /\ WriterInv' /\ OneWriter' /\
         (crashes' = 0 => \A n \in Name \ contended' : IndexOf(n)')
<1> DEFINE n == call[c].name
<1>0. TypeOK
  BY DEF IndexInv
<1>2. n \in Name /\ Writes(c, n) /\ ObjectMetaKey(n) \in DOMAIN map
  BY <1>0, WriterNames DEF PutIndex, DeleteIndex, IndexInv, WriterInv
<1>1. PICK q :
        /\ call' = [call EXCEPT ![c] = q] /\ q.name = n
        /\ \/ q.at = "put_flush" /\ call[c].at = "put_index" /\ BucketIndexKey(n) \in DOMAIN map'
           \/ q.at = "del_flush" /\ call[c].at = "del_index" /\ BucketIndexKey(n) \notin DOMAIN map'
        /\ Agree(map, map', BucketIndexKey(n)) /\ survivors' = survivors \cup {map'}
  <2>1. CASE PutIndex(c)
    <3> DEFINE q == [call[c] EXCEPT !.at = "put_flush"]
    <3>1. call[c] \in PutCall
      BY <1>0, <2>1, CallKinds DEF PutIndex, Putting, TypeOK
    <3>2. q.at = "put_flush" /\ q.name = n
      BY <3>1 DEF PutCall
    <3>3. call' = [call EXCEPT ![c] = q] /\ call[c].at = "put_index"
      BY <2>1 DEF PutIndex, Goto
    <3>4. /\ map' = Sets(map, BucketIndexKey(n), call[c].id)
          /\ survivors' = survivors \cup {map'}
      BY <2>1, Written DEF PutIndex
    <3>5. Agree(map, map', BucketIndexKey(n)) /\ BucketIndexKey(n) \in DOMAIN map'
      BY <3>4, WritesAgree, Zenon
    <3> HIDE DEF q, n
    <3> QED
      BY <3>2, <3>3, <3>4, <3>5, Zenon
  <2>2. CASE DeleteIndex(c)
    <3> DEFINE q == [call[c] EXCEPT !.at = "del_flush"]
    <3>1. call[c] \in DeleteCall
      BY <1>0, <2>2, CallKinds DEF DeleteIndex, Deleting, TypeOK
    <3>2. q.at = "del_flush" /\ q.name = n
      BY <3>1 DEF DeleteCall
    <3>3. call' = [call EXCEPT ![c] = q] /\ call[c].at = "del_index"
      BY <2>2 DEF DeleteIndex, Goto
    <3>4. map' = Drops(map, BucketIndexKey(n)) /\ survivors' = survivors \cup {map'}
      BY <2>2, Written DEF DeleteIndex
    <3>5. BucketIndexKey(n) \notin DOMAIN map'
      BY <3>4 DEF Drops
    <3>6. Agree(map, map', BucketIndexKey(n))
      BY <3>4, WritesAgree, Zenon
    <3> HIDE DEF q, n
    <3> QED
      BY <3>2, <3>3, <3>4, <3>5, <3>6, Zenon
  <2> QED
    BY <2>1, <2>2
<1>3. contended' = contended /\ crashes' = crashes
  BY DEF PutIndex, DeleteIndex, history
<1> HIDE DEF n
<1>4. \A m \in Name : /\ ObjectMetaKey(m) # BucketIndexKey(n)
                      /\ m # n => BucketIndexKey(m) # BucketIndexKey(n)
  <2>1. \A m \in Name : m # n => BucketIndexKey(m) # BucketIndexKey(n)
    BY DEF BucketIndexKey
  <2> QED
    BY <2>1, KeysDiffer
<1>5. \A m \in Name : /\ ObjectMetaKey(m) \in DOMAIN map' <=> ObjectMetaKey(m) \in DOMAIN map
                      /\ ObjectMetaKey(m) \in DOMAIN map =>
                           map'[ObjectMetaKey(m)] = map[ObjectMetaKey(m)]
  BY <1>1, <1>4, Zenon DEF Agree
<1>6. \A m \in Name : m \in Committed(map') <=> m \in Committed(map)
  BY <1>5 DEF Committed
<1>7. \A m \in Name : m # n =>
        (BucketIndexKey(m) \in DOMAIN map' <=> BucketIndexKey(m) \in DOMAIN map)
  BY <1>1, <1>4 DEF Agree
<1>8. crashes = 0 /\ n \notin contended =>
        (n \in Committed(map') <=> BucketIndexKey(n) \in DOMAIN map')
  BY <1>1, <1>2, <1>6 DEF IndexInv, IndexOf
<1> QED
  BY <1>1, <1>2, <1>3, <1>5, <1>6, <1>7, <1>8, WriteIndex, Zenon

LEMMA CrashIndex ==
  ASSUME IndexInv, Crash
  PROVE  EntryInv' /\ WriterInv' /\ OneWriter' /\ crashes' # 0
<1>1. survivors' \subseteq survivors /\ crashes' # 0
  BY DEF IndexInv, TypeOK, Crash, KV!Crash
<1>2. EntryInv'
  BY <1>1 DEF IndexInv, EntryInv
<1>3. \A x \in Caller : call'[x].at = "idle"
  BY CrashAway
<1>4. WriterInv' /\ OneWriter'
  BY <1>3 DEF WriterInv, OneWriter, Writes, Putting, Deleting
<1> QED
  BY <1>1, <1>2, <1>4

LEMMA IndexInit == Init => IndexInv
<1> SUFFICES ASSUME Init PROVE IndexInv
  OBVIOUS
<1>1. TypeOK
  BY TypeInit
<1>2. map = KV!Empty /\ survivors = {KV!Empty} /\ DOMAIN KV!Empty = {}
  BY DEF Init, KV!Init, KV!Empty
<1>3. \A c \in Caller : call[c].at = "idle"
  BY DEF Init, Idle
<1>4. EntryInv
  BY <1>2 DEF EntryInv
<1>5. WriterInv /\ OneWriter
  BY <1>3 DEF WriterInv, OneWriter, Writes, Putting, Deleting
<1>6. \A n \in Name : n \notin Committed(map) /\ BucketIndexKey(n) \notin DOMAIN map
  BY <1>2 DEF Committed
<1>7. \A n \in Name : IndexOf(n)
  BY <1>3, <1>6 DEF IndexOf
<1> QED
  BY <1>1, <1>4, <1>5, <1>7 DEF IndexInv

LEMMA IndexNext == IndexInv /\ [Next]_vars => IndexInv'
<1> SUFFICES ASSUME IndexInv, [Next]_vars PROVE IndexInv'
  OBVIOUS
<1>1. TypeOK'
  BY TypeNext DEF IndexInv
<1>2. CASE UNCHANGED vars
  <2>1. EntryInv' /\ WriterInv' /\ OneWriter'
    BY <1>2, Zenon DEF vars, IndexInv, EntryInv, WriterInv, OneWriter, Writes, Putting, Deleting
  <2>2. crashes' = 0 => \A n \in Name \ contended' : IndexOf(n)'
    BY <1>2, Zenon DEF vars, IndexInv, IndexOf, Writes, Putting, Deleting, Committed
  <2> QED
    BY <1>1, <2>1, <2>2 DEF IndexInv
<1>3. CASE Crash
  BY <1>1, <1>3, CrashIndex DEF IndexInv
<1>4. ASSUME Next, ~Crash PROVE IndexInv'
  <2>1. PICK c \in Caller : \/ Still(c) \/ PutMetadata(c) \/ PutIndex(c)
                            \/ DeleteMetadata(c) \/ DeleteIndex(c)
    BY <1>4, IndexSteps DEF IndexInv
  <2>2. EntryInv' /\ WriterInv' /\ OneWriter' /\
        (crashes' = 0 => \A n \in Name \ contended' : IndexOf(n)')
    BY <1>4, <2>1, StillIndex, MetadataIndex, EntryIndex
  <2> QED
    BY <1>1, <2>2 DEF IndexInv
<1> QED
  BY <1>2, <1>3, <1>4

\* ListObjects goes by the index: no crash leaves an entry whose metadata is missing,
\* and without a crash the entries are those of the committed objects, except of names
\* whose put or delete is on its way or has overlapped another one.
THEOREM IndexAgrees == Spec => []IndexFollowsMetadata
<1>1. IndexInv => IndexFollowsMetadata
  BY Zenon DEF IndexInv, EntryInv, IndexOf, IndexFollowsMetadata
<1> QED
  BY <1>1, IndexInit, IndexNext, PTL DEF Spec

=============================================================================
