----------------------------- MODULE ObjectStore -----------------------------
(***************************************************************************)
(* ObjectStore over KVStore.  An operation is a sequence of calls of the   *)
(* KVStore, each of them atomic under its mutex; ObjectStore has no lock,  *)
(* so each call is an action, and the operations of several callers        *)
(* interleave.  The KVStore is the DurableMap that it promises to be.      *)
(*                                                                         *)
(* A name is a bucket and an object key; keys of the map are tuples, not   *)
(* strings joined with colons.  An operation that returns without a write  *)
(* (a bucket or an object that is missing) is not a step.                  *)
(***************************************************************************)
EXTENDS Integers, Sequences, FiniteSets

CONSTANTS
  Bucket,      \* bucket names
  ObjectKey,   \* object keys
  Data,        \* object contents: sequences of bytes
  Broken,      \* a committed object that cannot be read back
  ChunkSize,   \* chunk_size_bytes_
  Caller,      \* threads that use the store
  Features,    \* which of "same_ms" (two puts may read the same millisecond) and
               \* "gc_overlap" (a garbage collection may run during a put) happen
  MaxCalls,    \* bound: calls of each operation
  MaxFaults    \* bound: flushes that fail, and crashes

Operation == {"put", "delete", "read", "gc"}

ASSUME ObjectAssumption ==
  /\ Data \subseteq Seq(Nat)
  /\ Broken \notin Data
  /\ ChunkSize \in Nat \ {0}
  /\ Features \subseteq {"same_ms", "gc_overlap"}
  /\ MaxCalls \in [Operation -> Nat]
  /\ MaxFaults \in Nat

VARIABLES
  map,        \* the contents of the KVStore
  survivors,  \* the contents of it that a crash can leave
  clock,      \* the last millisecond that a put has read
  call,       \* the locals of each caller's operation
  calls,      \* calls of each operation so far
  failures,   \* flushes that have failed so far
  crashes,    \* crashes so far
  contended,  \* history: names whose put or delete overlapped another one, or a
              \* garbage collection
  acked       \* history: what the last put of a name has reported as stored, if
              \* nothing was called for the name since

vars == <<map, survivors, clock, call, calls, failures, crashes, contended, acked>>

Name == Bucket \X ObjectKey
ObjectId == Name \X Nat

Metadata == [id : ObjectId, size : Nat, count : Nat, etag : Data,
             state : {"Committed", "Deleted"}]

------------------------------------------------------------------------------
(* ObjectStoreKeyCodec.                                                    *)

BucketMetaKey(b) == <<"bucket", b>>
ObjectMetaKey(n) == <<"objmeta", n>>
BucketIndexKey(n) == <<"bucketidx", n>>
ChunkKey(id, i) == <<"objchunk", id, i>>

MapKey ==
  ({"bucket"} \X Bucket) \cup ({"objmeta", "bucketidx"} \X Name)
  \cup ({"objchunk"} \X ObjectId \X Nat)
MapValue == Bucket \cup Metadata \cup ObjectId \cup Seq(Nat)

\* What is stored under which key.
Typed(m) ==
  /\ DOMAIN m \subseteq MapKey
  /\ \A k \in DOMAIN m : /\ k[1] = "bucket" => m[k] \in Bucket
                         /\ k[1] = "objmeta" => m[k] \in Metadata
                         /\ k[1] = "bucketidx" => m[k] \in ObjectId
                         /\ k[1] = "objchunk" => m[k] \in Seq(Nat)

KV == INSTANCE DurableMap WITH Key <- MapKey, Value <- MapValue

\* KVStore::list_keys_with_prefix.
KeysWithPrefix(prefix) == {k \in DOMAIN map : k[1] = prefix}

BucketExists(b) == BucketMetaKey(b) \in DOMAIN map

------------------------------------------------------------------------------
(* Chunks.                                                                 *)

\* Mutant of ChunkCount: drops a last chunk that is not full.
ChunkCountDown(d) == Len(d) \div ChunkSize

ChunkCount(d) == (Len(d) + ChunkSize - 1) \div ChunkSize

\* Chunk i, counted from 0: from `start' to `end'.
Chunk(d, i) ==
  LET start == i * ChunkSize
      end == IF start + ChunkSize < Len(d) THEN start + ChunkSize ELSE Len(d)
  IN  SubSeq(d, start + 1, end)

------------------------------------------------------------------------------
(* The callers.                                                            *)

Idle == [at |-> "idle"]

BucketCall == [at : {"bucket_put"}, bucket : Bucket]
PutCall == [at : {"put_chunks", "put_index", "put_flush"},
            name : Name, id : ObjectId, data : Data, next : Nat]
GetCall == [at : {"get_chunks"}, name : Name, meta : Metadata, next : Nat,
            data : Seq(Nat)]
DeleteCall == [at : {"del_meta", "del_index", "del_flush"}, name : Name,
               meta : Metadata]
ListCall == [at : {"list"}, bucket : Bucket, todo : SUBSET Name, objects : SUBSET Name]
MarkCall == [at : {"gc_mark"}, todo : SUBSET ({"objmeta"} \X Name),
             live : SUBSET ObjectId]
SweepCall == [at : {"gc_sweep"}, todo : SUBSET ({"objchunk"} \X ObjectId \X Nat),
              live : SUBSET ObjectId]

CallState ==
  {Idle} \cup BucketCall \cup PutCall \cup GetCall \cup DeleteCall \cup ListCall
  \cup MarkCall \cup SweepCall

\* Every field, local variable and value in the map is of its type.
TypeOK ==
  /\ map \in survivors
  /\ \A s \in survivors : Typed(s)
  /\ clock \in Nat
  /\ call \in [Caller -> CallState]
  /\ calls \in [Operation -> Nat]
  /\ failures \in Nat
  /\ crashes \in Nat
  /\ contended \subseteq Name
  /\ acked \in [Name -> SUBSET Data]

Putting(c) == call[c].at \in {"put_chunks", "put_index", "put_flush"}
Deleting(c) == call[c].at \in {"del_meta", "del_index", "del_flush"}
Collecting(c) == call[c].at \in {"gc_mark", "gc_sweep"}
Writes(c, n) == (Putting(c) \/ Deleting(c)) /\ call[c].name = n

Goto(c, locals) == call' = [call EXCEPT ![c] = locals] /\ UNCHANGED calls

\* An operation begins with its locals.
Begin(c, op, locals) ==
  /\ call[c] = Idle
  /\ calls[op] < MaxCalls[op]
  /\ calls' = [calls EXCEPT ![op] = @ + 1]
  /\ call' = [call EXCEPT ![c] = locals]

Return(c) == Goto(c, Idle)

\* History: a put or a delete of n begins.
Touch(n) ==
  /\ acked' = [acked EXCEPT ![n] = {}]
  /\ contended' = IF \E c \in Caller : Writes(c, n) \/ Collecting(c)
                  THEN contended \cup {n} ELSE contended

history == <<contended, acked>>
contents == <<map, survivors>>

------------------------------------------------------------------------------
(* CreateBucket: get, then put.  The WAL is not flushed.                   *)

CreateBucket(c, b) ==
  /\ ~BucketExists(b)
  /\ call[c] = Idle
  /\ Goto(c, [at |-> "bucket_put", bucket |-> b])
  /\ UNCHANGED <<contents, clock, failures, crashes, history>>

CreateBucketPut(c) ==
  /\ call[c].at = "bucket_put"
  /\ KV!Put(BucketMetaKey(call[c].bucket), call[c].bucket)
  /\ Return(c)
  /\ UNCHANGED <<clock, failures, crashes, history>>

------------------------------------------------------------------------------
(* PutObject: chunks, metadata, index entry, flush.                        *)

\* The checks and make_object_id.  Buckets are never removed, so the check and
\* the reading of the clock can be one step.  Of the metadata that is read to
\* report an overwrite nothing is used.
PutObject(c, n, d) ==
  /\ BucketExists(n[1])
  /\ "gc_overlap" \in Features \/ \A x \in Caller : ~Collecting(x)
  /\ \E now \in {clock, clock + 1} :
       /\ "same_ms" \in Features \/ now # clock
       /\ clock' = now
       /\ Begin(c, "put", [at |-> "put_chunks", name |-> n, id |-> <<n, now>>,
                    data |-> d, next |-> 0])
  /\ Touch(n)
  /\ UNCHANGED <<contents, failures, crashes>>

PutChunk(c) ==
  LET p == call[c]
  IN  /\ p.at = "put_chunks"
      /\ p.next < ChunkCount(p.data)
      /\ KV!Put(ChunkKey(p.id, p.next), Chunk(p.data, p.next))
      /\ Goto(c, [p EXCEPT !.next = @ + 1])
      /\ UNCHANGED <<clock, failures, crashes, history>>

\* Mutant of PutMetadata: before the last chunk.
PutMetadataEarly(c) ==
  LET p == call[c]
      n == ChunkCount(p.data)
  IN  /\ p.at = "put_chunks"
      /\ p.next >= n - 1
      /\ KV!Put(ObjectMetaKey(p.name),
                [id |-> p.id, size |-> Len(p.data), count |-> n,
                 etag |-> p.data, state |-> "Committed"])
      /\ Goto(c, [p EXCEPT !.at = "put_index"])
      /\ UNCHANGED <<clock, failures, crashes, history>>

\* The commit point.  The etag, a hash of the data, identifies the data here.
PutMetadata(c) ==
  LET p == call[c]
      n == ChunkCount(p.data)
  IN  /\ p.at = "put_chunks"
      /\ p.next = n
      /\ KV!Put(ObjectMetaKey(p.name),
                [id |-> p.id, size |-> Len(p.data), count |-> n,
                 etag |-> p.data, state |-> "Committed"])
      /\ Goto(c, [p EXCEPT !.at = "put_index"])
      /\ UNCHANGED <<clock, failures, crashes, history>>

\* Mutant of PutIndex: stores the etag.
PutIndexEtag(c) ==
  /\ call[c].at = "put_index"
  /\ KV!Put(BucketIndexKey(call[c].name), call[c].data)
  /\ Goto(c, [call[c] EXCEPT !.at = "put_flush"])
  /\ UNCHANGED <<clock, failures, crashes, history>>

PutIndex(c) ==
  /\ call[c].at = "put_index"
  /\ KV!Put(BucketIndexKey(call[c].name), call[c].id)
  /\ Goto(c, [call[c] EXCEPT !.at = "put_flush"])
  /\ UNCHANGED <<clock, failures, crashes, history>>

\* Mutant of PutFlush: reports success without the flush.
PutNoFlush(c) ==
  LET p == call[c]
  IN  /\ p.at = "put_flush"
      /\ UNCHANGED contents
      /\ acked' = IF p.name \in contended THEN acked
                  ELSE [acked EXCEPT ![p.name] = {p.data}]
      /\ Return(c)
      /\ UNCHANGED <<clock, failures, crashes, contended>>

\* The flush succeeds, and so does the put.
PutFlush(c) ==
  LET p == call[c]
  IN  /\ p.at = "put_flush"
      /\ KV!Flush
      /\ acked' = IF p.name \in contended THEN acked
                  ELSE [acked EXCEPT ![p.name] = {p.data}]
      /\ Return(c)
      /\ UNCHANGED <<clock, failures, crashes, contended>>

------------------------------------------------------------------------------
(* GetObject: metadata, then chunk by chunk.                               *)

GetObject(c, n) ==
  /\ ObjectMetaKey(n) \in DOMAIN map
  /\ map[ObjectMetaKey(n)].state # "Deleted"
  /\ Begin(c, "read", [at |-> "get_chunks", name |-> n, meta |-> map[ObjectMetaKey(n)],
               next |-> 0, data |-> <<>>])
  /\ UNCHANGED <<contents, clock, failures, crashes, history>>

\* A chunk, which is appended; or none, which is an error.
GetChunk(c) ==
  LET g == call[c]
      key == ChunkKey(g.meta.id, g.next)
  IN  /\ g.at = "get_chunks"
      /\ g.next < g.meta.count
      /\ IF key \in DOMAIN map
         THEN Goto(c, [g EXCEPT !.next = @ + 1, !.data = @ \o map[key]])
         ELSE Return(c)
      /\ UNCHANGED <<contents, clock, failures, crashes, history>>

\* All chunks were there: found.
GetReturn(c) ==
  /\ call[c].at = "get_chunks"
  /\ call[c].next = call[c].meta.count
  /\ Return(c)
  /\ UNCHANGED <<contents, clock, failures, crashes, history>>

------------------------------------------------------------------------------
(* DeleteObject: the metadata is read, and written back as deleted.        *)

DeleteObject(c, n) ==
  /\ ObjectMetaKey(n) \in DOMAIN map
  /\ Begin(c, "delete", [at |-> "del_meta", name |-> n, meta |-> map[ObjectMetaKey(n)]])
  /\ Touch(n)
  /\ UNCHANGED <<contents, clock, failures, crashes>>

DeleteMetadata(c) ==
  LET d == call[c]
  IN  /\ d.at = "del_meta"
      /\ KV!Put(ObjectMetaKey(d.name), [d.meta EXCEPT !.state = "Deleted"])
      /\ Goto(c, [d EXCEPT !.at = "del_index"])
      /\ UNCHANGED <<clock, failures, crashes, history>>

\* Mutant of DeleteIndex: leaves the entry.
DeleteNoIndex(c) ==
  /\ call[c].at = "del_index"
  /\ Goto(c, [call[c] EXCEPT !.at = "del_flush"])
  /\ UNCHANGED <<contents, clock, failures, crashes, history>>

DeleteIndex(c) ==
  /\ call[c].at = "del_index"
  /\ KV!Del(BucketIndexKey(call[c].name))
  /\ Goto(c, [call[c] EXCEPT !.at = "del_flush"])
  /\ UNCHANGED <<clock, failures, crashes, history>>

DeleteFlush(c) ==
  /\ call[c].at = "del_flush"
  /\ KV!Flush
  /\ Return(c)
  /\ UNCHANGED <<clock, failures, crashes, history>>

\* flush_wal fails: the put or delete returns an error, with all its writes in
\* the map.
FlushFail(c) ==
  /\ call[c].at \in {"put_flush", "del_flush"}
  /\ failures + crashes < MaxFaults
  /\ failures' = failures + 1
  /\ Return(c)
  /\ UNCHANGED <<contents, clock, crashes, history>>

------------------------------------------------------------------------------
(* ListObjects: the index in one scan, then the metadata of each name.     *)

ListObjects(c, b) ==
  /\ BucketExists(b)
  /\ Begin(c, "read", [at |-> "list", bucket |-> b, objects |-> {},
               todo |-> {n \in Name : n[1] = b /\ BucketIndexKey(n) \in DOMAIN map}])
  /\ UNCHANGED <<contents, clock, failures, crashes, history>>

\* The order is that of an unordered_map.
ListEntry(c) ==
  /\ call[c].at = "list"
  /\ \E n \in call[c].todo :
       LET key == ObjectMetaKey(n)
           shown == key \in DOMAIN map /\ map[key].state # "Deleted"
       IN  Goto(c, [call[c] EXCEPT !.todo = @ \ {n},
                                   !.objects = IF shown THEN @ \cup {n} ELSE @])
  /\ UNCHANGED <<contents, clock, failures, crashes, history>>

ListReturn(c) ==
  /\ call[c].at = "list"
  /\ call[c].todo = {}
  /\ Return(c)
  /\ UNCHANGED <<contents, clock, failures, crashes, history>>

------------------------------------------------------------------------------
(* GarbageCollectChunks: mark what committed metadata refers to, sweep the *)
(* other chunks.                                                           *)

GarbageCollectChunks(c) ==
  /\ "gc_overlap" \in Features \/ \A x \in Caller : ~Putting(x)
  /\ Begin(c, "gc", [at |-> "gc_mark", todo |-> KeysWithPrefix("objmeta"), live |-> {}])
  /\ contended' = contended \cup {n \in Name : \E x \in Caller : Writes(x, n)}
  /\ UNCHANGED <<contents, clock, failures, crashes, acked>>

\* Mutant of GcMark: takes deleted objects for reachable.
GcMarkAll(c) ==
  /\ call[c].at = "gc_mark"
  /\ \E key \in call[c].todo :
       Goto(c, [call[c] EXCEPT !.todo = @ \ {key},
                  !.live = IF key \in DOMAIN map THEN @ \cup {map[key].id} ELSE @])
  /\ UNCHANGED <<contents, clock, failures, crashes, history>>

GcMark(c) ==
  /\ call[c].at = "gc_mark"
  /\ \E key \in call[c].todo :
       LET committed == key \in DOMAIN map /\ map[key].state = "Committed"
       IN  Goto(c, [call[c] EXCEPT !.todo = @ \ {key},
                      !.live = IF committed THEN @ \cup {map[key].id} ELSE @])
  /\ UNCHANGED <<contents, clock, failures, crashes, history>>

\* Mutant of GcScan: before all metadata was read.
GcScanEarly(c) ==
  /\ call[c].at = "gc_mark"
  /\ Goto(c, [call[c] EXCEPT !.at = "gc_sweep", !.todo = KeysWithPrefix("objchunk")])
  /\ UNCHANGED <<contents, clock, failures, crashes, history>>

GcScan(c) ==
  /\ call[c].at = "gc_mark"
  /\ call[c].todo = {}
  /\ Goto(c, [call[c] EXCEPT !.at = "gc_sweep", !.todo = KeysWithPrefix("objchunk")])
  /\ UNCHANGED <<contents, clock, failures, crashes, history>>

\* The identifier is the part of the key before the last colon.
GcSweep(c) ==
  /\ call[c].at = "gc_sweep"
  /\ \E key \in call[c].todo :
       /\ IF key[2] \in call[c].live THEN UNCHANGED contents ELSE KV!Del(key)
       /\ Goto(c, [call[c] EXCEPT !.todo = @ \ {key}])
  /\ UNCHANGED <<clock, failures, crashes, history>>

\* Whether the flush succeeds is not looked at.
GcFlush(c) ==
  /\ call[c].at = "gc_sweep"
  /\ call[c].todo = {}
  /\ \/ KV!Flush /\ UNCHANGED failures
     \/ /\ failures + crashes < MaxFaults
        /\ failures' = failures + 1
        /\ UNCHANGED contents
  /\ Return(c)
  /\ UNCHANGED <<clock, crashes, history>>

------------------------------------------------------------------------------

\* The process ends and starts again.
Crash ==
  /\ failures + crashes < MaxFaults
  /\ crashes' = crashes + 1
  /\ KV!Crash
  /\ call' = [c \in Caller |-> Idle]
  /\ UNCHANGED <<clock, calls, failures, history>>

Init ==
  /\ KV!Init
  /\ clock = 0
  /\ call = [c \in Caller |-> Idle]
  /\ calls = [op \in Operation |-> 0]
  /\ failures = 0
  /\ crashes = 0
  /\ contended = {}
  /\ acked = [n \in Name |-> {}]

BucketStep(c) == (\E b \in Bucket : CreateBucket(c, b)) \/ CreateBucketPut(c)

PutStep(c) ==
  \/ \E n \in Name, d \in Data : PutObject(c, n, d)
  \/ PutChunk(c)
  \/ PutMetadata(c)
  \/ PutIndex(c)
  \/ PutFlush(c)

ReadStep(c) ==
  \/ \E n \in Name : GetObject(c, n)
  \/ GetChunk(c)
  \/ GetReturn(c)
  \/ \E b \in Bucket : ListObjects(c, b)
  \/ ListEntry(c)
  \/ ListReturn(c)

DeleteStep(c) ==
  \/ \E n \in Name : DeleteObject(c, n)
  \/ DeleteMetadata(c)
  \/ DeleteIndex(c)
  \/ DeleteFlush(c)
  \/ FlushFail(c)

GcStep(c) ==
  \/ GarbageCollectChunks(c)
  \/ GcMark(c)
  \/ GcScan(c)
  \/ GcSweep(c)
  \/ GcFlush(c)

Next ==
  \/ \E c \in Caller :
       BucketStep(c) \/ PutStep(c) \/ ReadStep(c) \/ DeleteStep(c) \/ GcStep(c)
  \/ Crash

Spec == Init /\ [][Next]_vars

------------------------------------------------------------------------------
(* Properties.                                                             *)

\* The names with committed metadata in the contents m of the KVStore.
Committed(m) ==
  {n \in Name : /\ ObjectMetaKey(n) \in DOMAIN m
                /\ m[ObjectMetaKey(n)].state = "Committed"}

\* All chunks of an object are there, with the data they were made from.
Whole(m, meta) ==
  \A i \in 0..(meta.count - 1) :
    /\ ChunkKey(meta.id, i) \in DOMAIN m
    /\ m[ChunkKey(meta.id, i)] = Chunk(meta.etag, i)

\* The objects that the contents m stand for.
View(m) ==
  [n \in Committed(m) |->
     LET meta == m[ObjectMetaKey(n)] IN IF Whole(m, meta) THEN meta.etag ELSE Broken]

Objects == INSTANCE DurableMap WITH
  Key <- Name,
  Value <- Data,
  map <- View(map),
  survivors <- {View(s) : s \in survivors}

\* A put or a delete is one atomic step, its metadata write; chunks, index entries
\* and garbage collection are invisible; and a crash, at whatever step, leaves whole
\* objects as they were after one of the puts and deletes since the last flush.
ImplementsObjects == Objects!Spec

\* What GetObject has read at its end is the object whose metadata it began with,
\* whatever was written, deleted and collected in between.
GetReturnsWhole ==
  \A c \in Caller :
    call[c].at = "get_chunks" /\ call[c].next = call[c].meta.count =>
      call[c].data = call[c].meta.etag

\* GetObject misses a chunk only of an object that was replaced or deleted since.
MissingOnlyIfReplaced ==
  \A c \in Caller :
    LET g == call[c]
    IN  /\ g.at = "get_chunks"
        /\ g.next < g.meta.count
        /\ ChunkKey(g.meta.id, g.next) \notin DOMAIN map
        => map[ObjectMetaKey(g.name)] # g.meta

\* An object that PutObject has reported as stored, and that nothing was called for
\* since, is in every state that a crash can leave.
AckedSurvive ==
  \A n \in Name : \A d \in acked[n] : \A s \in survivors :
    n \in Committed(s) /\ View(s)[n] = d

\* At the end of a garbage collection each chunk belongs to a committed object,
\* unless its name was written during the collection.
NoGarbageLeft ==
  \A c \in Caller :
    call[c].at = "gc_sweep" /\ call[c].todo = {} =>
      \A key \in KeysWithPrefix("objchunk") :
        \E n \in Committed(map) \cup contended :
          key[2][1] = n /\ (n \notin contended => map[ObjectMetaKey(n)].id = key[2])

\* A crash leaves no index entry without metadata, and as long as there was none and
\* writers of a name did not overlap, the index has exactly the committed objects.
IndexFollowsMetadata ==
  /\ \A s \in survivors, n \in Name :
       BucketIndexKey(n) \in DOMAIN s => ObjectMetaKey(n) \in DOMAIN s
  /\ crashes = 0 =>
       \A n \in Name \ contended :
         (\A c \in Caller : ~Writes(c, n)) =>
           (n \in Committed(map) <=> BucketIndexKey(n) \in DOMAIN map)

==============================================================================
