----------------------------- MODULE DurableMap ------------------------------
(***************************************************************************)
(* A map whose writes take effect at once and become durable with the next *)
(* flush: what KVStore promises to a caller that uses put, del, get and    *)
(* flush_wal, and, one level up, what ObjectStore promises of its objects. *)
(* A crash takes the map back to its contents after one of the writes      *)
(* since the last flush, or before the first of them.                      *)
(***************************************************************************)

CONSTANTS Key, Value

VARIABLES
  map,       \* the contents: a function on the keys that are there
  survivors  \* the contents that a crash can leave

vars == <<map, survivors>>

With(k, v) == [x \in DOMAIN map \cup {k} |-> IF x = k THEN v ELSE map[x]]

Without(k) == [x \in DOMAIN map \ {k} |-> map[x]]

Write(contents) ==
  /\ map' = contents
  /\ survivors' = survivors \cup {contents}

Put(k, v) == Write(With(k, v))

\* Deleting what is not there does nothing.
Del(k) == Write(Without(k))

Flush == survivors' = {map} /\ UNCHANGED map

Crash == \E s \in survivors : map' = s /\ survivors' = {s}

Empty == [k \in {} |-> k]

Init == map = Empty /\ survivors = {Empty}

Next ==
  \/ \E k \in Key, v \in Value : Put(k, v)
  \/ \E k \in Key : Del(k)
  \/ Flush
  \/ Crash

Spec == Init /\ [][Next]_vars

==============================================================================
