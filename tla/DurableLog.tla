----------------------------- MODULE DurableLog ------------------------------
(***************************************************************************)
(* What the WAL promises: records are accepted in order, a sync makes      *)
(* everything accepted so far durable, and a crash keeps a prefix that     *)
(* contains everything durable.                                            *)
(***************************************************************************)
EXTENDS Integers, Sequences

CONSTANTS Record

VARIABLES
  log,     \* the records accepted since the log was created, in order
  synced   \* how many of them are durable

vars == <<log, synced>>

Init == log = <<>> /\ synced = 0

\* One more record at the end.
Accept ==
  /\ log' \in Seq(Record)
  /\ Len(log') = Len(log) + 1
  /\ SubSeq(log', 1, Len(log)) = log
  /\ UNCHANGED synced

Sync == synced' = Len(log) /\ UNCHANGED log

\* A crash loses a suffix that was not durable.
Crash ==
  \E n \in synced..Len(log) : log' = SubSeq(log, 1, n) /\ UNCHANGED synced

\* The caller has saved the state elsewhere: start over with what is accepted
\* and not yet durable.
Rotate == \E n \in 0..Len(log) : log' = SubSeq(log, n + 1, Len(log)) /\ synced' = 0

Next == Accept \/ Sync \/ Crash \/ Rotate

Spec == Init /\ [][Next]_vars

==============================================================================
