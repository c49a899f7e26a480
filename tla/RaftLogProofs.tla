--------------------------- MODULE RaftLogProofs ---------------------------
(***************************************************************************)
(* Types, election safety and log matching of Raft, for every cluster      *)
(* size, order of peers and bound.  Election safety is proved while no     *)
(* node is created again, log matching while also no node that is deposed  *)
(* sends its proposal.                                                     *)
(***************************************************************************)
EXTENDS RaftProofs

\* A peer has handled r, or is not registered.
Took(p, r, ok) ==
  \/ /\ node' = [node EXCEPT ![p] = OnAppendEntries(node[p], r).node]
     /\ ok = OnAppendEntries(node[p], r).ok
  \/ node' = node /\ ok = FALSE

\* A request is handled by a peer: nothing is in its log that was not in a log or
\* a request, and its own term's entries it does not take from others.
LEMMA TookLinks ==
  ASSUME SizeFacts, TypeOK, TypeOK', AllKeep, VoteInv, LinkInv, elected' = elected,
         NEW n \in Node, NEW r \in Requests(n), r \in AppendReq,
         r.entries # <<>> => Won(r.term, n),
         NEW p \in Node \ {n}, NEW ok, Took(p, r, ok),
         \A m \in Node : Requests(m)' = Requests(m)
  PROVE  /\ LinkShape' /\ LinkUnique' /\ LinkDense' /\ OwnerHas' /\ WonInv' /\ TermInv'
         /\ OwnersKeep
  <1> DEFINE h == OnAppendEntries(node[p], r)
             s == node[p]
             t == h.node
  <1>1. node \in [Node -> NodeState] /\ s \in NodeState
    BY Zenon DEF TypeOK
  <1>2. CASE node' = node
    <2>1. RolesKeep /\ OwnersKeep /\ \A m \in Node : node'[m].log = node[m].log
      BY <1>2, Zenon DEF RolesKeep, OwnersKeep
    <2>2. \A i, b, e : IsLink(i, b, e)' => IsLink(i, b, e)
      BY <2>1, LinksSame, Zenon
    <2>3. QED
      BY <2>1, <2>2, CoreStep, TermsSame DEF LinkInv
  <1>3. CASE node' # node
    <2>1. node' = [node EXCEPT ![p] = t]
      BY <1>3 DEF Took
    <2>2. node'[p] = t /\ \A m \in Node \ {p} : node'[m] = node[m]
      BY <1>1, <2>1
    <2>3. /\ r.term < s.term => t = s
          /\ r.term >= s.term => t.term = r.term /\ t.role = "follower"
          /\ \/ t.log = s.log
             \/ /\ r.entries # <<>> /\ r.term >= s.term /\ t.term = r.term
                /\ r.prev <= Len(s.log) /\ TermAt(s, r.prev) = r.prevTerm
                /\ t.log = SubSeq(s.log, 1, r.prev) \o r.entries
      <3>1. h.ok \in BOOLEAN
        BY <1>1, AppendFacts
      <3>2. /\ r.term < s.term => t = s
            /\ r.term >= s.term => t.term = r.term /\ t.role = "follower"
            /\ ~h.ok => t.log = s.log
        BY <1>1, AppendCases
      <3>3. h.ok => /\ r.term >= s.term
                    /\ r.prev <= Len(s.log) /\ TermAt(s, r.prev) = r.prevTerm
                    /\ t.log = IF r.entries = <<>> THEN s.log
                               ELSE SubSeq(s.log, 1, r.prev) \o r.entries
        BY <1>1, AppendCases, Zenon
      <3> HIDE DEF t, h
      <3>4. QED
        BY <3>1, <3>2, <3>3, Zenon
    <2>4. s.term \in Nat /\ r.term \in Nat
      BY <1>1 DEF NodeState, AppendReq
    <2> HIDE DEF t, h
    <2>5. RolesKeep
      BY <2>2, <2>3, <2>4 DEF RolesKeep
    <2>6. OwnersKeep
      <3> SUFFICES ASSUME Won(s.term, p), t.term = s.term, t.log # s.log
                   PROVE  FALSE
        BY <2>2 DEF OwnersKeep
      <3>1. Won(r.term, n) /\ r.term = s.term
        BY <2>3, Zenon
      <3>2. QED
        BY <3>1, OneOwner
    <2>7. \A i, b, e : LogHas(t.log, i, b, e) => LogHas(s.log, i, b, e) \/ ReqHas(r, i, b, e)
      <3>1. CASE t.log = s.log
        BY <3>1, Zenon
      <3>2. CASE t.log # s.log
        <4>1. r.prevTerm = IF r.prev \in 1..Len(s.log) THEN s.log[r.prev].term ELSE 0
          BY <2>3, <3>2, Zenon DEF TermAt
        <4>2. s.log \in Seq(Entry) /\ r.prev <= Len(s.log) /\ t.log = SubSeq(s.log, 1, r.prev) \o r.entries
          BY <1>1, <2>3, <3>2, Zenon DEF NodeState
        <4>3. QED
          BY <4>1, <4>2, SpliceLinks, Zenon
      <3>3. QED
        BY <3>1, <3>2, Zenon
    <2>8. \A i, b, e : IsLink(i, b, e)' => IsLink(i, b, e)
      BY <2>2, <2>7, Zenon DEF IsLink
    <2>9. TermInv'
      <3>1. ASSUME NEW i \in DOMAIN t.log PROVE t.log[i].term <= t.term
        <4>1. LogHas(s.log, i, Before(t.log, i), t.log[i]) \/ ReqHas(r, i, Before(t.log, i), t.log[i])
          BY <2>7, <3>1, Zenon DEF LogHas
        <4>2. t \in NodeState /\ t.term \in Nat /\ t.log[i].term \in Nat
          <5>1. t \in NodeState
            BY <2>2, Zenon DEF TypeOK
          <5>2. QED
            BY <3>1, <5>1, LogType, Zenon DEF NodeState
        <4>3. CASE i \in DOMAIN s.log /\ t.log[i] = s.log[i]
          <5>1. s.log[i].term <= s.term
            BY <4>3, Zenon DEF LinkInv, TermInv
          <5>2. t.term >= s.term
            BY <2>3, <2>4
          <5>3. QED
            BY <2>4, <4>2, <4>3, <5>1, <5>2
        <4>4. CASE t.log # s.log /\ i - r.prev \in DOMAIN r.entries /\ t.log[i] = r.entries[i - r.prev]
          BY <2>3, <4>4, Zenon DEF LinkInv, TermInv
        <4>5. CASE t.log = s.log
          BY <3>1, <4>3, <4>5, Zenon
        <4>6. QED
          BY <4>1, <4>3, <4>4, <4>5, Zenon DEF LogHas, ReqHas
      <3>2. \A m \in Node : \A i \in DOMAIN node'[m].log : node'[m].log[i].term <= node'[m].term
        BY <2>2, <3>1 DEF LinkInv, TermInv
      <3>3. QED
        BY <3>2, Zenon DEF LinkInv, TermInv
    <2>10. QED
      BY <2>5, <2>6, <2>8, <2>9, CoreStep
  <1>4. QED
    BY <1>2, <1>3

\* A request that is a slice of a log adds no link.
LEMMA SliceLinks ==
  ASSUME NEW s \in NodeState, NEW r \in AppendReq, r.prevTerm = TermAt(s, r.prev),
         \A j \in DOMAIN r.entries :
           r.prev + j \in DOMAIN s.log /\ r.entries[j] = s.log[r.prev + j],
         NEW i, NEW b, NEW e, ReqHas(r, i, b, e)
  PROVE  LogHas(s.log, i, b, e)
  <1> DEFINE j == i - r.prev
  <1>1. r.prev \in Nat /\ r.entries \in Seq(Entry) /\ DOMAIN r.entries = 1..Len(r.entries)
    BY SeqLen DEF AppendReq
  <1>2. /\ i \in Nat /\ j \in DOMAIN r.entries /\ e = r.entries[j]
        /\ b = IF j = 1 THEN r.prevTerm ELSE r.entries[j - 1].term
    BY DEF ReqHas
  <1>3. Len(r.entries) \in Nat /\ j \in 1..Len(r.entries) /\ r.prev + j = i
    BY <1>1, <1>2, SeqLen
  <1>4. i \in DOMAIN s.log /\ e = s.log[i]
    BY <1>2, <1>3
  <1>5. Len(s.log) \in Nat /\ DOMAIN s.log = 1..Len(s.log)
    BY SeqLen DEF NodeState
  <1>6. b = Before(s.log, i)
    <2>1. CASE j = 1 /\ r.prev = 0
      <3>1. i = 1
        BY <1>1, <1>3, <2>1
      <3>2. b = 0
        BY <1>2, <2>1 DEF TermAt
      <3>3. QED
        BY <3>1, <3>2 DEF Before
    <2>2. CASE j = 1 /\ r.prev # 0
      <3>0. i = r.prev + 1 /\ r.prev \in Nat /\ r.prev # 0 /\ i \in Nat
        BY <1>1, <1>2, <1>3, <2>2
      <3>a. i \in 1..Len(s.log) /\ Len(s.log) \in Nat
        BY <1>4, <1>5
      <3>1. i - 1 = r.prev /\ i # 1 /\ r.prev \in 1..Len(s.log)
        BY <3>0, <3>a
      <3>2. b = s.log[r.prev].term
        BY <1>2, <2>2, <3>1 DEF TermAt
      <3>3. QED
        BY <3>1, <3>2 DEF Before
    <2>3. CASE j # 1
      <3>1. j - 1 \in 1..Len(r.entries) /\ r.prev + (j - 1) = i - 1 /\ i # 1
        BY <1>1, <1>3, <2>3
      <3>2. r.entries[j - 1] = s.log[i - 1]
        BY <1>1, <3>1
      <3>3. b = s.log[i - 1].term
        BY <1>2, <2>3, <3>2
      <3>4. QED
        BY <3>1, <3>3 DEF Before
    <2>4. QED
      BY <2>1, <2>2, <2>3
  <1>7. QED
    BY <1>4, <1>6 DEF LogHas

\* A node builds a request from its log.
LEMMA BuiltLinks ==
  ASSUME TypeOK, TypeOK', AllKeep, LinkInv, elected' = elected, node' = node,
         NEW n \in Node, NEW r \in AppendReq, r.term = node[n].term,
         r.prevTerm = TermAt(node[n], r.prev),
         \A j \in DOMAIN r.entries :
           r.prev + j \in DOMAIN node[n].log /\ r.entries[j] = node[n].log[r.prev + j],
         Requests(n)' \subseteq Requests(n) \cup {r},
         \A m \in Node \ {n} : Requests(m)' = Requests(m)
  PROVE  /\ LinkShape' /\ LinkUnique' /\ LinkDense' /\ OwnerHas' /\ WonInv' /\ TermInv'
         /\ OwnersKeep
  <1>1. node[n] \in NodeState
    BY Zenon DEF TypeOK
  <1>2. RolesKeep /\ OwnersKeep
    BY Zenon DEF RolesKeep, OwnersKeep
  <1>3. \A i, b, e : ReqHas(r, i, b, e) => LogHas(node[n].log, i, b, e)
    BY <1>1, SliceLinks, Zenon
  <1>4. \A i, b, e : IsLink(i, b, e)' => IsLink(i, b, e)
    <2> SUFFICES ASSUME NEW i, NEW b, NEW e, IsLink(i, b, e)' PROVE IsLink(i, b, e)
      BY Zenon
    <2>1. PICK m \in Node : LogHas(node[m].log, i, b, e) \/ \E q \in Requests(m)' : ReqHas(q, i, b, e)
      BY Zenon DEF IsLink
    <2>2. CASE LogHas(node[m].log, i, b, e)
      BY <2>2, Zenon DEF IsLink
    <2>3. CASE \E q \in Requests(m)' : ReqHas(q, i, b, e)
      BY <1>3, <2>3, Zenon DEF IsLink
    <2>4. QED
      BY <2>1, <2>2, <2>3, Zenon
  <1>5. TermInv'
    <2>1. \A j \in DOMAIN r.entries : r.entries[j].term <= r.term
      BY DEF LinkInv, TermInv
    <2>2. \A m \in Node : \A q \in Requests(m)' : q \in Requests(m) \/ q = r
      OBVIOUS
    <2>3. \A m \in Node : \A q \in Requests(m)' : \A j \in DOMAIN q.entries : q.entries[j].term <= q.term
      BY <2>1, <2>2, Zenon DEF LinkInv, TermInv
    <2>4. QED
      BY <2>3, Zenon DEF LinkInv, TermInv
  <1>6. QED
    BY <1>2, <1>4, <1>5, CoreStep

\* The peers of a node do not include it.
LEMMA PeersOthers ==
  ASSUME NEW n \in Node
  PROVE  Peers[n] \in Seq(Node \ {n})
  <1>1. Peers[n] \in Seq(Node) /\ {Peers[n][i] : i \in DOMAIN Peers[n]} = Node \ {n}
    BY RaftAssumption
  <1>2. Len(Peers[n]) \in Nat /\ DOMAIN Peers[n] = 1..Len(Peers[n])
    BY <1>1, SeqLen
  <1>3. \A i \in 1..Len(Peers[n]) : Peers[n][i] \in Node \ {n}
    BY <1>1, <1>2
  <1>4. Peers[n] \in [1..Len(Peers[n]) -> Node \ {n}]
    BY <1>1, <1>2, <1>3, SeqLen
  <1>5. Peers[n] \in Seq(Node \ {n})
    BY <1>2, <1>4, SeqDefined
  <1>6. QED
    BY <1>4, <1>5

\* A call of a peer with a heartbeat.
LEMMA HeartbeatSendFacts ==
  ASSUME TypeOK, NEW n \in Node, HeartbeatSend(n)
  PROVE  /\ UNCHANGED <<election, proposal, elected>>
         /\ heartbeat[n].reply = {}
         /\ \A m \in Node \ {n} : heartbeat'[m] = heartbeat[m]
         /\ heartbeat'[n].req = heartbeat[n].req /\ heartbeat'[n].todo = heartbeat[n].todo
         /\ heartbeat'[n].peer = heartbeat[n].peer
         /\ \E p \in heartbeat[n].peer, r \in heartbeat[n].req, a \in Reply :
              Took(p, r, a.ok) /\ a.from = p /\ heartbeat'[n].reply = {a}
  <1>1. PICK p \in heartbeat[n].peer, r \in heartbeat[n].req :
          LET d == Deliver(p, r, OnAppendEntries(node[p], r))
          IN  /\ heartbeat[n].reply = {}
              /\ node' = d.node
              /\ heartbeat' = [heartbeat EXCEPT ![n].reply = {d.reply}]
    BY Zenon DEF HeartbeatSend
  <1> DEFINE h == OnAppendEntries(node[p], r)
             a == Deliver(p, r, h).reply
  <1>2. /\ node \in [Node -> NodeState] /\ heartbeat \in [Node -> HeartbeatState]
        /\ heartbeat[n] \in HeartbeatState
    BY DEF TypeOK
  <1>3. p \in Node /\ r \in AppendReq
    BY <1>1, <1>2 DEF HeartbeatState
  <1>4. h.node \in NodeState /\ h.ok \in BOOLEAN /\ Keeps(node[p], h.node) /\ r.term \in Nat
    BY <1>2, <1>3, AppendFacts DEF AppendReq
  <1>5. node' = Deliver(p, r, h).node /\ heartbeat' = [heartbeat EXCEPT ![n].reply = {a}]
    BY <1>1
  <1> HIDE DEF h
  <1>6. a \in Reply /\ a.from = p
    BY <1>3, <1>4, DeliverFacts
  <1>7. Took(p, r, a.ok)
    BY <1>5, Zenon DEF Took, Deliver, h
  <1> HIDE DEF a
  <1>8. /\ \A m \in Node \ {n} : heartbeat'[m] = heartbeat[m]
        /\ heartbeat'[n].req = heartbeat[n].req /\ heartbeat'[n].todo = heartbeat[n].todo
        /\ heartbeat'[n].peer = heartbeat[n].peer /\ heartbeat'[n].reply = {a}
    BY <1>2, <1>5 DEF HeartbeatState
  <1>9. UNCHANGED <<election, proposal, elected>>
    BY DEF HeartbeatSend
  <1>10. QED
    BY <1>1, <1>6, <1>7, <1>8, <1>9

\* The answers to a heartbeat move indexes, or depose the node.
LEMMA AnswerFacts ==
  ASSUME NEW n \in Node, NEW p \in Node, NEW s \in NodeState, NEW r \in AppendReq
  PROVE  /\ Acknowledged(n, s, p, r).log = s.log /\ Acknowledged(n, s, p, r).term = s.term
         /\ Acknowledged(n, s, p, r).role = s.role
         /\ Backtracked(s, p).log = s.log /\ Backtracked(s, p).term = s.term
         /\ Backtracked(s, p).role = s.role /\ Backtracked(s, p).commit = s.commit
         /\ Backtracked(s, p).match = s.match
  <1> DEFINE last == r.prev + Len(r.entries)
             t == IF r.entries = <<>> THEN s
                  ELSE [s EXCEPT !.match[p] = last, !.next[p] = last + 1]
             u == [t EXCEPT !.commit = MajorityMatch(n, t)]
  <1>1. t.log = s.log /\ t.term = s.term /\ t.role = s.role
    BY DEF NodeState
  <1>2. u.log = t.log /\ u.term = t.term /\ u.role = t.role
    BY DEF NodeState
  <1>3. Acknowledged(n, s, p, r) = u \/ Acknowledged(n, s, p, r) = t
    BY DEF Acknowledged, AdvanceCommitIndex
  <1> HIDE DEF t, u
  <1>4. /\ Backtracked(s, p).log = s.log /\ Backtracked(s, p).term = s.term
        /\ Backtracked(s, p).role = s.role /\ Backtracked(s, p).commit = s.commit
        /\ Backtracked(s, p).match = s.match
    BY DEF Backtracked, NodeState
  <1>5. QED
    BY <1>1, <1>2, <1>3, <1>4

\* A step that keeps all logs and sends nothing new.
LEMMA TameRequests ==
  ASSUME TypeOK, TypeOK', AllKeep, LinkInv, elected' = elected, RolesKeep,
         \A n \in Node : node'[n].log = node[n].log /\ Requests(n)' \subseteq Requests(n)
  PROVE  /\ LinkShape' /\ LinkUnique' /\ LinkDense' /\ OwnerHas' /\ WonInv' /\ TermInv'
         /\ OwnersKeep
  <1>1. OwnersKeep
    BY DEF OwnersKeep
  <1>2. \A i, b, e : IsLink(i, b, e)' => IsLink(i, b, e)
    BY LinksSame
  <1>3. QED
    BY <1>1, <1>2, CoreStep, TermsSame, Zenon DEF LinkInv

\* The answer to a heartbeat.
LEMMA HeartbeatReplyFacts ==
  ASSUME SizeFacts, TypeOK, NEW n \in Node, HeartbeatReply(n)
  PROVE  /\ UNCHANGED <<election, proposal, elected>>
         /\ \A m \in Node \ {n} : heartbeat'[m] = heartbeat[m]
         /\ heartbeat'[n].req = {} /\ heartbeat'[n].peer = {} /\ heartbeat'[n].reply = {}
         /\ heartbeat'[n].todo \in {<<>>, heartbeat[n].todo}
         /\ \E r \in heartbeat[n].req, a \in heartbeat[n].reply, t \in NodeState :
              /\ r \in AppendReq /\ a \in Reply
              /\ node' = [node EXCEPT ![n] = t]
              /\ \/ a.term > node[n].term /\ t = BecomeFollower(node[n], a.term, {})
                 \/ /\ a.term <= node[n].term /\ a.ok
                    /\ t = Acknowledged(n, node[n], a.from, r)
                    /\ node[n].term = r.term \/ "late" \in stray'
                 \/ a.term <= node[n].term /\ ~a.ok /\ t = Backtracked(node[n], a.from)
  <1>1. PICK r \in heartbeat[n].req, a \in heartbeat[n].reply :
          LET s == node[n]
              higher == a.term > s.term
          IN  /\ node' = [node EXCEPT ![n] =
                   IF higher THEN BecomeFollower(s, a.term, {})
                   ELSE IF a.ok THEN Acknowledged(n, s, a.from, r)
                   ELSE Backtracked(s, a.from)]
              /\ heartbeat' = [heartbeat EXCEPT ![n] =
                   IF higher THEN NoHeartbeat
                   ELSE [NoHeartbeat EXCEPT !.todo = heartbeat[n].todo]]
              /\ stray' = stray \cup (IF a.ok /\ ~higher /\ s.term # r.term THEN {"late"} ELSE {})
    BY Zenon DEF HeartbeatReply
  <1> DEFINE s == node[n]
             higher == a.term > s.term
             t == IF higher THEN BecomeFollower(s, a.term, {})
                  ELSE IF a.ok THEN Acknowledged(n, s, a.from, r)
                  ELSE Backtracked(s, a.from)
             h == IF higher THEN NoHeartbeat
                  ELSE [NoHeartbeat EXCEPT !.todo = heartbeat[n].todo]
  <1>2. s \in NodeState /\ heartbeat \in [Node -> HeartbeatState] /\ heartbeat[n] \in HeartbeatState
    BY DEF TypeOK
  <1>3. r \in AppendReq /\ a \in Reply
    BY <1>1, <1>2 DEF HeartbeatState
  <1>4. a.from \in Node /\ a.term \in Nat /\ s.term \in Nat
    BY <1>2, <1>3 DEF Reply, NodeState
  <1>5. t \in NodeState
    BY <1>2, <1>3, <1>4, FollowerFacts, AcknowledgedFacts, BacktrackedFacts
  <1>6. h.req = {} /\ h.peer = {} /\ h.reply = {} /\ h.todo \in {<<>>, heartbeat[n].todo}
    BY DEF NoHeartbeat
  <1>7. heartbeat' = [heartbeat EXCEPT ![n] = h] /\ node' = [node EXCEPT ![n] = t]
    BY <1>1
  <1>8. /\ a.term > s.term => t = BecomeFollower(s, a.term, {})
        /\ ~(a.term > s.term) /\ a.ok =>
             t = Acknowledged(n, s, a.from, r) /\ (s.term = r.term \/ "late" \in stray')
        /\ ~(a.term > s.term) /\ ~a.ok => t = Backtracked(s, a.from)
    BY <1>1
  <1>9. UNCHANGED <<election, proposal, elected>>
    BY DEF HeartbeatReply
  <1> HIDE DEF t, h
  <1>10. heartbeat'[n] = h /\ \A m \in Node \ {n} : heartbeat'[m] = heartbeat[m]
    BY <1>2, <1>7
  <1>11. a.term > s.term \/ a.term <= s.term
    BY <1>4
  <1>12. \/ a.term > s.term /\ t = BecomeFollower(s, a.term, {})
         \/ /\ a.term <= s.term /\ a.ok /\ t = Acknowledged(n, s, a.from, r)
            /\ s.term = r.term \/ "late" \in stray'
         \/ a.term <= s.term /\ ~a.ok /\ t = Backtracked(s, a.from)
    <2>1. CASE a.term > s.term
      BY <1>8, <2>1, Zenon
    <2>2. CASE ~(a.term > s.term) /\ a.ok
      BY <1>8, <1>11, <2>2, Zenon
    <2>3. CASE ~(a.term > s.term) /\ ~a.ok
      BY <1>8, <1>11, <2>3, Zenon
    <2>4. QED
      BY <2>1, <2>2, <2>3, Zenon
  <1>13. QED
    BY <1>1, <1>3, <1>5, <1>6, <1>7, <1>9, <1>10, <1>12, Zenon

\* A step of HeartbeatLoop.
LEMMA HeartbeatLinks ==
  ASSUME SizeFacts, TypeOK, TypeOK', AllKeep, VoteInv, LinkInv, NEW n \in Node, HeartbeatStep(n)
  PROVE  LinkInv'
  <1>1. UNCHANGED <<election, proposal, elected>>
    BY DEF HeartbeatStep, HeartbeatBuild, HeartbeatBreak, HeartbeatSend, HeartbeatReply
  <1>2. /\ node \in [Node -> NodeState] /\ node[n] \in NodeState
        /\ heartbeat \in [Node -> HeartbeatState] /\ heartbeat[n] \in HeartbeatState
    BY DEF TypeOK
  <1>3. ASSUME LinkShape', LinkUnique', LinkDense', OwnerHas', WonInv', TermInv', OwnersKeep,
               \A m \in Node \ {n} : heartbeat'[m] = heartbeat[m],
               heartbeat'[n].peer \subseteq Node \ {n}, heartbeat'[n].todo \in Seq(Node \ {n}),
               \A r \in heartbeat'[n].req : Won(r.term, n),
               \A q, r \in heartbeat'[n].req : q = r
        PROVE  LinkInv'
    <2>1. StageInv'
      BY <1>1, <1>3, StageSame DEF LinkInv
    <2>2. \A t, w : Won(t, w) => Won(t, w)'
      BY <1>1, WonStays
    <2>3. ReqInv'
      <3> SUFFICES ASSUME NEW m \in Node
                   PROVE  /\ heartbeat'[m].peer \subseteq Node \ {m}
                          /\ heartbeat'[m].todo \in Seq(Node \ {m})
                          /\ proposal'[m].todo \in Seq(Node \ {m})
                          /\ \A r \in heartbeat'[m].req : Won(r.term, m)'
                          /\ \A r \in proposal'[m].req : r.entries # <<>> => Won(r.term, m)'
                          /\ \A q, r \in heartbeat'[m].req : q = r
        BY Zenon DEF ReqInv
      <3>1. CASE m = n
        BY <1>1, <1>3, <2>2, <3>1, Zenon DEF LinkInv, ReqInv
      <3>2. CASE m # n
        BY <1>1, <1>3, <2>2, <3>2, Zenon DEF LinkInv, ReqInv
      <3>3. QED
        BY <3>1, <3>2
    <2>4. QED
      BY <1>3, <2>1, <2>3 DEF LinkInv
  <1>4. <<>> \in Seq(Node \ {n})
    BY SeqEmpty
  <1>5. CASE HeartbeatBuild(n)
    <2> DEFINE todo == IF heartbeat[n].todo = <<>> THEN Peers[n] ELSE heartbeat[n].todo
               p == Head(todo)
               r == BuildAppendEntries(n, node[n], p)
               hb == [todo |-> Tail(todo), peer |-> {p}, reply |-> {}, req |-> {r}]
    <2>1. /\ todo # <<>> /\ heartbeat' = [heartbeat EXCEPT ![n] = hb] /\ node' = node
          /\ node[n].role = "leader"
      BY <1>5 DEF HeartbeatBuild
    <2>2. todo \in Seq(Node \ {n})
      BY PeersOthers DEF LinkInv, ReqInv
    <2> HIDE DEF todo
    <2>3. p \in Node \ {n} /\ Tail(todo) \in Seq(Node \ {n})
      BY <2>1, <2>2, SeqHeadTail, Zenon
    <2>4. /\ r \in AppendReq /\ r.term = node[n].term /\ r.prevTerm = TermAt(node[n], r.prev)
          /\ \A j \in DOMAIN r.entries :
               r.prev + j \in DOMAIN node[n].log /\ r.entries[j] = node[n].log[r.prev + j]
      BY <1>2, <2>3, BuildSlice, BuildType
    <2>5. Won(r.term, n)
      BY <2>1, <2>4, Zenon DEF LinkInv, WonInv
    <2> HIDE DEF r, p
    <2>6. heartbeat'[n] = hb /\ \A m \in Node \ {n} : heartbeat'[m] = heartbeat[m]
      BY <1>2, <2>1, Zenon
    <2>7. hb.req = {r} /\ hb.peer = {p} /\ hb.todo = Tail(todo)
      OBVIOUS
    <2> HIDE DEF hb
    <2>8. /\ Requests(n)' \subseteq Requests(n) \cup {r}
          /\ \A m \in Node \ {n} : Requests(m)' = Requests(m)
      BY <1>1, <2>6, <2>7 DEF Requests
    <2>9. /\ LinkShape' /\ LinkUnique' /\ LinkDense' /\ OwnerHas' /\ WonInv' /\ TermInv'
          /\ OwnersKeep
      BY <1>1, <2>1, <2>4, <2>8, BuiltLinks
    <2>10. QED
      BY <1>3, <2>3, <2>5, <2>6, <2>7, <2>9
  <1>6. CASE HeartbeatBreak(n)
    <2>1. heartbeat' = [heartbeat EXCEPT ![n] = NoHeartbeat] /\ node' = node
      BY <1>6 DEF HeartbeatBreak
    <2>2. heartbeat'[n] = NoHeartbeat /\ \A m \in Node \ {n} : heartbeat'[m] = heartbeat[m]
      BY <1>2, <2>1
    <2>3. NoHeartbeat.req = {} /\ NoHeartbeat.peer = {} /\ NoHeartbeat.todo = <<>>
      BY DEF NoHeartbeat
    <2>4. \A m \in Node : node'[m].log = node[m].log /\ Requests(m)' \subseteq Requests(m)
      BY <1>1, <2>1, <2>2, <2>3 DEF Requests
    <2>5. RolesKeep
      BY <2>1 DEF RolesKeep
    <2>6. /\ LinkShape' /\ LinkUnique' /\ LinkDense' /\ OwnerHas' /\ WonInv' /\ TermInv'
          /\ OwnersKeep
      BY <1>1, <2>4, <2>5, TameRequests
    <2>7. QED
      BY <1>3, <1>4, <2>2, <2>3, <2>6
  <1>7. CASE HeartbeatSend(n)
    <2>1. /\ \A m \in Node \ {n} : heartbeat'[m] = heartbeat[m]
          /\ heartbeat'[n].req = heartbeat[n].req /\ heartbeat'[n].todo = heartbeat[n].todo
          /\ heartbeat'[n].peer = heartbeat[n].peer
      BY <1>7, HeartbeatSendFacts, Zenon
    <2>2. PICK p \in heartbeat[n].peer, r \in heartbeat[n].req, a \in Reply : Took(p, r, a.ok)
      BY <1>7, HeartbeatSendFacts
    <2>3. p \in Node \ {n} /\ Won(r.term, n) /\ r \in AppendReq
      BY <1>2, <2>2, Zenon DEF LinkInv, ReqInv, HeartbeatState
    <2>4. r \in Requests(n) /\ \A m \in Node : Requests(m)' = Requests(m)
      BY <1>1, <2>1, <2>2, Zenon DEF Requests
    <2>5. /\ LinkShape' /\ LinkUnique' /\ LinkDense' /\ OwnerHas' /\ WonInv' /\ TermInv'
          /\ OwnersKeep
      BY <1>1, <2>2, <2>3, <2>4, TookLinks
    <2>6. /\ heartbeat'[n].peer \subseteq Node \ {n} /\ heartbeat'[n].todo \in Seq(Node \ {n})
          /\ \A q \in heartbeat'[n].req : Won(q.term, n)
          /\ \A q, s \in heartbeat'[n].req : q = s
      BY <2>1, Zenon DEF LinkInv, ReqInv
    <2>7. QED
      BY <1>3, <2>1, <2>5, <2>6
  <1>8. CASE HeartbeatReply(n)
    <2>1. /\ \A m \in Node \ {n} : heartbeat'[m] = heartbeat[m]
          /\ heartbeat'[n].req = {} /\ heartbeat'[n].peer = {}
          /\ heartbeat'[n].todo \in {<<>>, heartbeat[n].todo}
      BY <1>8, HeartbeatReplyFacts, Zenon
    <2>2. PICK r \in heartbeat[n].req, a \in heartbeat[n].reply, t \in NodeState :
            /\ r \in AppendReq /\ a \in Reply
            /\ node' = [node EXCEPT ![n] = t]
            /\ \/ a.term > node[n].term /\ t = BecomeFollower(node[n], a.term, {})
               \/ t = Acknowledged(n, node[n], a.from, r)
               \/ t = Backtracked(node[n], a.from)
      BY <1>8, HeartbeatReplyFacts
    <2>3. a.from \in Node
      BY <2>2 DEF Reply
    <2>4. /\ t.log = node[n].log
          /\ t.role = "leader" => node[n].role = "leader" /\ t.term = node[n].term
          /\ t.role = "candidate" => t.term > node[n].term \/ node[n].role = "candidate"
      <3>1. CASE t = BecomeFollower(node[n], a.term, {})
        BY <1>2, <3>1 DEF BecomeFollower, NodeState
      <3>2. CASE t = Acknowledged(n, node[n], a.from, r) \/ t = Backtracked(node[n], a.from)
        BY <1>2, <2>2, <2>3, <3>2, AnswerFacts
      <3>3. QED
        BY <2>2, <3>1, <3>2, Zenon
    <2>5. RolesKeep /\ \A m \in Node : node'[m].log = node[m].log
      BY <2>2, <2>4, TameNode, Zenon
    <2>6. \A m \in Node : Requests(m)' \subseteq Requests(m)
      BY <1>1, <2>1 DEF Requests
    <2>7. /\ LinkShape' /\ LinkUnique' /\ LinkDense' /\ OwnerHas' /\ WonInv' /\ TermInv'
          /\ OwnersKeep
      BY <1>1, <2>5, <2>6, TameRequests, Zenon
    <2>8. heartbeat'[n].todo \in Seq(Node \ {n})
      BY <1>4, <2>1, Zenon DEF LinkInv, ReqInv
    <2>9. QED
      BY <1>3, <2>1, <2>7, <2>8
  <1>9. QED
    BY <1>5, <1>6, <1>7, <1>8 DEF HeartbeatStep

\* Terms rise along a log.
LEMMA LogsRise ==
  ASSUME SizeFacts, TypeOK, LinkShape, NEW n \in Node,
         NEW i \in DOMAIN node[n].log, NEW j \in DOMAIN node[n].log, i <= j
  PROVE  node[n].log[i].term <= node[n].log[j].term
  <1> DEFINE log == node[n].log
             T == {d \in Nat : i + d \in DOMAIN log => log[i].term <= log[i + d].term}
  <1>1. node[n] \in NodeState
    BY DEF TypeOK
  <1>2. /\ Len(log) \in Nat /\ DOMAIN log = 1..Len(log)
        /\ \A k \in 1..Len(log) : log[k] \in Entry /\ log[k].term \in Nat
    BY <1>1, LogType
  <1> HIDE DEF log
  <1>3. i \in 1..Len(log) /\ j \in 1..Len(log)
    BY <1>2 DEF log
  <1>4. \A k \in 2..Len(log) : log[k - 1].term <= log[k].term
    <2> SUFFICES ASSUME NEW k \in 2..Len(log) PROVE log[k - 1].term <= log[k].term
      OBVIOUS
    <2>1. k \in DOMAIN log /\ k # 1
      BY <1>2
    <2>2. LogHas(log, k, log[k - 1].term, log[k])
      BY <2>1 DEF LogHas, Before
    <2>3. IsLink(k, log[k - 1].term, log[k])
      BY <2>2 DEF IsLink, log
    <2>4. QED
      BY <2>3 DEF LinkShape
  <1>5. 0 \in T
    BY <1>2, <1>3
  <1>6. ASSUME NEW d \in T PROVE d + 1 \in T
    <2> SUFFICES ASSUME i + (d + 1) \in DOMAIN log
                 PROVE  log[i].term <= log[i + (d + 1)].term
      OBVIOUS
    <2>1. i + d \in 1..Len(log) /\ i + (d + 1) \in 2..Len(log) /\ (i + (d + 1)) - 1 = i + d
      BY <1>2, <1>3
    <2>2. log[i].term <= log[i + d].term
      BY <1>2, <2>1
    <2>3. log[i + d].term <= log[i + (d + 1)].term
      BY <1>4, <2>1
    <2>4. log[i].term \in Nat /\ log[i + d].term \in Nat /\ log[i + (d + 1)].term \in Nat
      BY <1>2, <1>3, <2>1
    <2>5. QED
      BY <2>2, <2>3, <2>4
  <1>7. \A d \in Nat : d \in T
    <2> HIDE DEF T
    <2>1. T \in SUBSET Nat
      BY DEF T
    <2>2. QED
      BY <1>5, <1>6, <2>1, AllNaturals
  <1>8. j - i \in T /\ i + (j - i) = j
    BY <1>3, <1>7
  <1>9. QED
    BY <1>2, <1>3, <1>8 DEF log

\* A new entry goes behind the log of its leader.
LEMMA ProposeFacts ==
  ASSUME TypeOK, NEW n \in Node, Propose(n)
  PROVE  LET e == [term |-> node[n].term, id |-> proposals + 1]
         IN  /\ node[n].role = "leader" /\ proposal[n].at = "idle"
             /\ e \in Entry
             /\ node'[n].log = Append(node[n].log, e)
             /\ node'[n].term = node[n].term /\ node'[n].role = node[n].role
             /\ node'[n].commit = node[n].commit /\ node'[n].match = node[n].match
             /\ node'[n].next = node[n].next
             /\ \A m \in Node \ {n} : node'[m] = node[m] /\ proposal'[m] = proposal[m]
             /\ proposal'[n].at = "appended" /\ proposal'[n].entry = {e}
             /\ proposal'[n].req = {} /\ proposal'[n].todo = <<>>
             /\ UNCHANGED <<election, heartbeat, elected>>
  <1> DEFINE e == [term |-> node[n].term, id |-> proposals + 1]
             s == [node[n] EXCEPT !.log = Append(node[n].log, e)]
             pr == [NoProposal EXCEPT !.at = "appended", !.entry = {e}]
  <1>1. /\ node \in [Node -> NodeState] /\ node[n] \in NodeState
        /\ proposal \in [Node -> ProposalState] /\ proposals \in Nat
    BY DEF TypeOK
  <1>2. e \in Entry
    BY <1>1 DEF Entry, NodeState
  <1>3. node' = [node EXCEPT ![n] = s] /\ proposal' = [proposal EXCEPT ![n] = pr]
    BY DEF Propose
  <1>4. /\ s.log = Append(node[n].log, e) /\ s.term = node[n].term /\ s.role = node[n].role
        /\ s.commit = node[n].commit /\ s.match = node[n].match /\ s.next = node[n].next
    BY <1>1 DEF NodeState
  <1>5. pr.at = "appended" /\ pr.entry = {e} /\ pr.req = {} /\ pr.todo = <<>>
    BY DEF NoProposal
  <1> HIDE DEF s, pr
  <1>6. /\ node'[n] = s /\ proposal'[n] = pr
        /\ \A m \in Node \ {n} : node'[m] = node[m] /\ proposal'[m] = proposal[m]
    BY <1>1, <1>3
  <1>7. /\ node[n].role = "leader" /\ proposal[n].at = "idle"
        /\ UNCHANGED <<election, heartbeat, elected>>
    BY DEF Propose
  <1>8. QED
    BY <1>2, <1>4, <1>5, <1>6, <1>7, Zenon

\* The first lock section of a proposal.
LEMMA ProposeLinks ==
  ASSUME SizeFacts, TypeOK, TypeOK', AllKeep, VoteInv, LinkInv, NEW n \in Node, Propose(n)
  PROVE  LinkInv'
  <1> DEFINE e == [term |-> node[n].term, id |-> proposals + 1]
             log == node[n].log
             k == Len(log) + 1
             T == node[n].term
             new == Append(log, e)
             c == Before(new, k)
  <1>1. /\ node[n].role = "leader" /\ e \in Entry /\ e.term = T
        /\ node'[n].log = new /\ node'[n].term = T /\ node'[n].role = node[n].role
        /\ \A m \in Node \ {n} : node'[m] = node[m] /\ proposal'[m] = proposal[m]
        /\ proposal'[n].at = "appended" /\ proposal'[n].entry = {e}
        /\ proposal'[n].req = {} /\ proposal'[n].todo = <<>>
        /\ UNCHANGED <<election, heartbeat, elected>>
    BY ProposeFacts, Zenon
  <1> HIDE DEF e
  <1>2. node[n] \in NodeState /\ T \in Nat
    BY Zenon DEF TypeOK, NodeState
  <1>3. /\ log \in Seq(Entry) /\ Len(log) \in Nat /\ DOMAIN log = 1..Len(log)
        /\ \A i \in 1..Len(log) : log[i] \in Entry /\ log[i].term \in Nat
    BY <1>2, LogType
  <1>4. /\ new \in Seq(Entry) /\ Len(new) = k /\ DOMAIN new = 1..k
        /\ \A i \in 1..Len(log) : new[i] = log[i]
        /\ new[k] = e
    BY <1>1, <1>3, SeqAppend, SeqLen
  <1>5. Won(T, n)
    BY <1>1 DEF LinkInv, WonInv
  <1>6. \A t, w : Won(t, w)' <=> Won(t, w)
    BY <1>1 DEF Won
  <1> HIDE DEF log, new, T
  <1>7. \A i, b, x : LogHas(new, i, b, x) =>
          LogHas(log, i, b, x) \/ (i = k /\ b = c /\ x = e)
    <2> SUFFICES ASSUME NEW i, NEW b, NEW x, LogHas(new, i, b, x), i # k
                 PROVE  LogHas(log, i, b, x)
      BY <1>4 DEF LogHas
    <2>1. i \in 1..Len(log) /\ x = new[i] /\ b = Before(new, i)
      BY <1>3, <1>4 DEF LogHas
    <2>2. x = log[i]
      BY <1>4, <2>1
    <2>3. b = Before(log, i)
      <3>1. CASE i = 1
        BY <2>1, <3>1 DEF Before
      <3>2. CASE i # 1
        <4>1. i - 1 \in 1..Len(log)
          BY <1>3, <2>1, <3>2
        <4>2. QED
          BY <1>4, <2>1, <3>2, <4>1 DEF Before
      <3>3. QED
        BY <3>1, <3>2
    <2>4. QED
      BY <1>3, <2>1, <2>2, <2>3 DEF LogHas
  <1>8. \A m \in Node : Requests(m)' \subseteq Requests(m)
    BY <1>1 DEF Requests
  <1>9. \A i, b, x : IsLink(i, b, x)' => IsLink(i, b, x) \/ (i = k /\ b = c /\ x = e)
    <2> SUFFICES ASSUME NEW i, NEW b, NEW x, IsLink(i, b, x)', ~IsLink(i, b, x)
                 PROVE  i = k /\ b = c /\ x = e
      OBVIOUS
    <2>1. PICK m \in Node : \/ LogHas(node'[m].log, i, b, x)
                            \/ \E r \in Requests(m)' : ReqHas(r, i, b, x)
      BY Zenon DEF IsLink
    <2>2. LogHas(node'[m].log, i, b, x)
      BY <1>8, <2>1 DEF IsLink
    <2>3. m = n
      BY <1>1, <2>2 DEF IsLink
    <2>4. ~LogHas(log, i, b, x)
      BY Zenon DEF IsLink, log
    <2>5. QED
      BY <1>1, <1>7, <2>2, <2>3, <2>4, Zenon
  <1>10. \A i, b, x : IsLink(i, b, x) /\ x.term = T => LogHas(log, i, b, x) /\ i \in 1..Len(log)
    <2>1. OwnerHas
      BY DEF LinkInv
    <2>2. QED
      BY <1>3, <1>5, <2>1 DEF OwnerHas, LogHas, T, log
  <1>11. c \in Nat /\ c <= T
    <2>1. CASE k = 1
      BY <1>2, <2>1 DEF Before
    <2>2. CASE k # 1
      <3>1. k - 1 = Len(log) /\ Len(log) \in 1..Len(log)
        BY <1>3, <2>2
      <3>2. c = log[Len(log)].term
        BY <1>4, <2>2, <3>1 DEF Before
      <3>3. QED
        BY <1>3, <3>1, <3>2 DEF LinkInv, TermInv, T, log
    <2>3. QED
      BY <2>1, <2>2
  <1>12. LinkShape'
    <2>1. LinkShape
      BY DEF LinkInv
    <2>2. k \in Nat /\ k >= 1
      BY <1>3
    <2>3. QED
      BY <1>1, <1>5, <1>6, <1>9, <1>11, <2>1, <2>2 DEF LinkShape
  <1>13. LinkUnique'
    <2>1. LinkUnique
      BY DEF LinkInv
    <2>2. \A b, x : IsLink(k, b, x) => x.term # T
      <3>1. k \notin 1..Len(log)
        BY <1>3
      <3>2. QED
        BY <1>10, <3>1
    <2>3. QED
      BY <1>1, <1>9, <2>1, <2>2 DEF LinkUnique
  <1>14. LinkDense'
    <2> SUFFICES ASSUME NEW i, NEW b, NEW x, NEW j, NEW d, NEW y,
                        IsLink(i, b, x)', IsLink(j, d, y)', x.term = y.term, i < j
                 PROVE  d = y.term
      BY DEF LinkDense
    <2>1. CASE IsLink(i, b, x) /\ IsLink(j, d, y)
      BY <2>1 DEF LinkInv, LinkDense
    <2>2. CASE IsLink(i, b, x) /\ j = k /\ d = c /\ y = e
      <3>1. LogHas(log, i, b, x) /\ i \in 1..Len(log) /\ x.term = T
        BY <1>1, <1>10, <2>2, Zenon
      <3>2. Len(log) \in 1..Len(log) /\ i <= Len(log) /\ k # 1 /\ k - 1 = Len(log)
        BY <1>3, <3>1
      <3>3. c = log[Len(log)].term
        BY <1>4, <3>2 DEF Before
      <3>4. log[i].term <= log[Len(log)].term
        BY <1>3, <3>1, <3>2, LogsRise DEF LinkInv, log
      <3>5. log[i].term = T
        BY <3>1 DEF LogHas
      <3>6. QED
        BY <1>1, <1>2, <1>11, <2>2, <3>3, <3>4, <3>5
    <2>3. CASE i = k /\ x = e
      <3>1. CASE IsLink(j, d, y)
        <4>1. j \in 1..Len(log)
          BY <1>1, <1>10, <2>3, <3>1, Zenon
        <4>2. QED
          BY <1>3, <2>3, <4>1
      <3>2. CASE j = k
        BY <1>3, <2>3, <3>2
      <3>3. QED
        BY <1>9, <3>1, <3>2
    <2>4. QED
      BY <1>9, <2>1, <2>2, <2>3
  <1>15. \A i, b, x : LogHas(log, i, b, x) => LogHas(new, i, b, x)
    <2> SUFFICES ASSUME NEW i, NEW b, NEW x, LogHas(log, i, b, x) PROVE LogHas(new, i, b, x)
      OBVIOUS
    <2>1. i \in 1..Len(log) /\ i \in 1..k
      BY <1>3 DEF LogHas
    <2>2. CASE i = 1
      BY <1>4, <2>1, <2>2 DEF LogHas, Before
    <2>3. CASE i # 1
      <3>1. i - 1 \in 1..Len(log)
        BY <1>3, <2>1, <2>3
      <3>2. QED
        BY <1>4, <2>1, <2>3, <3>1 DEF LogHas, Before
    <2>4. QED
      BY <2>2, <2>3
  <1>16. OwnerHas'
    <2> SUFFICES ASSUME NEW m \in Node, Won(node'[m].term, m),
                        NEW i, NEW b, NEW x, IsLink(i, b, x)', x.term = node'[m].term
                 PROVE  LogHas(node'[m].log, i, b, x)
      BY <1>6, Zenon DEF OwnerHas
    <2>1. node'[m].term = node[m].term
      BY <1>1 DEF T
    <2>2. CASE IsLink(i, b, x)
      <3>1. LogHas(node[m].log, i, b, x)
        BY <2>1, <2>2, Zenon DEF LinkInv, OwnerHas
      <3>2. QED
        BY <1>1, <1>15, <3>1 DEF log
    <2>3. CASE i = k /\ b = c /\ x = e
      <3>1. m = n
        BY <1>1, <1>5, <2>3, OneOwner
      <3>2. k \in 1..k
        BY <1>3
      <3>3. LogHas(new, k, c, e)
        BY <1>4, <3>2 DEF LogHas
      <3>4. QED
        BY <1>1, <2>3, <3>1, <3>3, Zenon
    <2>4. QED
      BY <1>9, <2>2, <2>3
  <1>17. WonInv'
    <2>1. \A m \in Node : node'[m].role = node[m].role /\ node'[m].term = node[m].term
      BY <1>1, Zenon DEF T
    <2>2. QED
      BY <1>6, <2>1 DEF LinkInv, WonInv
  <1>18. TermInv'
    <2>1. ASSUME NEW m \in Node, NEW i \in DOMAIN node'[m].log
          PROVE  node'[m].log[i].term <= node'[m].term
      <3>1. CASE m # n
        BY <1>1, <2>1, <3>1 DEF LinkInv, TermInv
      <3>2. CASE m = n /\ i = k
        BY <1>1, <1>2, <1>4, <3>2
      <3>3. CASE m = n /\ i # k
        <4>1. i \in 1..Len(log)
          BY <1>1, <1>3, <1>4, <2>1, <3>3
        <4>2. log[i].term <= T
          BY <1>3, <4>1 DEF LinkInv, TermInv, log, T
        <4>3. QED
          BY <1>1, <1>4, <3>3, <4>1, <4>2
      <3>4. QED
        BY <3>1, <3>2, <3>3
    <2>2. QED
      BY <1>8, <2>1 DEF LinkInv, TermInv
  <1>19. StageInv'
    <2>1. ASSUME NEW m \in Node, m # n
          PROVE  /\ proposal'[m].at \in {"idle", "appended", "commit"} => proposal'[m].req = {}
                 /\ proposal'[m].at = "announce" => \A r \in proposal'[m].req : r.entries = <<>>
                 /\ proposal'[m].at = "appended" => \A x \in proposal'[m].entry :
                      /\ Won(x.term, m)'
                      /\ node'[m].term = x.term =>
                           Len(node'[m].log) > 0 /\ node'[m].log[Len(node'[m].log)] = x
      BY <1>1, <1>6, <2>1 DEF LinkInv, StageInv
    <2>2. k > 0
      BY <1>3
    <2>3. \A x \in proposal'[n].entry :
            Won(x.term, n)' /\ Len(node'[n].log) > 0 /\ node'[n].log[Len(node'[n].log)] = x
      BY <1>1, <1>4, <1>5, <1>6, <2>2, Zenon
    <2>4. QED
      BY <1>1, <2>1, <2>3, Zenon DEF StageInv
  <1>20. ReqInv'
    <2>1. proposal'[n].todo \in Seq(Node \ {n})
      BY <1>1, SeqEmpty
    <2>2. QED
      BY <1>1, <1>6, <2>1, Zenon DEF LinkInv, ReqInv
  <1>21. QED
    BY <1>12, <1>13, <1>14, <1>16, <1>17, <1>18, <1>19, <1>20 DEF LinkInv

\* A call of a peer by a proposal.
LEMMA ProposeSendFacts ==
  ASSUME TypeOK, NEW n \in Node, ProposeSend(n)
  PROVE  /\ UNCHANGED <<election, heartbeat, elected>>
         /\ \A m \in Node \ {n} : proposal'[m] = proposal[m]
         /\ proposal'[n].at = proposal[n].at /\ proposal'[n].req = proposal[n].req
         /\ proposal'[n].entry = proposal[n].entry /\ proposal'[n].acks = proposal[n].acks
         /\ proposal[n].todo # <<>> /\ proposal'[n].todo = Tail(proposal[n].todo)
         /\ proposal[n].reply = {}
         /\ \E r \in proposal[n].req, a \in Reply :
              /\ r \in AppendReq
              /\ Took(Head(proposal[n].todo), r, a.ok)
              /\ a.from = Head(proposal[n].todo) /\ proposal'[n].reply = {a}
  <1> DEFINE p == Head(proposal[n].todo)
  <1>1. PICK r \in proposal[n].req :
          LET d == Deliver(p, r, OnAppendEntries(node[p], r))
          IN  /\ proposal[n].reply = {}
              /\ proposal[n].todo # <<>>
              /\ node' = d.node
              /\ proposal' = [proposal EXCEPT ![n].todo = Tail(@), ![n].reply = {d.reply}]
    BY Zenon DEF ProposeSend
  <1> DEFINE h == OnAppendEntries(node[p], r)
             a == Deliver(p, r, h).reply
             pr == [proposal[n] EXCEPT !.todo = Tail(proposal[n].todo), !.reply = {a}]
  <1>2. /\ node \in [Node -> NodeState] /\ proposal \in [Node -> ProposalState]
        /\ proposal[n] \in ProposalState
    BY DEF TypeOK
  <1>3. proposal[n].todo \in Seq(Node) /\ r \in AppendReq
    BY <1>1, <1>2 DEF ProposalState
  <1>4. p \in Node
    BY <1>1, <1>3, SeqHeadTail
  <1>5. h.node \in NodeState /\ h.ok \in BOOLEAN /\ Keeps(node[p], h.node) /\ r.term \in Nat
    BY <1>2, <1>3, <1>4, AppendFacts, Zenon DEF AppendReq
  <1>6. node' = Deliver(p, r, h).node
    BY <1>1
  <1>7. proposal' = [proposal EXCEPT ![n] = pr]
    <2>1. proposal' = [proposal EXCEPT ![n].todo = Tail(@), ![n].reply = {a}]
      BY <1>1
    <2> HIDE DEF a
    <2>2. QED
      BY <1>2, <2>1, Zenon
  <1> HIDE DEF h
  <1>8. a \in Reply /\ a.from = p
    BY <1>4, <1>5, DeliverFacts, Zenon
  <1>9. Took(p, r, a.ok)
    BY <1>6, Zenon DEF Took, Deliver, h
  <1> HIDE DEF a
  <1>10. /\ pr.at = proposal[n].at /\ pr.req = proposal[n].req /\ pr.todo = Tail(proposal[n].todo)
         /\ pr.entry = proposal[n].entry /\ pr.acks = proposal[n].acks /\ pr.reply = {a}
    BY <1>2 DEF ProposalState
  <1> HIDE DEF pr
  <1>11. proposal'[n] = pr /\ \A m \in Node \ {n} : proposal'[m] = proposal[m]
    BY <1>2, <1>7
  <1>12. UNCHANGED <<election, heartbeat, elected>>
    BY DEF ProposeSend
  <1>13. QED
    BY <1>1, <1>3, <1>8, <1>9, <1>10, <1>11, <1>12, Zenon

\* The answers to a proposal: it goes on, ends or comes to its commit.
LEMMA ProposalReplyFacts ==
  ASSUME TypeOK, NEW n \in Node, ProposeReply(n) \/ AnnounceReply(n)
  PROVE  /\ UNCHANGED <<election, heartbeat, elected>>
         /\ \A m \in Node \ {n} : proposal'[m] = proposal[m]
         /\ \/ proposal'[n].req = {} /\ proposal'[n].todo = <<>> /\ proposal'[n].at \in {"idle", "commit"}
            \/ /\ proposal'[n].req = proposal[n].req /\ proposal'[n].todo = proposal[n].todo
               /\ proposal'[n].at = proposal[n].at /\ proposal[n].at \in {"replicate", "announce"}
         /\ \/ node' = node
            \/ \E t \in Nat : /\ t > node[n].term
                              /\ node' = [node EXCEPT ![n] = BecomeFollower(node[n], t, {})]
  <1>1. /\ node \in [Node -> NodeState] /\ proposal \in [Node -> ProposalState]
        /\ proposal[n] \in ProposalState
    BY DEF TypeOK
  <1>2. /\ NoProposal.req = {} /\ NoProposal.todo = <<>> /\ NoProposal.at = "idle"
    BY DEF NoProposal
  <1>3. CASE ProposeReply(n)
    <2>1. PICK a \in proposal[n].reply :
            LET s == node[n]
                leads == s.role = "leader"
                higher == leads /\ a.term > s.term
                acks == proposal[n].acks \cup (IF a.ok THEN {a.from} ELSE {})
            IN  /\ proposal[n].at = "replicate"
                /\ node' = IF higher THEN [node EXCEPT ![n] = BecomeFollower(s, a.term, {})]
                           ELSE node
                /\ proposal' = [proposal EXCEPT ![n] =
                     IF ~leads \/ higher THEN NoProposal
                     ELSE IF Majority(acks) THEN [NoProposal EXCEPT !.at = "commit"]
                     ELSE IF @.todo = <<>> THEN NoProposal
                     ELSE [@ EXCEPT !.acks = acks, !.reply = {}]]
      BY <1>3, Zenon DEF ProposeReply
    <2> DEFINE acks == proposal[n].acks \cup (IF a.ok THEN {a.from} ELSE {})
               more == [proposal[n] EXCEPT !.acks = acks, !.reply = {}]
               done == [NoProposal EXCEPT !.at = "commit"]
    <2>2. proposal'[n] \in {NoProposal, done, more} /\ \A m \in Node \ {n} : proposal'[m] = proposal[m]
      BY <1>1, <2>1
    <2>3. done.req = {} /\ done.todo = <<>> /\ done.at = "commit"
      BY DEF NoProposal
    <2>4. more.req = proposal[n].req /\ more.todo = proposal[n].todo /\ more.at = proposal[n].at
      BY <1>1 DEF ProposalState
    <2>5. a.term \in Nat
      BY <1>1, <2>1 DEF ProposalState, Reply
    <2>6. \/ node' = node
          \/ a.term > node[n].term /\ node' = [node EXCEPT ![n] = BecomeFollower(node[n], a.term, {})]
      BY <2>1
    <2>7. UNCHANGED <<election, heartbeat, elected>> /\ proposal[n].at = "replicate"
      BY <1>3, Zenon DEF ProposeReply
    <2> HIDE DEF more, done
    <2>8. QED
      BY <1>2, <2>2, <2>3, <2>4, <2>5, <2>6, <2>7
  <1>4. CASE AnnounceReply(n)
    <2>1. PICK a \in proposal[n].reply :
            LET higher == a.term > node[n].term
            IN  /\ node' = IF higher THEN [node EXCEPT ![n] = BecomeFollower(node[n], a.term, {})]
                           ELSE node
                /\ proposal' = [proposal EXCEPT ![n] =
                     IF higher \/ @.todo = <<>> THEN NoProposal ELSE [@ EXCEPT !.reply = {}]]
      BY <1>4, Zenon DEF AnnounceReply
    <2> DEFINE more == [proposal[n] EXCEPT !.reply = {}]
    <2>2. proposal'[n] \in {NoProposal, more} /\ \A m \in Node \ {n} : proposal'[m] = proposal[m]
      BY <1>1, <2>1
    <2>4. more.req = proposal[n].req /\ more.todo = proposal[n].todo /\ more.at = proposal[n].at
      BY <1>1 DEF ProposalState
    <2>5. a.term \in Nat
      BY <1>1, <2>1 DEF ProposalState, Reply
    <2>6. \/ node' = node
          \/ a.term > node[n].term /\ node' = [node EXCEPT ![n] = BecomeFollower(node[n], a.term, {})]
      BY <2>1
    <2>7. UNCHANGED <<election, heartbeat, elected>> /\ proposal[n].at = "announce"
      BY <1>4 DEF AnnounceReply
    <2> HIDE DEF more
    <2>8. QED
      BY <1>2, <2>2, <2>4, <2>5, <2>6, <2>7, Zenon
  <1>5. QED
    BY <1>3, <1>4, Zenon

\* What a proposal of a node that still leads sends is the last entry of the log, and
\* its last round of calls carries no entry.
LEMMA ProposalBuildFacts ==
  ASSUME TypeInv, StageInv, NEW n \in Node,
         (ProposeBuild(n) /\ "deposed" \notin stray') \/ ProposeCommit(n)
  PROVE  /\ UNCHANGED <<node, election, heartbeat, elected>>
         /\ \A m \in Node \ {n} : proposal'[m] = proposal[m]
         /\ proposal'[n].todo = Peers[n] /\ proposal'[n].reply = {}
         /\ \E r \in AppendReq :
              /\ proposal'[n].req = {r}
              /\ r.term = node[n].term /\ r.leader = n /\ r.prevTerm = TermAt(node[n], r.prev)
              /\ \A j \in DOMAIN r.entries :
                   r.prev + j \in DOMAIN node[n].log /\ r.entries[j] = node[n].log[r.prev + j]
              /\ Last(r) = Len(node[n].log)
              /\ \/ /\ proposal'[n].at = "replicate" /\ proposal[n].at = "appended"
                    /\ node[n].role = "leader" /\ r.commit = 0
                    /\ proposal'[n].acks = {n} /\ Len(r.entries) = 1
                 \/ /\ proposal'[n].at = "announce" /\ r.entries = <<>>
                    /\ r.commit = node[n].commit
  <1> DEFINE s == node[n]
  <1>1. /\ TypeOK /\ s \in NodeState /\ proposal \in [Node -> ProposalState]
        /\ proposal[n] \in ProposalState /\ s.term \in Nat /\ s.commit \in Nat
    BY Zenon DEF TypeInv, TypeOK, NodeState
  <1>2. /\ Len(s.log) \in Nat /\ DOMAIN s.log = 1..Len(s.log)
    BY <1>1, LogType, Zenon
  <1>3. CASE ProposeBuild(n) /\ "deposed" \notin stray'
    <2>1. PICK e \in proposal[n].entry :
            LET prev == Len(s.log) - 1
            IN  /\ proposal[n].at = "appended"
                /\ proposal' = [proposal EXCEPT ![n] =
                     [at |-> "replicate", entry |-> {e}, todo |-> Peers[n], acks |-> {n},
                      req |-> {[term |-> s.term, leader |-> n, prev |-> prev,
                                prevTerm |-> TermAt(s, prev), entries |-> <<e>>, commit |-> 0]},
                      reply |-> {}]]
                /\ stray' = stray
                     \cup (IF s.role # "leader" \/ s.log[Len(s.log)] # e THEN {"deposed"} ELSE {})
                     \cup (IF s.term # e.term THEN {"reread"} ELSE {})
      BY <1>3, Zenon DEF ProposeBuild
    <2> DEFINE prev == Len(s.log) - 1
               r == [term |-> s.term, leader |-> n, prev |-> prev,
                     prevTerm |-> TermAt(s, prev), entries |-> <<e>>, commit |-> 0]
               pr == [at |-> "replicate", entry |-> {e}, todo |-> Peers[n], acks |-> {n},
                      req |-> {r}, reply |-> {}]
    <2>2. s.role = "leader" /\ s.log[Len(s.log)] = e
      BY <1>3, <2>1, Zenon
    <2>3. Len(s.log) > 0 /\ s.log[Len(s.log)] = e
      <3>1. s.log # <<>> /\ s.log \in Seq(Entry)
        BY <1>1, <2>1, Zenon DEF TypeInv, NodeState
      <3>2. QED
        BY <1>2, <2>2, <3>1, SeqEmpty
    <2>4. prev \in Nat /\ prev + 1 = Len(s.log) /\ Len(s.log) \in 1..Len(s.log)
      BY <1>2, <2>3
    <2>5. e \in Entry /\ proposal[n].entry \subseteq Entry
      BY <1>1, <2>1, Zenon DEF ProposalState
    <2>6. <<e>> \in Seq(Entry) /\ Len(<<e>>) = 1 /\ <<e>>[1] = e /\ DOMAIN <<e>> = {1}
      BY <2>5
    <2>7. TermAt(s, prev) \in Nat
      BY <1>1, TermAtType
    <2>8. r \in AppendReq
      BY <1>1, <2>4, <2>6, <2>7, Zenon DEF AppendReq
    <2>9. /\ r.term = s.term /\ r.leader = n /\ r.prevTerm = TermAt(s, r.prev)
          /\ r.prev = prev /\ r.commit = 0 /\ r.entries = <<e>>
      BY Zenon
    <2>10. proposal'[n] = pr /\ \A m \in Node \ {n} : proposal'[m] = proposal[m]
      BY <1>1, <2>1, Zenon
    <2>11. /\ pr.at = "replicate" /\ pr.todo = Peers[n] /\ pr.reply = {} /\ pr.acks = {n}
           /\ pr.req = {r} /\ pr.entry = {e}
      BY Zenon
    <2> HIDE DEF r, pr, prev
    <2>12. \A j \in DOMAIN r.entries :
             r.prev + j \in DOMAIN s.log /\ r.entries[j] = s.log[r.prev + j]
      BY <1>2, <2>3, <2>4, <2>6, <2>9, Zenon
    <2>13. Last(r) = Len(s.log) /\ Len(r.entries) = 1
      BY <2>4, <2>6, <2>9 DEF Last
    <2>14. UNCHANGED <<node, election, heartbeat, elected>> /\ proposal[n].at = "appended"
      BY <1>3, Zenon DEF ProposeBuild
    <2>15. QED
      BY <2>2, <2>8, <2>9, <2>10, <2>11, <2>12, <2>13, <2>14, Zenon
  <1>4. CASE ProposeCommit(n)
    <2> DEFINE last == Len(s.log)
               r == [term |-> s.term, leader |-> n, prev |-> last,
                     prevTerm |-> TermAt(s, last), entries |-> <<>>, commit |-> s.commit]
               pr == [NoProposal EXCEPT !.at = "announce", !.todo = Peers[n], !.req = {r}]
    <2>1. proposal' = [proposal EXCEPT ![n] = pr]
      BY <1>4 DEF ProposeCommit
    <2>2. TermAt(s, last) \in Nat /\ <<>> \in Seq(Entry)
      BY <1>1, TermAtType, SeqEmpty
    <2>3. r \in AppendReq
      BY <1>1, <1>2, <2>2, Zenon DEF AppendReq
    <2>4. /\ r.term = s.term /\ r.leader = n /\ r.prevTerm = TermAt(s, r.prev)
          /\ r.prev = Len(s.log) /\ r.commit = s.commit /\ r.entries = <<>>
      OBVIOUS
    <2> HIDE DEF r
    <2>5. pr.at = "announce" /\ pr.todo = Peers[n] /\ pr.reply = {} /\ pr.req = {r}
      BY DEF NoProposal
    <2> HIDE DEF pr
    <2>6. proposal'[n] = pr /\ \A m \in Node \ {n} : proposal'[m] = proposal[m]
      BY <1>1, <2>1
    <2>7. Len(<<>>) = 0 /\ \A j \in DOMAIN <<>> : FALSE
      BY SeqEmpty
    <2>8. Last(r) = Len(s.log)
      BY <1>2, <2>4, <2>7 DEF Last
    <2>9. UNCHANGED <<node, election, heartbeat, elected>>
      BY <1>4 DEF ProposeCommit
    <2>10. QED
      BY <2>3, <2>4, <2>5, <2>6, <2>7, <2>8, <2>9, Zenon
  <1>5. QED
    BY <1>3, <1>4, Zenon

\* A step of a proposal keeps its stages and requests right.
LEMMA ProposalFrame ==
  ASSUME TypeOK, TypeOK', AllKeep, LinkInv, UNCHANGED <<heartbeat, elected>>,
         LinkShape', LinkUnique', LinkDense', OwnerHas', WonInv', TermInv', OwnersKeep,
         NEW n \in Node, \A m \in Node \ {n} : proposal'[m] = proposal[m],
         proposal'[n].at # "appended", proposal'[n].todo \in Seq(Node \ {n}),
         proposal'[n].at \in {"idle", "commit"} => proposal'[n].req = {},
         proposal'[n].at = "announce" => \A r \in proposal'[n].req : r.entries = <<>>,
         \A r \in proposal'[n].req : r.entries # <<>> => Won(r.term, n)
  PROVE  LinkInv'
  <1>1. \A t, w : Won(t, w)' <=> Won(t, w)
    BY DEF Won
  <1>2. ReqInv'
    <2> SUFFICES ASSUME NEW m \in Node
                 PROVE  /\ heartbeat'[m].peer \subseteq Node \ {m}
                        /\ heartbeat'[m].todo \in Seq(Node \ {m})
                        /\ proposal'[m].todo \in Seq(Node \ {m})
                        /\ \A r \in heartbeat'[m].req : Won(r.term, m)'
                        /\ \A r \in proposal'[m].req : r.entries # <<>> => Won(r.term, m)'
                        /\ \A q, r \in heartbeat'[m].req : q = r
      BY Zenon DEF ReqInv
    <2>1. heartbeat' = heartbeat
      OBVIOUS
    <2>2. /\ heartbeat[m].peer \subseteq Node \ {m} /\ heartbeat[m].todo \in Seq(Node \ {m})
          /\ proposal[m].todo \in Seq(Node \ {m})
          /\ \A r \in heartbeat[m].req : Won(r.term, m)
          /\ \A r \in proposal[m].req : r.entries # <<>> => Won(r.term, m)
          /\ \A q, r \in heartbeat[m].req : q = r
      BY Zenon DEF LinkInv, ReqInv
    <2>3. /\ proposal'[m].todo \in Seq(Node \ {m})
          /\ \A r \in proposal'[m].req : r.entries # <<>> => Won(r.term, m)
      <3>1. CASE m = n
        BY <3>1
      <3>2. CASE m # n
        BY <2>2, <3>2
      <3>3. QED
        BY <3>1, <3>2
    <2>4. QED
      BY <1>1, <2>1, <2>2, <2>3, Zenon
  <1>3. StageInv'
    <2> SUFFICES ASSUME NEW m \in Node
                 PROVE  /\ proposal'[m].at \in {"idle", "appended", "commit"} => proposal'[m].req = {}
                        /\ proposal'[m].at = "announce" => \A r \in proposal'[m].req : r.entries = <<>>
                        /\ proposal'[m].at = "appended" => \A x \in proposal'[m].entry :
                             /\ Won(x.term, m)'
                             /\ node'[m].term = x.term =>
                                  Len(node'[m].log) > 0 /\ node'[m].log[Len(node'[m].log)] = x
      BY Zenon DEF StageInv
    <2>1. CASE m = n
      BY <2>1, Zenon
    <2>2. CASE m # n
      <3>1. proposal'[m] = proposal[m] /\ StageInv
        BY <2>2, Zenon DEF LinkInv
      <3>2. ASSUME proposal'[m].at = "appended", NEW x \in proposal'[m].entry
            PROVE  /\ Won(x.term, m)'
                   /\ node'[m].term = x.term =>
                        Len(node'[m].log) > 0 /\ node'[m].log[Len(node'[m].log)] = x
        <4>1. Won(x.term, m) /\ Won(x.term, m)'
          BY <1>1, <3>1, <3>2, Zenon DEF StageInv
        <4>2. ASSUME node'[m].term = x.term
              PROVE  Len(node'[m].log) > 0 /\ node'[m].log[Len(node'[m].log)] = x
          <5>1. Won(node[m].term, m)'
            BY <4>1, <4>2, Zenon
          <5>2. node'[m].term = node[m].term /\ Won(node[m].term, m)
            BY <5>1, OwnerStays, Zenon DEF LinkInv
          <5>3. node'[m].log = node[m].log
            BY <5>2 DEF OwnersKeep
          <5>4. QED
            <6>1. proposal[m].at = "appended" /\ x \in proposal[m].entry /\ node[m].term = x.term
              BY <3>1, <3>2, <4>2, <5>2
            <6>2. Len(node[m].log) > 0 /\ node[m].log[Len(node[m].log)] = x
              BY <3>1, <6>1, Zenon DEF StageInv
            <6>3. QED
              BY <5>3, <6>2, Zenon
        <4>3. QED
          BY <4>1, <4>2, Zenon
      <3>3. QED
        BY <3>1, <3>2, Zenon DEF StageInv
    <2>3. QED
      BY <2>1, <2>2, Zenon
  <1>4. QED
    BY <1>2, <1>3 DEF LinkInv

\* A step of a proposal under way.
LEMMA ProposalLinks ==
  ASSUME SizeFacts, TypeInv, TypeOK', AllKeep, VoteInv, LinkInv, NEW n \in Node, ProposeStep(n),
         "deposed" \notin stray'
  PROVE  LinkInv'
  <1>1. /\ TypeOK /\ node[n] \in NodeState /\ proposal[n] \in ProposalState
    BY Zenon DEF TypeInv, TypeOK
  <1>2. StageInv /\ ReqInv /\ <<>> \in Seq(Node \ {n}) /\ Peers[n] \in Seq(Node \ {n})
    BY PeersOthers, SeqEmpty DEF LinkInv
  <1>3. CASE ProposeBuild(n) \/ ProposeCommit(n)
    <2>1. /\ UNCHANGED <<node, election, heartbeat, elected>>
          /\ \A m \in Node \ {n} : proposal'[m] = proposal[m]
          /\ proposal'[n].todo = Peers[n]
      BY <1>2, <1>3, ProposalBuildFacts, Zenon
    <2>2. PICK r \in AppendReq :
            /\ proposal'[n].req = {r}
            /\ r.term = node[n].term /\ r.leader = n /\ r.prevTerm = TermAt(node[n], r.prev)
            /\ \A j \in DOMAIN r.entries :
                 r.prev + j \in DOMAIN node[n].log /\ r.entries[j] = node[n].log[r.prev + j]
            /\ Last(r) = Len(node[n].log)
            /\ \/ /\ proposal'[n].at = "replicate" /\ proposal[n].at = "appended"
                  /\ node[n].role = "leader" /\ r.commit = 0
                  /\ proposal'[n].acks = {n} /\ Len(r.entries) = 1
               \/ /\ proposal'[n].at = "announce" /\ r.entries = <<>>
                  /\ r.commit = node[n].commit
      BY <1>2, <1>3, ProposalBuildFacts, Zenon
    <2>3. r.entries # <<>> => Won(r.term, n)
      BY <2>2 DEF LinkInv, WonInv
    <2>4. /\ Requests(n)' \subseteq Requests(n) \cup {r}
          /\ \A m \in Node \ {n} : Requests(m)' = Requests(m)
      BY <2>1, <2>2, Zenon DEF Requests
    <2>5. /\ LinkShape' /\ LinkUnique' /\ LinkDense' /\ OwnerHas' /\ WonInv' /\ TermInv'
          /\ OwnersKeep
      BY <1>1, <2>1, <2>2, <2>4, BuiltLinks, Zenon
    <2>6. QED
      BY <1>1, <1>2, <2>1, <2>2, <2>3, <2>5, ProposalFrame, Zenon
  <1>4. CASE ProposeSend(n)
    <2>1. /\ UNCHANGED <<election, heartbeat, elected>>
          /\ \A m \in Node \ {n} : proposal'[m] = proposal[m]
          /\ proposal'[n].at = proposal[n].at /\ proposal'[n].req = proposal[n].req
          /\ proposal[n].todo # <<>> /\ proposal'[n].todo = Tail(proposal[n].todo)
      BY <1>1, <1>4, ProposeSendFacts, Zenon
    <2>2. PICK r \in proposal[n].req, a \in Reply :
            r \in AppendReq /\ Took(Head(proposal[n].todo), r, a.ok)
      BY <1>1, <1>4, ProposeSendFacts, Zenon
    <2>3. proposal[n].todo \in Seq(Node \ {n})
      BY <1>2 DEF ReqInv
    <2>4. Head(proposal[n].todo) \in Node \ {n} /\ Tail(proposal[n].todo) \in Seq(Node \ {n})
      BY <2>1, <2>3, SeqHeadTail
    <2>5. \A q \in proposal[n].req : q.entries # <<>> => Won(q.term, n)
      BY <1>2 DEF ReqInv
    <2>6. r \in Requests(n) /\ \A m \in Node : Requests(m)' = Requests(m)
      BY <2>1, <2>2, Zenon DEF Requests
    <2>7. /\ LinkShape' /\ LinkUnique' /\ LinkDense' /\ OwnerHas' /\ WonInv' /\ TermInv'
          /\ OwnersKeep
      BY <1>1, <2>1, <2>2, <2>4, <2>5, <2>6, TookLinks, Zenon
    <2>8. /\ proposal[n].at \in {"idle", "appended", "commit"} => proposal[n].req = {}
          /\ proposal[n].at = "announce" => \A q \in proposal[n].req : q.entries = <<>>
      BY <1>2, Zenon DEF StageInv
    <2>9. proposal[n].at # "appended"
      BY <2>2, <2>8, Zenon
    <2>10. QED
      BY <1>1, <2>1, <2>4, <2>5, <2>7, <2>8, <2>9, ProposalFrame, Zenon
  <1>5. CASE ProposeReply(n) \/ AnnounceReply(n)
    <2>1. /\ UNCHANGED <<election, heartbeat, elected>>
          /\ \A m \in Node \ {n} : proposal'[m] = proposal[m]
          /\ \/ proposal'[n].req = {} /\ proposal'[n].todo = <<>> /\ proposal'[n].at \in {"idle", "commit"}
             \/ /\ proposal'[n].req = proposal[n].req /\ proposal'[n].todo = proposal[n].todo
                /\ proposal'[n].at = proposal[n].at /\ proposal[n].at \in {"replicate", "announce"}
      BY <1>1, <1>5, ProposalReplyFacts, Zenon
    <2>2. RolesKeep /\ \A m \in Node : node'[m].log = node[m].log
      <3>1. CASE node' = node
        BY <3>1 DEF RolesKeep
      <3>2. CASE \E t \in Nat : /\ t > node[n].term
                               /\ node' = [node EXCEPT ![n] = BecomeFollower(node[n], t, {})]
        <4>1. PICK t \in Nat : node' = [node EXCEPT ![n] = BecomeFollower(node[n], t, {})]
          BY <3>2, Zenon
        <4> DEFINE u == BecomeFollower(node[n], t, {})
        <4>2. u.log = node[n].log /\ u.role = "follower"
          BY <1>1 DEF BecomeFollower, NodeState
        <4>3. node' = [node EXCEPT ![n] = u]
          BY <4>1
        <4> HIDE DEF u
        <4>4. QED
          BY <1>1, <4>2, <4>3, TameNode, Zenon
      <3>3. QED
        BY <1>1, <1>5, <3>1, <3>2, ProposalReplyFacts, Zenon
    <2>3. \A m \in Node : Requests(m)' \subseteq Requests(m)
      BY <2>1 DEF Requests
    <2>4. /\ LinkShape' /\ LinkUnique' /\ LinkDense' /\ OwnerHas' /\ WonInv' /\ TermInv'
          /\ OwnersKeep
      BY <1>1, <2>1, <2>2, <2>3, TameRequests
    <2>5. /\ proposal'[n].todo \in Seq(Node \ {n})
          /\ \A r \in proposal'[n].req : r.entries # <<>> => Won(r.term, n)
      BY <1>2, <2>1, Zenon DEF ReqInv
    <2>6. /\ proposal'[n].at \in {"idle", "commit"} => proposal'[n].req = {}
          /\ proposal'[n].at = "announce" => \A r \in proposal'[n].req : r.entries = <<>>
          /\ proposal'[n].at # "appended"
      BY <1>2, <2>1, Zenon DEF StageInv
    <2>7. QED
      BY <1>1, <2>1, <2>4, <2>5, <2>6, ProposalFrame, Zenon
  <1>6. QED
    BY <1>3, <1>4, <1>5 DEF ProposeStep

\* ApplyLoop, Stop and Unregister move no log and no request.
LEMMA OtherLinks ==
  ASSUME TypeOK, TypeOK', AllKeep, LinkInv, UNCHANGED <<node, heartbeat, proposal, elected>>
  PROVE  LinkInv'
  <1>1. RolesKeep
    BY DEF RolesKeep
  <1>2. QED
    BY <1>1, TameStep

\* No log has an entry yet.
LEMMA LinksInit ==
  ASSUME Init
  PROVE  LinkInv
  <1>1. \A n \in Node : /\ node[n] = NewNode /\ heartbeat[n] = NoHeartbeat
                        /\ proposal[n] = NoProposal
    BY DEF Init
  <1>2. /\ NewNode.log = <<>> /\ NewNode.role = "follower"
        /\ NoHeartbeat.req = {} /\ NoHeartbeat.peer = {} /\ NoHeartbeat.todo = <<>>
        /\ NoProposal.req = {} /\ NoProposal.todo = <<>> /\ NoProposal.at = "idle"
    BY Zenon DEF NewNode, NoHeartbeat, NoProposal
  <1>3. \A n \in Node : Requests(n) = {}
    BY <1>1, <1>2 DEF Requests
  <1>4. \A i : i \notin DOMAIN <<>>
    OBVIOUS
  <1>5. \A i, b, e : ~IsLink(i, b, e)
    BY <1>1, <1>2, <1>3, <1>4 DEF IsLink, LogHas
  <1>6. \A t, n : ~Won(t, n)
    BY DEF Init, Won
  <1>7. LinkShape /\ LinkUnique /\ LinkDense /\ OwnerHas
    BY <1>5, Zenon DEF LinkShape, LinkUnique, LinkDense, OwnerHas
  <1>8. WonInv
    BY <1>1, <1>2, <1>6 DEF WonInv
  <1>9. TermInv
    BY <1>1, <1>2, <1>3, <1>4 DEF TermInv
  <1>10. StageInv
    BY <1>1, <1>2 DEF StageInv
  <1>11. ReqInv
    <2>1. \A n \in Node : <<>> \in Seq(Node \ {n})
      BY SeqEmpty
    <2>2. QED
      BY <1>1, <1>2, <2>1, Zenon DEF ReqInv
  <1>12. QED
    BY <1>7, <1>8, <1>9, <1>10, <1>11 DEF LinkInv

\* A restart and a deposed proposal are not undone.
LEMMA UndeposedBefore ==
  ASSUME TypeOK, [Next]_vars, Undeposed'
  PROVE  Undeposed /\ ~\E n \in Node : Restart(n)
  <1>1. restarts \in Nat /\ restarts' = 0 /\ "deposed" \notin stray'
    BY DEF TypeOK, Undeposed
  <1>2. ASSUME NEW n \in Node, Restart(n) PROVE FALSE
    BY <1>1, <1>2 DEF Restart
  <1>3. CASE UNCHANGED vars
    BY <1>1, <1>2, <1>3 DEF vars, Undeposed
  <1>4. CASE Next
    <2>1. PICK n \in Node :
            \/ ElectionStep(n) \/ HeartbeatStep(n) \/ Propose(n) \/ ProposeStep(n)
            \/ Apply(n) \/ Stop(n) \/ Unregister(n)
      BY <1>2, <1>4 DEF Next
    <2>2. restarts' = restarts
      BY <2>1, Zenon DEF ElectionStep, StartElection, RequestVote, CollectVote, HeartbeatStep,
                  HeartbeatBuild, HeartbeatBreak, HeartbeatSend, HeartbeatReply, Propose,
                  ProposeStep, ProposeBuild, ProposeSend, ProposeReply, ProposeCommit,
                  AnnounceReply, Apply, Stop, Unregister
    <2>3. stray \subseteq stray'
      BY <2>1, Zenon DEF ElectionStep, StartElection, RequestVote, CollectVote, HeartbeatStep,
                  HeartbeatBuild, HeartbeatBreak, HeartbeatSend, HeartbeatReply, Propose,
                  ProposeStep, ProposeBuild, ProposeSend, ProposeReply, ProposeCommit,
                  AnnounceReply, Apply, Stop, Unregister
    <2>4. QED
      BY <1>1, <1>2, <2>2, <2>3 DEF Undeposed
  <1>5. QED
    BY <1>3, <1>4

\* What holds of every state until a node restarts or sends its proposal deposed.
MatchInv ==
  TypeInv /\ LifeInv /\ (Undeposed => VoteInv /\ LinkInv)

\* Every other step keeps the links.
LEMMA LinksStep ==
  ASSUME SizeFacts, MatchInv, [Next]_vars
  PROVE  MatchInv' /\ (Undeposed' => AllKeep)
  <1>1. TypeInv' /\ LifeInv' /\ (AllKeep \/ \E n \in Node : Restart(n))
    BY TypesStep DEF MatchInv
  <1>2. ASSUME Undeposed' PROVE VoteInv' /\ LinkInv' /\ AllKeep
    <2>1. Undeposed /\ ~\E n \in Node : Restart(n)
      BY <1>2, UndeposedBefore DEF MatchInv, TypeInv
    <2>2. /\ TypeInv /\ LifeInv /\ VoteInv /\ LinkInv /\ AllKeep /\ "deposed" \notin stray'
          /\ TypeOK /\ TypeOK'
      BY <1>1, <1>2, <2>1 DEF MatchInv, TypeInv, Undeposed
    <2>3. VoteInv'
      BY <2>1, <2>2, VotesStep
    <2>4. LinkInv'
      <3>1. CASE UNCHANGED vars
        <4>1. UNCHANGED <<node, heartbeat, proposal, elected>>
          BY <3>1 DEF vars
        <4>2. QED
          BY <2>2, <4>1, OtherLinks
      <3>2. CASE Next
        <4>1. PICK n \in Node :
                \/ ElectionStep(n) \/ HeartbeatStep(n) \/ Propose(n) \/ ProposeStep(n)
                \/ Apply(n) \/ Stop(n) \/ Unregister(n)
          BY <2>1, <3>2 DEF Next
        <4>2. CASE Apply(n) \/ Stop(n) \/ Unregister(n)
          <5>1. UNCHANGED <<node, heartbeat, proposal, elected>>
            BY <4>2, Zenon DEF Apply, Stop, Unregister
          <5>2. QED
            BY <2>2, <5>1, OtherLinks
        <4>3. QED
          BY <2>2, <4>1, <4>2, ElectionLinks, HeartbeatLinks, ProposeLinks, ProposalLinks
      <3>3. QED
        BY <3>1, <3>2
    <2>5. QED
      BY <2>2, <2>3, <2>4
  <1>3. QED
    BY <1>1, <1>2 DEF MatchInv

\* Two logs made of links agree up to an index where their terms agree.
LEMMA SamePrefix ==
  ASSUME SizeFacts, LinkShape, LinkUnique, NEW a \in Seq(Entry), NEW b \in Seq(Entry),
         \A i, t, e : LogHas(a, i, t, e) \/ LogHas(b, i, t, e) => IsLink(i, t, e),
         NEW i \in DOMAIN a, i \in DOMAIN b, a[i].term = b[i].term,
         NEW j \in 1..i
  PROVE  j \in DOMAIN a /\ j \in DOMAIN b /\ a[j] = b[j]
  <1> DEFINE T == {d \in Nat : d < i => a[i - d].term = b[i - d].term}
  <1>1. /\ Len(a) \in Nat /\ DOMAIN a = 1..Len(a)
        /\ Len(b) \in Nat /\ DOMAIN b = 1..Len(b)
    BY SeqLen
  <1>2. \A k \in 1..i : k \in DOMAIN a /\ k \in DOMAIN b
    BY <1>1
  <1>3. ASSUME NEW k \in 1..i, a[k].term = b[k].term
        PROVE  a[k] = b[k] /\ Before(a, k) = Before(b, k)
    <2>1. LogHas(a, k, Before(a, k), a[k]) /\ LogHas(b, k, Before(b, k), b[k])
      BY <1>2 DEF LogHas
    <2>2. IsLink(k, Before(a, k), a[k]) /\ IsLink(k, Before(b, k), b[k])
      BY <2>1
    <2>3. QED
      BY <1>3, <2>2 DEF LinkUnique
  <1>4. 0 \in T
    BY <1>1
  <1>5. ASSUME NEW d \in T PROVE d + 1 \in T
    <2> SUFFICES ASSUME d + 1 < i PROVE a[i - (d + 1)].term = b[i - (d + 1)].term
      OBVIOUS
    <2>1. i - d \in 1..i /\ i - d # 1 /\ (i - d) - 1 = i - (d + 1) /\ d < i
      BY <1>1
    <2>2. a[i - d].term = b[i - d].term
      BY <2>1
    <2>3. Before(a, i - d) = Before(b, i - d)
      BY <1>3, <2>1, <2>2
    <2>4. QED
      BY <2>1, <2>3 DEF Before
  <1>6. \A d \in Nat : d \in T
    <2> HIDE DEF T
    <2>1. T \in SUBSET Nat
      BY DEF T
    <2>2. QED
      BY <1>4, <1>5, <2>1, AllNaturals, Zenon
  <1>7. i - j \in Nat /\ i - j < i /\ i - (i - j) = j
    BY <1>1
  <1>8. a[j].term = b[j].term
    <2>1. i - j \in T
      BY <1>6, <1>7
    <2>2. a[i - (i - j)].term = b[i - (i - j)].term
      BY <1>7, <2>1
    <2>3. QED
      BY <1>7, <2>2
  <1>9. QED
    BY <1>2, <1>3, <1>8

\* The logs of two nodes agree up to an index where their terms agree.
LEMMA LogsAgree ==
  ASSUME SizeFacts, TypeOK, LinkShape, LinkUnique, NEW m \in Node, NEW n \in Node,
         NEW i \in DOMAIN node[m].log, i \in DOMAIN node[n].log,
         node[m].log[i].term = node[n].log[i].term,
         NEW j \in 1..i
  PROVE  j \in DOMAIN node[m].log /\ j \in DOMAIN node[n].log /\ node[m].log[j] = node[n].log[j]
  <1>1. node[m].log \in Seq(Entry) /\ node[n].log \in Seq(Entry)
    BY DEF TypeOK, NodeState
  <1>2. \A k, t, e : LogHas(node[m].log, k, t, e) \/ LogHas(node[n].log, k, t, e) => IsLink(k, t, e)
    BY DEF IsLink
  <1>3. QED
    BY <1>1, <1>2, SamePrefix, Zenon

\* There is no link at the start.
LEMMA MatchInit ==
  ASSUME Init
  PROVE  MatchInv
  <1>1. VoteInv
    BY Zenon DEF Init, NoElection, VoteInv, ClaimsVoted, ClaimsUnique, Claimed
  <1>2. QED
    BY <1>1, TypesInit, LinksInit DEF MatchInv

\* Links that are unique make logs the same below a shared one.
LEMMA LinksMatch ==
  ASSUME SizeFacts, MatchInv
  PROVE  LogMatching
  <1> SUFFICES ASSUME Undeposed, NEW m \in Node, NEW n \in Node,
                      NEW i \in DOMAIN node[m].log \cap DOMAIN node[n].log,
                      node[m].log[i].term = node[n].log[i].term
               PROVE  SubSeq(node[m].log, 1, i) = SubSeq(node[n].log, 1, i)
    BY Zenon DEF LogMatching
  <1> DEFINE a == node[m].log
             b == node[n].log
  <1>1. TypeOK /\ LinkShape /\ LinkUnique /\ a \in Seq(Entry) /\ b \in Seq(Entry)
    BY Zenon DEF MatchInv, TypeInv, TypeOK, NodeState, LinkInv
  <1>2. \A j \in 1..i : j \in DOMAIN a /\ j \in DOMAIN b /\ a[j] = b[j]
    BY <1>1, LogsAgree
  <1>3. /\ Len(a) \in Nat /\ DOMAIN a = 1..Len(a) /\ i \in 1..Len(a)
        /\ Len(b) \in Nat /\ DOMAIN b = 1..Len(b) /\ i \in 1..Len(b)
    BY <1>1, SeqLen
  <1> HIDE DEF a, b
  <1>4. \A j \in 1..i : a[j] \in Entry /\ b[j] \in Entry
    BY <1>1, <1>3, SeqElement
  <1>5. /\ SubSeq(a, 1, i) \in Seq(Entry) /\ Len(SubSeq(a, 1, i)) = i
        /\ \A j \in 1..i : SubSeq(a, 1, i)[j] = a[j]
    BY <1>1, <1>3, <1>4, SeqPart
  <1>6. /\ SubSeq(b, 1, i) \in Seq(Entry) /\ Len(SubSeq(b, 1, i)) = i
        /\ \A j \in 1..i : SubSeq(b, 1, i)[j] = b[j]
    BY <1>1, <1>3, <1>4, SeqPart
  <1>7. SubSeq(a, 1, i) = SubSeq(b, 1, i)
    BY <1>2, <1>5, <1>6, SeqSame
  <1>8. QED
    BY <1>7, Zenon DEF a, b

\* Types and, until a node is created again, the votes.
ElectInv == TypeInv /\ LifeInv /\ (restarts = 0 => VoteInv)

\* No vote has been asked for at the start.
LEMMA ElectInit ==
  ASSUME Init
  PROVE  ElectInv
  <1>1. TypeInv /\ LifeInv
    BY TypesInit
  <1>2. elected = {} /\ \A c \in Node : election[c].req = {}
    BY DEF Init, NoElection
  <1>3. QED
    BY <1>1, <1>2 DEF ElectInv, VoteInv, ClaimsVoted, ClaimsUnique, Claimed

\* A restart is the only step that may lose a vote.
LEMMA ElectStep ==
  ASSUME SizeFacts, ElectInv, [Next]_vars
  PROVE  ElectInv'
  <1>1. TypeInv' /\ LifeInv' /\ restarts \in Nat
    BY TypesStep, Zenon DEF ElectInv, TypeInv, TypeOK
  <1>2. (\E n \in Node : Restart(n)) => restarts' # 0
    BY <1>1 DEF Restart
  <1>3. restarts' = 0 => restarts = 0
    <2>1. ASSUME NEW n \in Node, ElectionStep(n) \/ HeartbeatStep(n)
          PROVE  restarts' = restarts
      BY <2>1, Zenon DEF ElectionStep, StartElection, RequestVote, CollectVote, HeartbeatStep,
                  HeartbeatBuild, HeartbeatBreak, HeartbeatSend, HeartbeatReply
    <2>2. ASSUME NEW n \in Node, Propose(n) \/ ProposeStep(n)
          PROVE  restarts' = restarts
      BY <2>2, Zenon DEF Propose, ProposeStep, ProposeBuild, ProposeSend, ProposeReply,
                  ProposeCommit, AnnounceReply
    <2>3. ASSUME NEW n \in Node, Apply(n) \/ Stop(n) \/ Unregister(n)
          PROVE  restarts' = restarts
      BY <2>3, Zenon DEF Apply, Stop, Unregister
    <2>4. CASE Next
      BY <1>2, <2>1, <2>2, <2>3, <2>4 DEF Next
    <2>5. QED
      BY <2>4 DEF vars
  <1>4. QED
    BY <1>1, <1>2, <1>3, VotesStep DEF ElectInv

-----------------------------------------------------------------------------
(* Sizes of sets of nodes.                                                 *)

INSTANCE StoreLemmas

\* A part of a finite set.
LEMMA SetPart ==
  ASSUME NEW S, IsFiniteSet(S), NEW T \in SUBSET S
  PROVE  /\ IsFiniteSet(T) /\ Cardinality(S) \in Nat /\ Cardinality(T) \in Nat
         /\ Cardinality(T) <= Cardinality(S)
  BY FS_Subset, FS_CardinalityType

\* Two parts of a finite set that are too large to be apart.
LEMMA PartsOverlap ==
  ASSUME NEW X, IsFiniteSet(X), NEW S \in SUBSET X, NEW T \in SUBSET X,
         Cardinality(S) + Cardinality(T) > Cardinality(X)
  PROVE  S \cap T # {}
  <1>1. IsFiniteSet(S) /\ IsFiniteSet(T)
    BY FS_Subset
  <1>2. Cardinality(S \cup T) = Cardinality(S) + Cardinality(T) - Cardinality(S \cap T)
    BY <1>1, FS_Union
  <1>3. Cardinality(S \cup T) <= Cardinality(X)
    <2>1. S \cup T \in SUBSET X
      OBVIOUS
    <2>2. QED
      BY <2>1, FS_Subset
  <1>4. Cardinality(X) \in Nat /\ Cardinality(S) \in Nat /\ Cardinality(T) \in Nat
    BY <1>1, FS_CardinalityType
  <1>5. Cardinality(S \cap T) # 0
    BY <1>2, <1>3, <1>4
  <1>6. QED
    BY <1>5, FS_EmptySet

\* A function on a finite set has a largest value.
LEMMA LargestOf ==
  ASSUME NEW W, IsFiniteSet(W), W # {}, NEW m, \A p \in W : m[p] \in Nat
  PROVE  \E p \in W : \A q \in W : m[q] <= m[p]
  <1> DEFINE above(p) == {q \in W : m[q] >= m[p]}
             F == {above(p) : p \in W}
  <1>2. FiniteSubsetsOf(W) = SUBSET W
    BY FS_FiniteSubsetsOfFinite
  <1>3. IsWellFoundedOn(StrictSubsetOrdering(W), SUBSET W)
    BY <1>2, FS_StrictSubsetOrderingWellFounded
  <1>4. F \subseteq SUBSET W /\ F # {}
    <2>1. \A p \in W : above(p) \in SUBSET W /\ above(p) \in F
      OBVIOUS
    <2> HIDE DEF above
    <2>2. QED
      BY <2>1
  <1>5. PICK a \in F : \A b \in F : ~(<<b, a>> \in StrictSubsetOrdering(W))
    BY <1>3, <1>4, WFMin, Zenon
  <1>6. PICK p \in W : a = above(p)
    BY <1>5
  <1>7. SUFFICES ASSUME NEW q \in W, m[q] > m[p]
                 PROVE  FALSE
    BY <1>6
  <1>8. above(q) \subseteq above(p) /\ above(q) # above(p)
    <2>1. p \in above(p) /\ p \notin above(q)
      BY <1>6, <1>7
    <2>2. ASSUME NEW r \in above(q) PROVE r \in above(p)
      BY <1>6, <1>7, <2>2
    <2>3. QED
      BY <2>1, <2>2
  <1>9. <<above(q), a>> \in StrictSubsetOrdering(W)
    BY <1>4, <1>6, <1>7, <1>8 DEF StrictSubsetOrdering
  <1>10. QED
    BY <1>5, <1>7, <1>9

\* What the lemmas assume of naturals and sizes holds.
LEMMA SizesHold == SizeFacts
  <1>1. IsFiniteSet(Node)
    BY RaftAssumption
  <1>2. ASSUME NEW W \in SUBSET Node, NEW m \in [Node -> Nat], W # {}
        PROVE  \E p \in W : \A q \in W : m[q] <= m[p]
    <2>1. IsFiniteSet(W) /\ \A p \in W : m[p] \in Nat
      BY <1>1, <1>2, SetPart
    <2>2. QED
      BY <1>2, <2>1, LargestOf
  <1>3. QED
    BY <1>1, <1>2, SetPart, PartsOverlap, LeastExists DEF SizeFacts

-----------------------------------------------------------------------------
(* The theorems.                                                           *)

\* Every field of every node, every request and every local variable of the loops
\* keeps its type, whatever the interleaving, the stops and the restarts: among
\* them next_index_, which goes back no further than 1, and my_index - 1.
THEOREM TypesHold == Spec => []TypeOK
  <1>1. Init => TypeInv /\ LifeInv
    BY TypesInit
  <1>2. TypeInv /\ LifeInv /\ [Next]_vars => TypeInv' /\ LifeInv'
    BY TypesStep, SizesHold
  <1>3. TypeInv => TypeOK
    BY DEF TypeInv
  <1>4. QED
    BY <1>1, <1>2, <1>3, PTL DEF Spec

\* Two nodes never win the election of one term while no node has been created
\* again, for every cluster size and interleaving.
THEOREM ElectionsSafe == Spec => []ElectionSafety
  <1>1. Init => ElectInv
    BY ElectInit
  <1>2. ElectInv /\ [Next]_vars => ElectInv'
    BY ElectStep, SizesHold
  <1>3. ElectInv => ElectionSafety
    BY VotesDecide, SizesHold DEF ElectInv, ElectionSafety, TypeInv
  <1>4. QED
    BY <1>1, <1>2, <1>3, PTL DEF Spec

\* Two logs with an entry of one index and term are the same up to it.
THEOREM LogsMatch == Spec => []LogMatching
  <1>1. Init => MatchInv
    BY MatchInit
  <1>2. MatchInv /\ [Next]_vars => MatchInv'
    BY LinksStep, SizesHold
  <1>3. MatchInv => LogMatching
    BY LinksMatch, SizesHold
  <1>4. QED
    BY <1>1, <1>2, <1>3, PTL DEF Spec

=============================================================================
