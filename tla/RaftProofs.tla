----------------------------- MODULE RaftProofs -----------------------------
(***************************************************************************)
(* The steps of the proofs about Raft, for every cluster size, order of    *)
(* peers and bound: every step keeps the types, every step keeps the votes *)
(* of a term apart, and the first half of what log matching rests on.      *)
(* RaftLogProofs has the other half and the theorems.                      *)
(***************************************************************************)
EXTENDS Raft, TLAPS

-----------------------------------------------------------------------------
(* Sequences and numbers.                                                  *)

\* The length and the domain of a sequence.
LEMMA SeqLen ==
  ASSUME NEW S, NEW s \in Seq(S)
  PROVE  Len(s) \in Nat /\ s \in [1..Len(s) -> S] /\ DOMAIN s = 1..Len(s)
  OBVIOUS

\* An element of a sequence.
LEMMA SeqElement ==
  ASSUME NEW S, NEW s \in Seq(S), NEW i \in 1..Len(s)
  PROVE  s[i] \in S
  OBVIOUS

\* The empty sequence.
LEMMA SeqEmpty ==
  ASSUME NEW S
  PROVE  /\ <<>> \in Seq(S)
         /\ Len(<<>>) = 0
         /\ \A s \in Seq(S) : s # <<>> => Len(s) \in Nat \ {0}
  OBVIOUS

\* A function on an initial segment is a sequence.
LEMMA SeqDefined ==
  ASSUME NEW S, NEW n \in Nat, NEW f \in [1..n -> S]
  PROVE  f \in Seq(S)
  OBVIOUS

\* The head and the tail of a sequence.
LEMMA SeqHeadTail ==
  ASSUME NEW S, NEW s \in Seq(S), s # <<>>
  PROVE  /\ Head(s) \in S
         /\ Tail(s) \in Seq(S)
         /\ Len(Tail(s)) = Len(s) - 1
         /\ \A i \in 1..Len(Tail(s)) : Tail(s)[i] = s[i + 1]
  OBVIOUS

\* One more element.
LEMMA SeqAppend ==
  ASSUME NEW S, NEW s \in Seq(S), NEW e \in S
  PROVE  /\ Append(s, e) \in Seq(S)
         /\ Append(s, e) # <<>>
         /\ Len(Append(s, e)) = Len(s) + 1
         /\ \A i \in 1..Len(s) : Append(s, e)[i] = s[i]
         /\ Append(s, e)[Len(s) + 1] = e
  OBVIOUS

\* One sequence behind another.
LEMMA SeqConcat ==
  ASSUME NEW S, NEW s \in Seq(S), NEW t \in Seq(S)
  PROVE  /\ s \o t \in Seq(S)
         /\ Len(s \o t) = Len(s) + Len(t)
         /\ \A i \in 1..(Len(s) + Len(t)) :
              (s \o t)[i] = IF i <= Len(s) THEN s[i] ELSE t[i - Len(s)]
  OBVIOUS

\* A part of a sequence.
LEMMA SeqPart ==
  ASSUME NEW S, NEW s, NEW m \in Int, NEW n \in Int, \A i \in m..n : s[i] \in S
  PROVE  /\ SubSeq(s, m, n) \in Seq(S)
         /\ Len(SubSeq(s, m, n)) = IF m <= n THEN n - m + 1 ELSE 0
         /\ \A i \in 1..(n - m + 1) : SubSeq(s, m, n)[i] = s[m + i - 1]
  OBVIOUS

\* Sequences with the same elements are the same.
LEMMA SeqSame ==
  ASSUME NEW S, NEW s \in Seq(S), NEW t \in Seq(S),
         Len(s) = Len(t), \A i \in 1..Len(s) : s[i] = t[i]
  PROVE  s = t
  OBVIOUS

\* What the proofs use of the naturals and of the sizes of sets of nodes: a set
\* of naturals has a least element, sets of nodes have a size, two that have more
\* nodes between them than there are share one, and a function on some nodes has a
\* largest value.  SizesHold proves it from the theorems on finite sets, behind
\* the lemmas that assume it.
SizeFacts ==
  /\ \A T \in SUBSET Nat : T # {} => \E y \in T : \A z \in T : y <= z
  /\ \A S \in SUBSET Node : Cardinality(S) \in Nat
  /\ \A S, T \in SUBSET Node :
       Cardinality(S) + Cardinality(T) > Cardinality(Node) => S \cap T # {}
  /\ \A W \in SUBSET Node, m \in [Node -> Nat] :
       W # {} => \E p \in W : \A q \in W : m[q] <= m[p]

\* Induction over the naturals, for a set.
LEMMA AllNaturals ==
  ASSUME SizeFacts, NEW T \in SUBSET Nat, 0 \in T, \A n \in T : n + 1 \in T
  PROVE  T = Nat
  <1> SUFFICES ASSUME Nat \ T # {} PROVE FALSE
    BY Zenon
  <1>1. PICK y \in Nat \ T : \A z \in Nat \ T : y <= z
    BY Zenon DEF SizeFacts
  <1>2. y - 1 \in Nat /\ ~(y <= y - 1) /\ (y - 1) + 1 = y
    BY <1>1
  <1>3. y - 1 \in T
    BY <1>1, <1>2
  <1>4. QED
    BY <1>1, <1>2, <1>3

\* Two majorities of the cluster have a node in common.
LEMMA QuorumsMeet ==
  ASSUME SizeFacts, NEW S \in SUBSET Node, NEW T \in SUBSET Node,
         Majority(S), Majority(T)
  PROVE  S \cap T # {}
  <1>1. Cardinality(Node) \in Nat /\ Cardinality(S) \in Nat /\ Cardinality(T) \in Nat
    BY DEF SizeFacts
  <1>2. 2 * (Cardinality(Node) \div 2 + 1) > Cardinality(Node)
    BY <1>1
  <1>3. Cardinality(S) + Cardinality(T) > Cardinality(Node)
    BY <1>1, <1>2 DEF Majority
  <1>4. QED
    BY <1>3 DEF SizeFacts

\* AdvanceCommitIndex finds an index in the sorted match_values, and the nodes from
\* there on have acknowledged it.
LEMMA MajorityMatchFound ==
  ASSUME SizeFacts, NEW n \in Node, NEW s \in NodeState
  PROVE  /\ MajorityMatch(n, s) \in Nat
         /\ Cardinality({p \in Node : Matched(n, s)[p] >= MajorityMatch(n, s)})
              >= Cardinality(Node) - Cardinality(Node) \div 2
  <1> DEFINE m == Matched(n, s)
             reach(i) == Cardinality({p \in Node : m[p] >= i})
             k == Cardinality(Node) - Cardinality(Node) \div 2
             V == {m[p] : p \in Node}
             W == {p \in Node : reach(m[p]) >= k}
  <1>1. m \in [Node -> Nat]
    BY SeqLen DEF Matched, NodeState
  <1>2. V \in SUBSET Nat /\ V # {}
    BY <1>1
  <1>3. PICK y \in V : \A z \in V : y <= z
    BY <1>2, Zenon DEF SizeFacts
  <1>4. PICK p \in Node : y = m[p]
    BY <1>3
  <1>5. {q \in Node : m[q] >= m[p]} = Node
    BY <1>1, <1>3, <1>4
  <1>6. Cardinality(Node) \in Nat
    BY DEF SizeFacts
  <1>7. Cardinality(Node) >= k
    BY <1>6
  <1>8. p \in W
    BY <1>4, <1>5, <1>7, Zenon
  <1>9. PICK w \in W : \A q \in W : m[q] <= m[w]
    <2>1. W \in SUBSET Node /\ W # {}
      BY <1>8, Zenon
    <2> HIDE DEF W, m
    <2>2. QED
      BY <1>1, <2>1 DEF SizeFacts
  <1> DEFINE M == {i \in V : reach(i) >= k}
  <1>10. m[w] \in M /\ m[w] \in Nat
    BY <1>1, <1>9
  <1>11. \A i \in M : m[w] >= i
    BY <1>1, <1>9
  <1>12. Max(M) \in M
    <2> HIDE DEF M, m
    <2>1. QED
      BY <1>10, <1>11 DEF Max
  <1>13. MajorityMatch(n, s) = Max(M)
    BY DEF MajorityMatch
  <1>14. QED
    BY <1>2, <1>12, <1>13, Zenon

\* So match_values is never read outside.
LEMMA MajorityMatchType ==
  ASSUME SizeFacts, NEW n \in Node, NEW s \in NodeState
  PROVE  MajorityMatch(n, s) \in Nat
  BY MajorityMatchFound, Zenon

-----------------------------------------------------------------------------
(* The helpers on the fields of one node.                                  *)

\* What every step but a restart keeps of a node's fields: the term does not go
\* back, the vote of a term is final, and a log with entries is never emptied.
Keeps(s, t) ==
  /\ \/ t.term > s.term
     \/ t.term = s.term /\ (s.votedFor = {} \/ t.votedFor = s.votedFor)
  /\ s.log # <<>> => t.log # <<>>

\* A new term takes the place of the old one with its vote.
LEMMA FollowerFacts ==
  ASSUME NEW s \in NodeState, NEW t \in Nat, t > s.term, NEW l \in SUBSET Node
  PROVE  /\ BecomeFollower(s, t, l) \in NodeState
         /\ BecomeFollower(s, t, l).term = t
         /\ BecomeFollower(s, t, l).votedFor = {}
         /\ BecomeFollower(s, t, l).log = s.log
         /\ Keeps(s, BecomeFollower(s, t, l))
  BY Zenon DEF BecomeFollower, NodeState, Keeps

\* A candidate enters a term of its own and votes for itself.
LEMMA CandidateFacts ==
  ASSUME NEW n \in Node, NEW s \in NodeState
  PROVE  /\ BecomeCandidate(n, s) \in NodeState
         /\ BecomeCandidate(n, s).term = s.term + 1
         /\ BecomeCandidate(n, s).votedFor = {n}
         /\ Keeps(s, BecomeCandidate(n, s))
  <1> DEFINE t == BecomeCandidate(n, s)
  <1>1. s.term \in Nat /\ s.term + 1 \in Nat /\ s.term + 1 > s.term
    BY DEF NodeState
  <1>2. t \in NodeState
    BY <1>1, Zenon DEF BecomeCandidate, NodeState
  <1>3. t.term = s.term + 1 /\ t.votedFor = {n} /\ t.log = s.log
    BY DEF BecomeCandidate, NodeState
  <1>4. QED
    BY <1>1, <1>2, <1>3 DEF Keeps

\* A leader keeps its term and vote.
LEMMA LeaderFacts ==
  ASSUME NEW n \in Node, NEW s \in NodeState
  PROVE  /\ BecomeLeader(n, s) \in NodeState
         /\ Keeps(s, BecomeLeader(n, s))
  <1>1. Len(s.log) + 1 \in Nat
    BY SeqLen DEF NodeState
  <1>2. QED
    BY <1>1, Zenon DEF BecomeLeader, NodeState, Keeps

\* Terms read from a log are numbers.
LEMMA TermAtType ==
  ASSUME NEW s \in NodeState, NEW i
  PROVE  TermAt(s, i) \in Nat
  <1>1. ASSUME i \in 1..Len(s.log) PROVE s.log[i] \in Entry
    BY <1>1, SeqElement DEF NodeState
  <1>2. QED
    BY <1>1 DEF TermAt, Entry

\* A request for votes.
LEMMA VoteReqType ==
  ASSUME NEW n \in Node, NEW s \in NodeState
  PROVE  [term |-> s.term, candidate |-> n, lastIndex |-> Len(s.log),
          lastTerm |-> LastTerm(s)] \in VoteReq
  <1>1. LastTerm(s) \in Nat /\ Len(s.log) \in Nat /\ s.term \in Nat
    BY TermAtType, SeqLen DEF LastTerm, NodeState
  <1>2. QED
    BY <1>1 DEF VoteReq

\* The handler of a vote: a granted vote is for the candidate, in its term.
LEMMA VoteFacts ==
  ASSUME NEW s \in NodeState, NEW req \in VoteReq
  PROVE  LET h == OnRequestVote(s, req)
         IN  /\ h.node \in NodeState
             /\ h.ok \in BOOLEAN
             /\ Keeps(s, h.node)
             /\ h.ok => h.node.term = req.term /\ h.node.votedFor = {req.candidate}
  <1> DEFINE t == IF req.term > s.term THEN BecomeFollower(s, req.term, {}) ELSE s
             grant == /\ req.term >= s.term
                      /\ t.votedFor \subseteq {req.candidate}
                      /\ IsUpToDate(t, req)
             u == [t EXCEPT !.votedFor = {req.candidate}]
  <1>1. req.term \in Nat /\ req.candidate \in Node /\ s.term \in Nat
    BY DEF VoteReq, NodeState
  <1>2. /\ t \in NodeState
        /\ Keeps(s, t)
        /\ req.term >= s.term => t.term = req.term
        /\ t.log = s.log
        /\ req.term > s.term \/ (t.term = s.term /\ t.votedFor = s.votedFor)
    <2>1. CASE req.term > s.term
      BY <1>1, <2>1, FollowerFacts
    <2>2. CASE ~(req.term > s.term)
      BY <1>1, <2>2 DEF Keeps
    <2>3. QED
      BY <2>1, <2>2
  <1>3. OnRequestVote(s, req) = [ok |-> grant, node |-> IF grant THEN u ELSE t]
    BY DEF OnRequestVote
  <1> HIDE DEF t
  <1>4. u \in NodeState /\ u.term = t.term /\ u.votedFor = {req.candidate} /\ u.log = t.log
    BY <1>1, <1>2, Zenon DEF NodeState
  <1>5. ASSUME grant PROVE Keeps(s, u)
    <2>1. CASE req.term > s.term
      BY <1>1, <1>2, <1>4, <1>5, <2>1 DEF Keeps
    <2>2. CASE ~(req.term > s.term)
      <3>1. s.votedFor = {} \/ s.votedFor = {req.candidate}
        BY <1>2, <1>5, <2>2
      <3>2. QED
        BY <1>1, <1>2, <1>4, <2>2, <3>1 DEF Keeps
    <2>3. QED
      BY <2>1, <2>2
  <1> HIDE DEF u
  <1>6. grant \in BOOLEAN
    BY DEF IsUpToDate
  <1> HIDE DEF grant
  <1> DEFINE h == OnRequestVote(s, req)
  <1>7. h.ok = grant /\ h.node = IF grant THEN u ELSE t
    BY <1>3
  <1> HIDE DEF h
  <1>8. CASE grant
    <2>1. req.term >= s.term
      BY <1>8 DEF grant
    <2>2. h.node = u /\ h.ok
      BY <1>7, <1>8
    <2>3. QED
      BY <1>2, <1>4, <1>5, <1>6, <1>7, <1>8, <2>1, <2>2 DEF h
  <1>9. CASE ~grant
    <2>1. h.node = t /\ ~h.ok
      BY <1>7, <1>9
    <2>2. QED
      BY <1>2, <1>6, <1>7, <2>1 DEF h
  <1>10. QED
    BY <1>6, <1>8, <1>9

\* The smaller of two numbers.
LEMMA MinOfTwo ==
  ASSUME NEW a \in Nat, NEW b \in Nat
  PROVE  /\ Min({a, b}) \in {a, b} /\ Min({a, b}) \in Nat
         /\ \A x \in {a, b} : Min({a, b}) <= x
  <1>1. \E x \in {a, b} : \A y \in {a, b} : x <= y
    OBVIOUS
  <1>2. QED
    BY <1>1 DEF Min

\* The handler of entries: votes and terms as for any message; entries are added
\* behind a prefix of the log.
LEMMA AppendFacts ==
  ASSUME NEW s \in NodeState, NEW req \in AppendReq
  PROVE  LET h == OnAppendEntries(s, req)
         IN  /\ h.node \in NodeState
             /\ h.ok \in BOOLEAN
             /\ Keeps(s, h.node)
  <1> DEFINE t == IF req.term > s.term
                  THEN BecomeFollower(s, req.term, {req.leader})
                  ELSE [s EXCEPT !.role = "follower", !.leader = {req.leader}]
             consistent == req.prev <= Len(t.log) /\ TermAt(t, req.prev) = req.prevTerm
             log == IF req.entries = <<>> THEN t.log
                    ELSE SubSeq(t.log, 1, req.prev) \o req.entries
             commit == IF req.commit > t.commit THEN Min({req.commit, Len(log)})
                       ELSE t.commit
             u == [t EXCEPT !.log = log, !.commit = commit]
             h == OnAppendEntries(s, req)
  <1>1. /\ req.term \in Nat /\ req.leader \in Node /\ req.prev \in Nat
        /\ req.entries \in Seq(Entry) /\ req.commit \in Nat /\ s.term \in Nat
    BY DEF AppendReq, NodeState
  <1>2. t \in NodeState /\ Keeps(s, t) /\ t.log = s.log
    <2>1. CASE req.term > s.term
      BY <1>1, <2>1, FollowerFacts
    <2>2. CASE ~(req.term > s.term)
      BY <1>1, <2>2, Zenon DEF NodeState, Keeps
    <2>3. QED
      BY <2>1, <2>2
  <1>3. h = IF req.term < s.term THEN [ok |-> FALSE, node |-> s]
            ELSE IF ~consistent THEN [ok |-> FALSE, node |-> t]
            ELSE [ok |-> TRUE, node |-> u]
    BY DEF OnAppendEntries
  <1> HIDE DEF t, h
  <1>4. Keeps(s, s)
    BY <1>1 DEF Keeps
  <1>5. ASSUME consistent PROVE u \in NodeState /\ Keeps(s, u)
    <2>1. t.log \in Seq(Entry) /\ Len(t.log) \in Nat /\ t.commit \in Nat
      BY <1>2, SeqLen DEF NodeState
    <2>2. \A i \in 1..req.prev : t.log[i] \in Entry
      BY <1>1, <1>5, <2>1, SeqElement
    <2>3. SubSeq(t.log, 1, req.prev) \in Seq(Entry)
      BY <1>1, <2>2, SeqPart
    <2>4. /\ SubSeq(t.log, 1, req.prev) \o req.entries \in Seq(Entry)
          /\ Len(SubSeq(t.log, 1, req.prev) \o req.entries)
               = Len(SubSeq(t.log, 1, req.prev)) + Len(req.entries)
      BY <1>1, <2>3, SeqConcat
    <2>5. log \in Seq(Entry)
      BY <2>1, <2>4
    <2>6. t.log # <<>> => log # <<>>
      <3>1. SUFFICES ASSUME req.entries # <<>>
                     PROVE  SubSeq(t.log, 1, req.prev) \o req.entries # <<>>
        OBVIOUS
      <3>2. Len(req.entries) > 0 /\ Len(SubSeq(t.log, 1, req.prev)) \in Nat
        BY <1>1, <2>3, <3>1, SeqEmpty, SeqLen
      <3>3. Len(SubSeq(t.log, 1, req.prev) \o req.entries) # 0
        BY <2>4, <3>2, <1>1, SeqLen
      <3>4. QED
        BY <2>4, <3>3, SeqEmpty, Zenon
    <2>7. Len(log) \in Nat
      BY <2>5, SeqLen
    <2> HIDE DEF log
    <2>8. commit \in Nat
      BY <1>1, <2>1, <2>7, MinOfTwo
    <2> HIDE DEF commit
    <2>9. u \in NodeState /\ u.term = t.term /\ u.votedFor = t.votedFor /\ u.log = log
      BY <1>2, <2>5, <2>8, Zenon DEF NodeState
    <2> HIDE DEF u
    <2>10. QED
      BY <1>2, <2>6, <2>9 DEF Keeps
  <1> HIDE DEF u, consistent
  <1>6. h.node \in NodeState /\ h.ok \in BOOLEAN /\ Keeps(s, h.node)
    <2>1. CASE req.term < s.term
      BY <1>3, <1>4, <2>1
    <2>2. CASE ~(req.term < s.term) /\ ~consistent
      BY <1>2, <1>3, <2>2
    <2>3. CASE ~(req.term < s.term) /\ consistent
      BY <1>3, <1>5, <2>3
    <2>4. QED
      BY <2>1, <2>2, <2>3
  <1>7. QED
    BY <1>6 DEF h

\* What BuildAppendEntries sends.
LEMMA BuildType ==
  ASSUME NEW n \in Node, NEW p \in Node, NEW s \in NodeState
  PROVE  BuildAppendEntries(n, s, p) \in AppendReq
  <1> DEFINE next == s.next[p]
             prev == IF next \in {0, 1} THEN 0 ELSE next - 1
             entries == IF next \in 1..Len(s.log)
                        THEN SubSeq(s.log, next, Len(s.log)) ELSE <<>>
  <1>1. /\ next \in Nat /\ s.log \in Seq(Entry) /\ Len(s.log) \in Nat
        /\ s.term \in Nat /\ s.commit \in Nat
    BY SeqLen DEF NodeState
  <1>2. prev \in Nat
    BY <1>1
  <1>3. entries \in Seq(Entry)
    <2>1. CASE next \in 1..Len(s.log)
      <3>1. \A i \in next..Len(s.log) : s.log[i] \in Entry
        BY <1>1, <2>1, SeqElement
      <3> HIDE DEF next
      <3>2. SubSeq(s.log, next, Len(s.log)) \in Seq(Entry)
        BY <1>1, <3>1, SeqPart
      <3>3. QED
        BY <2>1, <3>2
    <2>2. CASE next \notin 1..Len(s.log)
      BY <2>2, SeqEmpty
    <2>3. QED
      BY <2>1, <2>2
  <1>4. TermAt(s, prev) \in Nat
    BY TermAtType
  <1>5. BuildAppendEntries(n, s, p)
          = [term |-> s.term, leader |-> n, prev |-> prev, prevTerm |-> TermAt(s, prev),
             entries |-> entries, commit |-> s.commit]
    BY DEF BuildAppendEntries
  <1> HIDE DEF prev, entries
  <1>6. QED
    BY <1>1, <1>2, <1>3, <1>4, <1>5 DEF AppendReq

\* A successful answer moves indexes only.
LEMMA AcknowledgedFacts ==
  ASSUME SizeFacts, NEW n \in Node, NEW p \in Node, NEW s \in NodeState, NEW req \in AppendReq
  PROVE  /\ Acknowledged(n, s, p, req) \in NodeState
         /\ Keeps(s, Acknowledged(n, s, p, req))
  <1> DEFINE last == req.prev + Len(req.entries)
             t == IF req.entries = <<>> THEN s
                  ELSE [s EXCEPT !.match[p] = last, !.next[p] = last + 1]
             i == MajorityMatch(n, t)
             u == [t EXCEPT !.commit = i]
  <1>1. last \in Nat /\ last + 1 \in Nat
    BY SeqLen DEF AppendReq
  <1> HIDE DEF last
  <1>2. /\ t \in NodeState
        /\ t.term = s.term /\ t.votedFor = s.votedFor /\ t.log = s.log
    BY <1>1, Zenon DEF NodeState
  <1>3. Acknowledged(n, s, p, req)
          = IF i > t.commit /\ TermAt(t, i) = t.term THEN u ELSE t
    BY DEF Acknowledged, AdvanceCommitIndex, last
  <1> HIDE DEF t
  <1>4. i \in Nat
    BY <1>2, MajorityMatchType
  <1> HIDE DEF i
  <1>5. u \in NodeState /\ u.term = t.term /\ u.votedFor = t.votedFor /\ u.log = t.log
    BY <1>2, <1>4, Zenon DEF NodeState
  <1> HIDE DEF u
  <1>6. s.term \in Nat
    BY DEF NodeState
  <1>7. QED
    BY <1>2, <1>3, <1>5, <1>6 DEF Keeps

\* next_index_ stays a number: the step back has a limit.
LEMMA BacktrackedFacts ==
  ASSUME NEW p \in Node, NEW s \in NodeState
  PROVE  Backtracked(s, p) \in NodeState /\ Keeps(s, Backtracked(s, p))
  <1> DEFINE back == Max({1, s.next[p] - 1})
             t == [s EXCEPT !.next[p] = back]
  <1>1. s.next[p] \in Nat /\ s.term \in Nat
    BY DEF NodeState
  <1>2. ASSUME s.next[p] > 1 PROVE back \in Nat
    <2> DEFINE x == s.next[p] - 1
    <2>1. x \in Nat /\ x >= 1
      BY <1>1, <1>2
    <2> HIDE DEF x
    <2>2. \E y \in {1, x} : \A z \in {1, x} : y >= z
      BY <2>1
    <2>3. Max({1, x}) \in {1, x}
      BY <2>2 DEF Max
    <2>4. QED
      BY <2>1, <2>3 DEF x
  <1>3. Backtracked(s, p) = IF s.next[p] > 1 THEN t ELSE s
    BY DEF Backtracked
  <1> HIDE DEF back
  <1>4. ASSUME s.next[p] > 1
        PROVE  t \in NodeState /\ t.term = s.term /\ t.votedFor = s.votedFor /\ t.log = s.log
    BY <1>2, <1>4, Zenon DEF NodeState
  <1> HIDE DEF t
  <1>5. QED
    BY <1>1, <1>3, <1>4 DEF Keeps

-----------------------------------------------------------------------------
(* Types.                                                                  *)

\* The types, and that a proposal finds its log with an entry in it, so that
\* my_index - 1 does not wrap around.
TypeInv ==
  /\ TypeOK
  /\ \A n \in Node : proposal[n].at = "appended" => node[n].log # <<>>

\* Every node keeps what Keeps says.
AllKeep == \A n \in Node : Keeps(node[n], node'[n])

\* The transport passes on what the handler keeps; a peer that is not registered
\* answers with a refusal.
LEMMA DeliverFacts ==
  ASSUME TypeOK, NEW p \in Node, NEW req, req.term \in Nat, NEW h,
         h.node \in NodeState, h.ok \in BOOLEAN, Keeps(node[p], h.node)
  PROVE  LET d == Deliver(p, req, h)
         IN  /\ d.node \in [Node -> NodeState]
             /\ \A q \in Node : Keeps(node[q], d.node[q])
             /\ d.reply \in Reply
             /\ d.reply.from = p
             /\ d.reply.ok => h.ok /\ d.node[p] = h.node
  <1> DEFINE d == Deliver(p, req, h)
  <1>1. node \in [Node -> NodeState]
    BY DEF TypeOK
  <1>2. \A q \in Node : Keeps(node[q], node[q])
    BY <1>1 DEF Keeps, NodeState
  <1>3. h.node.term \in Nat
    BY DEF NodeState
  <1>4. CASE p \in registered
    <2>1. /\ d.node = [node EXCEPT ![p] = h.node]
          /\ d.reply = [from |-> p, term |-> h.node.term, ok |-> h.ok]
      BY <1>4 DEF Deliver
    <2>2. QED
      BY <1>1, <1>2, <1>3, <2>1 DEF Reply
  <1>5. CASE p \notin registered
    <2>1. d.node = node /\ d.reply = [from |-> p, term |-> req.term, ok |-> FALSE]
      BY <1>5 DEF Deliver
    <2>2. QED
      BY <1>1, <1>2, <2>1 DEF Reply
  <1>6. QED
    BY <1>4, <1>5

\* The peers of a node, in their order.
LEMMA PeersType ==
  ASSUME NEW n \in Node
  PROVE  Peers[n] \in Seq(Node)
  BY RaftAssumption

\* A node whose fields stay keeps everything.
LEMMA KeepsSelf ==
  ASSUME NEW s \in NodeState
  PROVE  Keeps(s, s)
  BY DEF Keeps, NodeState

\* One node's fields change, and keep what they must.
LEMMA OneKeeps ==
  ASSUME TypeOK, NEW n \in Node, NEW s \in NodeState, Keeps(node[n], s),
         node' = [node EXCEPT ![n] = s]
  PROVE  node' \in [Node -> NodeState] /\ AllKeep
  <1>1. node \in [Node -> NodeState]
    BY DEF TypeOK
  <1>2. \A q \in Node : Keeps(node[q], node[q])
    BY <1>1, KeepsSelf
  <1>3. QED
    BY <1>1, <1>2 DEF AllKeep

\* No node's fields change.
LEMMA NoneChange ==
  ASSUME TypeOK, UNCHANGED node
  PROVE  node' \in [Node -> NodeState] /\ AllKeep
  BY KeepsSelf DEF TypeOK, AllKeep

\* A step of ElectionLoop.
LEMMA ElectionTypes ==
  ASSUME TypeInv, NEW n \in Node, ElectionStep(n)
  PROVE  TypeInv' /\ AllKeep
  <1> USE DEF TypeInv
  <1>1. /\ node \in [Node -> NodeState] /\ node[n] \in NodeState
        /\ election \in [Node -> ElectionState] /\ election[n] \in ElectionState
    BY DEF TypeOK
  <1>2. NoElection \in ElectionState
    BY SeqEmpty DEF NoElection, ElectionState
  <1>3. CASE StartElection(n)
    <2> DEFINE s == BecomeCandidate(n, node[n])
               req == [term |-> s.term, candidate |-> n,
                       lastIndex |-> Len(s.log), lastTerm |-> LastTerm(s)]
               el == [req |-> {req}, todo |-> Peers[n], votes |-> {n}, reply |-> {}]
    <2>1. node' = [node EXCEPT ![n] = s] /\ election' = [election EXCEPT ![n] = el]
      BY <1>3 DEF StartElection
    <2>2. s \in NodeState /\ Keeps(node[n], s)
      BY <1>1, CandidateFacts
    <2> HIDE DEF s
    <2>3. req \in VoteReq
      BY <2>2, VoteReqType
    <2> HIDE DEF req
    <2>4. el \in ElectionState
      BY <2>3, PeersType DEF ElectionState
    <2> HIDE DEF el
    <2>5. node' \in [Node -> NodeState] /\ AllKeep
      BY <2>1, <2>2, OneKeeps, Zenon
    <2>6. election' \in [Node -> ElectionState]
      BY <1>1, <2>1, <2>4
    <2>7. QED
      BY <1>3, <2>5, <2>6, SMTT(30) DEF StartElection, TypeOK, AllKeep, Keeps
  <1>4. CASE RequestVote(n)
    <2>1. PICK req \in election[n].req :
            LET p == Head(election[n].todo)
                d == Deliver(p, req, OnRequestVote(node[p], req))
            IN  /\ election[n].todo # <<>>
                /\ node' = d.node
                /\ election' = [election EXCEPT ![n].todo = Tail(@), ![n].reply = {d.reply}]
      BY <1>4, Zenon DEF RequestVote
    <2> DEFINE p == Head(election[n].todo)
               h == OnRequestVote(node[p], req)
               d == Deliver(p, req, h)
               el == [election[n] EXCEPT !.todo = Tail(election[n].todo), !.reply = {d.reply}]
    <2>2. p \in Node /\ Tail(election[n].todo) \in Seq(Node) /\ req \in VoteReq
      BY <1>1, <2>1, SeqHeadTail DEF ElectionState
    <2>3. h.node \in NodeState /\ h.ok \in BOOLEAN /\ Keeps(node[p], h.node)
      BY <1>1, <2>2, VoteFacts
    <2>4. req.term \in Nat
      BY <2>2 DEF VoteReq
    <2>5. node' = d.node /\ election' = [election EXCEPT ![n] = el]
      BY <2>1, Zenon
    <2> HIDE DEF p, h
    <2>6. /\ d.node \in [Node -> NodeState]
          /\ \A q \in Node : Keeps(node[q], d.node[q])
          /\ d.reply \in Reply
      BY <2>2, <2>3, <2>4, DeliverFacts
    <2> HIDE DEF d
    <2>7. el \in ElectionState
      BY <1>1, <2>2, <2>6, Zenon DEF ElectionState
    <2> HIDE DEF el
    <2>8. node' \in [Node -> NodeState] /\ AllKeep
      BY <2>5, <2>6 DEF AllKeep
    <2>9. election' \in [Node -> ElectionState]
      BY <1>1, <2>5, <2>7
    <2>10. QED
      BY <1>4, <2>8, <2>9, Zenon DEF RequestVote, TypeOK, AllKeep, Keeps
  <1>5. CASE CollectVote(n)
    <2> DEFINE s == node[n]
               votes(r) == election[n].votes \cup (IF r.ok THEN {r.from} ELSE {})
               counts(req) == s.role = "candidate" /\ s.term = req.term
               wins(req, r) == counts(req) /\ r.term <= s.term /\ Majority(votes(r))
               over(req, r) == ~counts(req) \/ r.term > s.term \/ wins(req, r)
                               \/ election[n].todo = <<>>
               t(req, r) == IF counts(req) /\ r.term > s.term
                            THEN BecomeFollower(s, r.term, {})
                            ELSE IF wins(req, r) THEN BecomeLeader(n, s) ELSE s
               won(r) == [term |-> s.term, leader |-> n, voters |-> votes(r)]
               el(req, r) == IF over(req, r) THEN NoElection
                             ELSE [election[n] EXCEPT !.votes = votes(r), !.reply = {}]
    <2>1. PICK req \in election[n].req, r \in election[n].reply :
            /\ node' = [node EXCEPT ![n] = t(req, r)]
            /\ elected' = IF wins(req, r) THEN elected \cup {won(r)} ELSE elected
            /\ election' = [election EXCEPT ![n] = el(req, r)]
      BY <1>5, Zenon DEF CollectVote
    <2>2. r.term \in Nat /\ r.from \in Node /\ election[n].votes \in SUBSET Node
      BY <1>1, <2>1 DEF ElectionState, Reply
    <2>3. votes(r) \in SUBSET Node
      BY <2>2
    <2>4. t(req, r) \in NodeState /\ Keeps(s, t(req, r))
      BY <1>1, <2>2, FollowerFacts, LeaderFacts, KeepsSelf
    <2>5. won(r) \in [term : Nat, leader : Node, voters : SUBSET Node]
      BY <1>1, <2>3 DEF NodeState
    <2> HIDE DEF votes
    <2>6. el(req, r) \in ElectionState
      BY <1>1, <1>2, <2>3, Zenon DEF ElectionState
    <2> HIDE DEF t, el, won, wins
    <2>7. node' \in [Node -> NodeState] /\ AllKeep
      BY <1>1, <2>1, <2>4, OneKeeps, Zenon
    <2>8. election' \in [Node -> ElectionState]
      BY <1>1, <2>1, <2>6
    <2>9. elected' \subseteq [term : Nat, leader : Node, voters : SUBSET Node]
      BY <2>1, <2>5 DEF TypeOK
    <2>10. QED
      BY <1>5, <2>7, <2>8, <2>9, Zenon DEF CollectVote, TypeOK, AllKeep, Keeps
  <1>6. QED
    BY <1>3, <1>4, <1>5 DEF ElectionStep

\* A step of HeartbeatLoop.
LEMMA HeartbeatTypes ==
  ASSUME SizeFacts, TypeInv, NEW n \in Node, HeartbeatStep(n)
  PROVE  TypeInv' /\ AllKeep
  <1> USE DEF TypeInv
  <1>1. /\ node \in [Node -> NodeState] /\ node[n] \in NodeState
        /\ heartbeat \in [Node -> HeartbeatState] /\ heartbeat[n] \in HeartbeatState
    BY DEF TypeOK
  <1>2. NoHeartbeat \in HeartbeatState
    BY SeqEmpty DEF NoHeartbeat, HeartbeatState
  <1>3. CASE HeartbeatBuild(n)
    <2> DEFINE todo == IF heartbeat[n].todo = <<>> THEN Peers[n] ELSE heartbeat[n].todo
               req == BuildAppendEntries(n, node[n], Head(todo))
               hb == [todo |-> Tail(todo), peer |-> {Head(todo)}, reply |-> {}, req |-> {req}]
    <2>1. todo # <<>> /\ heartbeat' = [heartbeat EXCEPT ![n] = hb]
      BY <1>3 DEF HeartbeatBuild
    <2>2. todo \in Seq(Node)
      BY <1>1, PeersType DEF HeartbeatState
    <2> HIDE DEF todo
    <2>3. Head(todo) \in Node /\ Tail(todo) \in Seq(Node)
      BY <2>1, <2>2, SeqHeadTail
    <2>4. req \in AppendReq
      BY <1>1, <2>3, BuildType
    <2> HIDE DEF req
    <2>5. hb \in HeartbeatState
      BY <2>3, <2>4 DEF HeartbeatState
    <2> HIDE DEF hb
    <2>6. heartbeat' \in [Node -> HeartbeatState]
      BY <1>1, <2>1, <2>5
    <2>7. node' \in [Node -> NodeState] /\ AllKeep
      BY <1>3, NoneChange DEF HeartbeatBuild
    <2>8. QED
      BY <1>3, <2>6, <2>7 DEF HeartbeatBuild, TypeOK, AllKeep, Keeps
  <1>4. CASE HeartbeatBreak(n)
    <2>1. heartbeat' \in [Node -> HeartbeatState]
      BY <1>1, <1>2, <1>4 DEF HeartbeatBreak
    <2>2. node' \in [Node -> NodeState] /\ AllKeep
      BY <1>4, NoneChange DEF HeartbeatBreak
    <2>3. QED
      BY <1>4, <2>1, <2>2 DEF HeartbeatBreak, TypeOK, AllKeep, Keeps
  <1>5. CASE HeartbeatSend(n)
    <2>1. PICK p \in heartbeat[n].peer, req \in heartbeat[n].req :
            LET d == Deliver(p, req, OnAppendEntries(node[p], req))
            IN  node' = d.node /\ heartbeat' = [heartbeat EXCEPT ![n].reply = {d.reply}]
      BY <1>5, Zenon DEF HeartbeatSend
    <2> DEFINE h == OnAppendEntries(node[p], req)
               d == Deliver(p, req, h)
               hb == [heartbeat[n] EXCEPT !.reply = {d.reply}]
    <2>2. p \in Node /\ req \in AppendReq
      BY <1>1, <2>1 DEF HeartbeatState
    <2>3. h.node \in NodeState /\ h.ok \in BOOLEAN /\ Keeps(node[p], h.node)
      BY <1>1, <2>2, AppendFacts
    <2>4. req.term \in Nat
      BY <2>2 DEF AppendReq
    <2>5. node' = d.node /\ heartbeat' = [heartbeat EXCEPT ![n] = hb]
      BY <2>1
    <2> HIDE DEF h
    <2>6. /\ d.node \in [Node -> NodeState]
          /\ \A q \in Node : Keeps(node[q], d.node[q])
          /\ d.reply \in Reply
      BY <2>2, <2>3, <2>4, DeliverFacts
    <2> HIDE DEF d
    <2>7. hb \in HeartbeatState
      BY <1>1, <2>6, Zenon DEF HeartbeatState
    <2> HIDE DEF hb
    <2>8. node' \in [Node -> NodeState] /\ AllKeep
      BY <2>5, <2>6 DEF AllKeep
    <2>9. heartbeat' \in [Node -> HeartbeatState]
      BY <1>1, <2>5, <2>7
    <2>10. QED
      BY <1>5, <2>8, <2>9 DEF HeartbeatSend, TypeOK, AllKeep, Keeps
  <1>6. CASE HeartbeatReply(n)
    <2> DEFINE s == node[n]
               t(req, r) == IF r.term > s.term THEN BecomeFollower(s, r.term, {})
                            ELSE IF r.ok THEN Acknowledged(n, s, r.from, req)
                            ELSE Backtracked(s, r.from)
               hb(r) == IF r.term > s.term THEN NoHeartbeat
                        ELSE [NoHeartbeat EXCEPT !.todo = heartbeat[n].todo]
    <2>1. PICK req \in heartbeat[n].req, r \in heartbeat[n].reply :
            /\ node' = [node EXCEPT ![n] = t(req, r)]
            /\ heartbeat' = [heartbeat EXCEPT ![n] = hb(r)]
            /\ stray' = stray \cup (IF r.ok /\ ~(r.term > s.term) /\ s.term # req.term
                                    THEN {"late"} ELSE {})
      BY <1>6, Zenon DEF HeartbeatReply
    <2>2. r.term \in Nat /\ r.from \in Node /\ req \in AppendReq
      BY <1>1, <2>1 DEF HeartbeatState, Reply
    <2>3. t(req, r) \in NodeState /\ Keeps(s, t(req, r))
      <3>1. CASE r.term > s.term
        BY <1>1, <2>2, <3>1, FollowerFacts
      <3>2. CASE ~(r.term > s.term) /\ r.ok
        BY <1>1, <2>2, <3>2, AcknowledgedFacts
      <3>3. CASE ~(r.term > s.term) /\ ~r.ok
        BY <1>1, <2>2, <3>3, BacktrackedFacts
      <3>4. QED
        BY <3>1, <3>2, <3>3
    <2>4. hb(r) \in HeartbeatState
      BY <1>1, <1>2, Zenon DEF HeartbeatState
    <2> HIDE DEF t, hb
    <2>5. node' \in [Node -> NodeState] /\ AllKeep
      BY <1>1, <2>1, <2>3, OneKeeps, Zenon
    <2>6. heartbeat' \in [Node -> HeartbeatState]
      BY <1>1, <2>1, <2>4
    <2>7. stray' \in SUBSET {"deposed", "reread", "late"}
      BY <2>1 DEF TypeOK
    <2>8. QED
      BY <1>6, <2>5, <2>6, <2>7 DEF HeartbeatReply, TypeOK, AllKeep, Keeps
  <1>7. QED
    BY <1>3, <1>4, <1>5, <1>6 DEF HeartbeatStep

\* The first lock section of a proposal.
LEMMA ProposeTypes ==
  ASSUME TypeInv, NEW n \in Node, Propose(n)
  PROVE  TypeInv' /\ AllKeep
  <1> USE DEF TypeInv
  <1> DEFINE e == [term |-> node[n].term, id |-> proposals + 1]
             s == [node[n] EXCEPT !.log = Append(node[n].log, e)]
             pr == [NoProposal EXCEPT !.at = "appended", !.entry = {e}]
  <1>1. /\ node \in [Node -> NodeState] /\ node[n] \in NodeState
        /\ proposal \in [Node -> ProposalState] /\ proposals \in Nat
    BY DEF TypeOK
  <1>2. /\ node' = [node EXCEPT ![n] = s]
        /\ proposal' = [proposal EXCEPT ![n] = pr]
        /\ proposals' = proposals + 1
    BY DEF Propose
  <1>3. e \in Entry
    BY <1>1 DEF Entry, NodeState
  <1> HIDE DEF e
  <1>4. Append(node[n].log, e) \in Seq(Entry) /\ Append(node[n].log, e) # <<>>
    <2>1. node[n].log \in Seq(Entry)
      BY <1>1 DEF NodeState
    <2> QED
      BY <1>3, <2>1, SeqAppend
  <1>5. s \in NodeState /\ Keeps(node[n], s) /\ s.log # <<>>
    BY <1>1, <1>4, Zenon DEF NodeState, Keeps
  <1>6. pr \in ProposalState
    BY <1>3, SeqEmpty, Zenon DEF NoProposal, ProposalState
  <1> HIDE DEF s, pr
  <1>7. node' \in [Node -> NodeState] /\ AllKeep
    BY <1>2, <1>5, OneKeeps, Zenon
  <1>8. proposal' \in [Node -> ProposalState] /\ proposals' \in Nat
    BY <1>1, <1>2, <1>6
  <1>9. \A q \in Node : proposal'[q].at = "appended" => node'[q].log # <<>>
    BY <1>1, <1>2, <1>5
  <1>10. QED
    BY <1>7, <1>8, <1>9, Zenon DEF Propose, TypeOK

\* A later step of a proposal.
LEMMA ProposalTypes ==
  ASSUME TypeInv, NEW n \in Node, ProposeStep(n)
  PROVE  TypeInv' /\ AllKeep
  <1> USE DEF TypeInv
  <1>1. /\ node \in [Node -> NodeState] /\ node[n] \in NodeState
        /\ proposal \in [Node -> ProposalState] /\ proposal[n] \in ProposalState
    BY DEF TypeOK
  <1>2. NoProposal \in ProposalState
    BY SeqEmpty DEF NoProposal, ProposalState
  <1>3. Len(node[n].log) \in Nat /\ node[n].term \in Nat /\ node[n].commit \in Nat
    BY <1>1, SeqLen DEF NodeState
  <1>4. ASSUME node' \in [Node -> NodeState], AllKeep, NEW pr \in ProposalState,
               pr.at # "appended", proposal' = [proposal EXCEPT ![n] = pr]
        PROVE  /\ proposal' \in [Node -> ProposalState]
               /\ \A q \in Node : proposal'[q].at = "appended" => node'[q].log # <<>>
    BY <1>1, <1>4 DEF AllKeep, Keeps
  <1>5. CASE ProposeBuild(n)
    <2>1. PICK e \in proposal[n].entry :
            LET prev == Len(node[n].log) - 1
            IN  /\ proposal[n].at = "appended"
                /\ proposal' = [proposal EXCEPT ![n] =
                     [at |-> "replicate", entry |-> {e}, todo |-> Peers[n], acks |-> {n},
                      req |-> {[term |-> node[n].term, leader |-> n, prev |-> prev,
                                prevTerm |-> TermAt(node[n], prev), entries |-> <<e>>,
                                commit |-> 0]},
                      reply |-> {}]]
                /\ stray' = stray
                     \cup (IF node[n].role # "leader" \/ node[n].log[Len(node[n].log)] # e
                           THEN {"deposed"} ELSE {})
                     \cup (IF node[n].term # e.term THEN {"reread"} ELSE {})
      BY <1>5, Zenon DEF ProposeBuild
    <2> DEFINE prev == Len(node[n].log) - 1
               req == [term |-> node[n].term, leader |-> n, prev |-> prev,
                       prevTerm |-> TermAt(node[n], prev), entries |-> <<e>>, commit |-> 0]
               pr == [at |-> "replicate", entry |-> {e}, todo |-> Peers[n], acks |-> {n},
                      req |-> {req}, reply |-> {}]
    <2>2. proposal' = [proposal EXCEPT ![n] = pr]
      BY <2>1
    <2>3. e \in Entry
      BY <1>1, <2>1 DEF ProposalState
    <2>4. prev \in Nat
      <3>1. node[n].log # <<>> /\ node[n].log \in Seq(Entry)
        BY <1>1, <2>1 DEF NodeState
      <3>2. Len(node[n].log) # 0
        BY <3>1, SeqEmpty
      <3>3. QED
        BY <1>3, <3>2
    <2>5. <<e>> \in Seq(Entry)
      BY <2>3
    <2> HIDE DEF prev
    <2>6. req \in AppendReq
      BY <1>1, <1>3, <2>4, <2>5, TermAtType DEF AppendReq
    <2> HIDE DEF req
    <2>7. pr \in ProposalState /\ pr.at # "appended"
      BY <2>3, <2>6, PeersType DEF ProposalState
    <2> HIDE DEF pr
    <2>8. node' \in [Node -> NodeState] /\ AllKeep
      BY <1>5, NoneChange DEF ProposeBuild
    <2>9. /\ proposal' \in [Node -> ProposalState]
          /\ \A q \in Node : proposal'[q].at = "appended" => node'[q].log # <<>>
      BY <1>4, <2>2, <2>7, <2>8, Zenon
    <2>10. stray' \in SUBSET {"deposed", "reread", "late"}
      BY <2>1, Zenon DEF TypeOK
    <2>11. QED
      BY <1>5, <2>8, <2>9, <2>10 DEF ProposeBuild, TypeOK
  <1>6. CASE ProposeSend(n)
    <2>1. PICK req \in proposal[n].req :
            LET p == Head(proposal[n].todo)
                d == Deliver(p, req, OnAppendEntries(node[p], req))
            IN  /\ proposal[n].todo # <<>>
                /\ node' = d.node
                /\ proposal' = [proposal EXCEPT ![n].todo = Tail(@), ![n].reply = {d.reply}]
      BY <1>6, Zenon DEF ProposeSend
    <2> DEFINE p == Head(proposal[n].todo)
               h == OnAppendEntries(node[p], req)
               d == Deliver(p, req, h)
               pr == [proposal[n] EXCEPT !.todo = Tail(proposal[n].todo), !.reply = {d.reply}]
    <2>2. p \in Node /\ Tail(proposal[n].todo) \in Seq(Node) /\ req \in AppendReq
      BY <1>1, <2>1, SeqHeadTail DEF ProposalState
    <2>3. h.node \in NodeState /\ h.ok \in BOOLEAN /\ Keeps(node[p], h.node)
      BY <1>1, <2>2, AppendFacts
    <2>4. req.term \in Nat
      BY <2>2 DEF AppendReq
    <2>5. node' = d.node /\ proposal' = [proposal EXCEPT ![n] = pr]
      BY <2>1, Zenon
    <2> HIDE DEF p, h
    <2>6. /\ d.node \in [Node -> NodeState]
          /\ \A q \in Node : Keeps(node[q], d.node[q])
          /\ d.reply \in Reply
      BY <2>2, <2>3, <2>4, DeliverFacts
    <2> HIDE DEF d
    <2>7. pr \in ProposalState /\ pr.at = proposal[n].at
      BY <1>1, <2>2, <2>6, Zenon DEF ProposalState
    <2> HIDE DEF pr
    <2>8. node' \in [Node -> NodeState] /\ AllKeep
      BY <2>5, <2>6 DEF AllKeep
    <2>9. /\ proposal' \in [Node -> ProposalState]
          /\ \A q \in Node : proposal'[q].at = "appended" => node'[q].log # <<>>
      BY <1>1, <2>5, <2>7, <2>8 DEF AllKeep, Keeps
    <2>10. QED
      BY <1>6, <2>8, <2>9, Zenon DEF ProposeSend, TypeOK
  <1>7. CASE ProposeReply(n)
    <2> DEFINE s == node[n]
               leads == s.role = "leader"
               higher(r) == leads /\ r.term > s.term
               acks(r) == proposal[n].acks \cup (IF r.ok THEN {r.from} ELSE {})
               pr(r) == IF ~leads \/ higher(r) THEN NoProposal
                        ELSE IF Majority(acks(r)) THEN [NoProposal EXCEPT !.at = "commit"]
                        ELSE IF proposal[n].todo = <<>> THEN NoProposal
                        ELSE [proposal[n] EXCEPT !.acks = acks(r), !.reply = {}]
    <2>1. PICK r \in proposal[n].reply :
            /\ proposal[n].at = "replicate"
            /\ node' = IF higher(r) THEN [node EXCEPT ![n] = BecomeFollower(s, r.term, {})]
                       ELSE node
            /\ proposal' = [proposal EXCEPT ![n] = pr(r)]
      BY <1>7, Zenon DEF ProposeReply
    <2>2. r.term \in Nat /\ r.from \in Node /\ acks(r) \in SUBSET Node
      BY <1>1, <2>1 DEF ProposalState, Reply
    <2> HIDE DEF acks, pr
    <2>3. node' \in [Node -> NodeState] /\ AllKeep
      <3>1. CASE higher(r)
        <4>1. node' = [node EXCEPT ![n] = BecomeFollower(s, r.term, {})]
          BY <2>1, <3>1
        <4>2. BecomeFollower(s, r.term, {}) \in NodeState /\ r.term >= s.term
          BY <1>1, <1>3, <2>2, <3>1, FollowerFacts
        <4>3. Keeps(s, BecomeFollower(s, r.term, {}))
          BY <1>1, <1>3, <2>2, <3>1, FollowerFacts
        <4> HIDE DEF s, higher
        <4>4. QED
          BY <4>1, <4>2, <4>3, OneKeeps, Zenon DEF s
      <3>2. CASE ~higher(r)
        BY <2>1, <3>2, NoneChange
      <3>3. QED
        BY <3>1, <3>2
    <2> USE DEF pr
    <2>4. pr(r) \in ProposalState /\ pr(r).at # "appended"
      BY <1>1, <1>2, <2>1, <2>2, Zenon DEF ProposalState, NoProposal
    <2> HIDE DEF pr
    <2>5. /\ proposal' \in [Node -> ProposalState]
          /\ \A q \in Node : proposal'[q].at = "appended" => node'[q].log # <<>>
      BY <1>4, <2>1, <2>3, <2>4, Zenon
    <2>6. QED
      BY <1>7, <2>3, <2>5, Zenon DEF ProposeReply, TypeOK
  <1>8. CASE ProposeCommit(n)
    <2> DEFINE s == node[n]
               req == [term |-> s.term, leader |-> n, prev |-> Len(s.log),
                       prevTerm |-> TermAt(s, Len(s.log)), entries |-> <<>>,
                       commit |-> s.commit]
               pr == [NoProposal EXCEPT !.at = "announce", !.todo = Peers[n], !.req = {req}]
    <2>1. proposal' = [proposal EXCEPT ![n] = pr]
      BY <1>8 DEF ProposeCommit
    <2>2. req \in AppendReq
      BY <1>1, <1>3, TermAtType, SeqEmpty DEF AppendReq
    <2> HIDE DEF req
    <2>3. pr \in ProposalState /\ pr.at # "appended"
      BY <1>2, <2>2, PeersType, Zenon DEF ProposalState, NoProposal
    <2> HIDE DEF pr
    <2>4. node' \in [Node -> NodeState] /\ AllKeep
      BY <1>8, NoneChange DEF ProposeCommit
    <2>5. /\ proposal' \in [Node -> ProposalState]
          /\ \A q \in Node : proposal'[q].at = "appended" => node'[q].log # <<>>
      BY <1>4, <2>1, <2>3, <2>4, Zenon
    <2>6. QED
      BY <1>8, <2>4, <2>5 DEF ProposeCommit, TypeOK
  <1>9. CASE AnnounceReply(n)
    <2> DEFINE s == node[n]
               higher(r) == r.term > s.term
               pr(r) == IF higher(r) \/ proposal[n].todo = <<>> THEN NoProposal
                        ELSE [proposal[n] EXCEPT !.reply = {}]
    <2>1. PICK r \in proposal[n].reply :
            /\ proposal[n].at = "announce"
            /\ node' = IF higher(r) THEN [node EXCEPT ![n] = BecomeFollower(s, r.term, {})]
                       ELSE node
            /\ proposal' = [proposal EXCEPT ![n] = pr(r)]
      BY <1>9, Zenon DEF AnnounceReply
    <2>2. r.term \in Nat
      BY <1>1, <2>1 DEF ProposalState, Reply
    <2>3. node' \in [Node -> NodeState] /\ AllKeep
      <3>1. CASE higher(r)
        BY <1>1, <2>1, <2>2, <3>1, FollowerFacts, OneKeeps, Zenon
      <3>2. CASE ~higher(r)
        BY <2>1, <3>2, NoneChange
      <3>3. QED
        BY <3>1, <3>2
    <2>4. pr(r) \in ProposalState /\ pr(r).at # "appended"
      BY <1>1, <1>2, <2>1, Zenon DEF ProposalState, NoProposal
    <2> HIDE DEF pr
    <2>5. /\ proposal' \in [Node -> ProposalState]
          /\ \A q \in Node : proposal'[q].at = "appended" => node'[q].log # <<>>
      BY <1>4, <2>1, <2>3, <2>4, Zenon
    <2>6. QED
      BY <1>9, <2>3, <2>5 DEF AnnounceReply, TypeOK
  <1>10. QED
    BY <1>5, <1>6, <1>7, <1>8, <1>9 DEF ProposeStep

\* A node that is not registered has no proposal under way.
LifeInv ==
  /\ running \subseteq registered
  /\ \A n \in Node \ registered : proposal[n].at = "idle"

\* Every step keeps LifeInv.
LEMMA LifeStep ==
  ASSUME TypeOK, LifeInv, NEW n \in Node,
         \/ ElectionStep(n) \/ HeartbeatStep(n) \/ Propose(n) \/ ProposeStep(n)
         \/ Apply(n) \/ Stop(n) \/ Unregister(n) \/ Restart(n)
  PROVE  LifeInv'
  <1>1. proposal \in [Node -> ProposalState]
    BY DEF TypeOK
  <1>2. CASE ElectionStep(n) \/ HeartbeatStep(n) \/ Apply(n)
    <2>1. UNCHANGED <<running, registered, proposal>>
      BY <1>2, Zenon DEF ElectionStep, StartElection, RequestVote, CollectVote, HeartbeatStep,
                  HeartbeatBuild, HeartbeatBreak, HeartbeatSend, HeartbeatReply, Apply
    <2>2. QED
      BY <2>1 DEF LifeInv
  <1>3. CASE Propose(n)
    BY <1>1, <1>3 DEF Propose, LifeInv
  <1>4. CASE ProposeStep(n)
    <2>1. CASE ProposeSend(n)
      <3>1. PICK req \in proposal[n].req :
              proposal' = [proposal EXCEPT ![n].todo = Tail(@), ![n].reply =
                             {Deliver(Head(proposal[n].todo), req,
                                      OnAppendEntries(node[Head(proposal[n].todo)], req)).reply}]
        BY <2>1, Zenon DEF ProposeSend
      <3>2. \A q \in Node : proposal'[q].at = proposal[q].at
        BY <1>1, <3>1 DEF ProposalState
      <3>3. UNCHANGED <<running, registered>>
        BY <2>1 DEF ProposeSend
      <3>4. QED
        BY <3>2, <3>3 DEF LifeInv
    <2>2. CASE ProposeBuild(n) \/ ProposeReply(n) \/ ProposeCommit(n) \/ AnnounceReply(n)
      <3>1. proposal[n].at # "idle" /\ UNCHANGED <<running, registered>>
        BY <2>2, Zenon DEF ProposeBuild, ProposeReply, ProposeCommit, AnnounceReply
      <3>2. \A q \in Node \ {n} : proposal'[q] = proposal[q]
        BY <1>1, <2>2, Zenon DEF ProposeBuild, ProposeReply, ProposeCommit, AnnounceReply
      <3>3. QED
        BY <3>1, <3>2 DEF LifeInv
    <2>3. QED
      BY <1>4, <2>1, <2>2 DEF ProposeStep
  <1>5. CASE Stop(n)
    BY <1>5 DEF Stop, LifeInv
  <1>6. CASE Unregister(n)
    BY <1>6 DEF Unregister, LifeInv
  <1>7. CASE Restart(n)
    BY <1>7 DEF Restart, LifeInv
  <1>8. QED
    BY <1>2, <1>3, <1>4, <1>5, <1>6, <1>7

\* ApplyLoop, Stop and Unregister.
LEMMA OtherTypes ==
  ASSUME TypeInv, NEW n \in Node, Apply(n) \/ Stop(n) \/ Unregister(n)
  PROVE  TypeInv' /\ AllKeep
  <1> USE DEF TypeInv
  <1>1. UNCHANGED <<node, proposal>>
    BY DEF Apply, Stop, Unregister
  <1>2. node' \in [Node -> NodeState] /\ AllKeep
    BY <1>1, NoneChange
  <1>3. CASE Apply(n)
    <2> DEFINE i == Len(applied[n]) + 1
               e == IF i <= Len(node[n].log) THEN node[n].log[i] ELSE Garbage
    <2>1. applied \in [Node -> Seq(Entry \cup {Garbage})] /\ node[n].log \in Seq(Entry)
      BY DEF TypeOK, NodeState
    <2>2. e \in Entry \cup {Garbage}
      BY <2>1
    <2>3. applied' = [applied EXCEPT ![n] = Append(applied[n], e)]
      BY <1>3 DEF Apply
    <2> HIDE DEF e
    <2>4. Append(applied[n], e) \in Seq(Entry \cup {Garbage})
      BY <2>1, <2>2
    <2>5. applied' \in [Node -> Seq(Entry \cup {Garbage})]
      BY <2>1, <2>3, <2>4
    <2>6. QED
      BY <1>1, <1>2, <1>3, <2>5 DEF Apply, TypeOK
  <1>4. CASE Stop(n)
    BY <1>2, <1>4 DEF Stop, TypeOK
  <1>5. CASE Unregister(n)
    BY <1>2, <1>5 DEF Unregister, TypeOK
  <1>6. QED
    BY <1>3, <1>4, <1>5

\* A node that is created again.
LEMMA NewNodeType == NewNode \in NodeState
  BY SeqEmpty DEF NewNode, NodeState

\* A restart forgets everything, so it keeps the types only.
LEMMA RestartTypes ==
  ASSUME TypeInv, LifeInv, NEW n \in Node, Restart(n)
  PROVE  TypeInv'
  <1> USE DEF TypeInv
  <1>1. /\ node \in [Node -> NodeState] /\ restarts \in Nat
        /\ applied \in [Node -> Seq(Entry \cup {Garbage})]
    BY DEF TypeOK
  <1>2. node' \in [Node -> NodeState] /\ \A q \in Node \ {n} : node'[q] = node[q]
    BY <1>1, NewNodeType DEF Restart
  <1>3. applied' \in [Node -> Seq(Entry \cup {Garbage})] /\ restarts' \in Nat
    BY <1>1, SeqEmpty DEF Restart
  <1>4. proposal' = proposal /\ proposal[n].at = "idle"
    BY DEF Restart, LifeInv
  <1>5. QED
    BY <1>2, <1>3, <1>4 DEF Restart, TypeOK

\* The initial states.
LEMMA TypesInit ==
  ASSUME Init
  PROVE  TypeInv /\ LifeInv
  <1>1. /\ NoElection \in ElectionState /\ NoHeartbeat \in HeartbeatState
        /\ NoProposal \in ProposalState /\ NoProposal.at = "idle"
    BY SeqEmpty DEF NoElection, NoHeartbeat, NoProposal, ElectionState, HeartbeatState,
                    ProposalState
  <1>2. TypeOK
    BY <1>1, NewNodeType, SeqEmpty, Zenon DEF Init, TypeOK
  <1>3. \A n \in Node : proposal[n].at = "idle"
    BY <1>1 DEF Init
  <1>4. running = registered
    BY DEF Init
  <1>5. QED
    BY <1>2, <1>3, <1>4 DEF TypeInv, LifeInv

\* A step keeps the types and, unless it is a restart, what Keeps says.
LEMMA TypesStep ==
  ASSUME SizeFacts, TypeInv, LifeInv, [Next]_vars
  PROVE  TypeInv' /\ LifeInv' /\ (AllKeep \/ \E n \in Node : Restart(n))
  <1>1. CASE Next
    <2>1. PICK n \in Node :
            \/ ElectionStep(n) \/ HeartbeatStep(n) \/ Propose(n) \/ ProposeStep(n)
            \/ Apply(n) \/ Stop(n) \/ Unregister(n) \/ Restart(n)
      BY <1>1 DEF Next
    <2>2. LifeInv'
      BY <2>1, LifeStep DEF TypeInv
    <2>3. TypeInv' /\ (AllKeep \/ Restart(n))
      BY <2>1, ElectionTypes, HeartbeatTypes, ProposeTypes, ProposalTypes, OtherTypes,
         RestartTypes
    <2>4. QED
      BY <2>2, <2>3
  <1>2. CASE UNCHANGED vars
    <2>1. AllKeep
      BY <1>2, NoneChange DEF vars, TypeInv
    <2>2. TypeInv' /\ LifeInv'
      BY <1>2 DEF vars, TypeInv, TypeOK, LifeInv
    <2>3. QED
      BY <2>1, <2>2
  <1>3. QED
    BY <1>1, <1>2

-----------------------------------------------------------------------------
(* Election safety.                                                        *)

\* The votes that c has counted, and one that is granted and not counted yet.
Held(c) == election[c].votes \cup {r.from : r \in {a \in election[c].reply : a.ok}}

\* Somebody won the election of term t with w's vote, or l is about to count it.
Claimed(w, t, l) ==
  \/ \E e \in elected : e.term = t /\ e.leader = l /\ w \in e.voters
  \/ \E q \in election[l].req : q.term = t /\ w \in Held(l)

\* w's vote of term t went to l, or w is in a later term, where its vote of t is
\* out of reach.
Voted(w, t, l) ==
  node[w].term > t \/ (node[w].term = t /\ node[w].votedFor = {l})

\* Whoever claims a vote was given it.
ClaimsVoted == \A w, l \in Node, t \in Nat : Claimed(w, t, l) => Voted(w, t, l)

\* One vote of one term is claimed for one candidate.
ClaimsUnique ==
  \A w, l, m \in Node, t \in Nat : Claimed(w, t, l) /\ Claimed(w, t, m) => l = m

\* The inductive invariant while no node was created again.
VoteInv ==
  /\ ClaimsVoted
  /\ ClaimsUnique
  /\ \A c \in Node : \A q \in election[c].req : q.candidate = c
  /\ \A c \in Node : \A q, r \in election[c].req : q = r
  /\ \A e \in elected : Majority(e.voters)

\* Claims stay right when a step adds only claims of votes that stand at its end.
LEMMA ClaimStep ==
  ASSUME TypeOK, TypeOK', AllKeep, ClaimsVoted, ClaimsUnique,
         \A w, l \in Node, t \in Nat :
           Claimed(w, t, l)' =>
             Claimed(w, t, l) \/ (node'[w].term = t /\ node'[w].votedFor = {l})
  PROVE  ClaimsVoted' /\ ClaimsUnique'
  <1>1. \A w \in Node : /\ node[w].term \in Nat /\ node'[w].term \in Nat
                        /\ Keeps(node[w], node'[w])
    BY DEF TypeOK, NodeState, AllKeep
  <1>2. ASSUME NEW w \in Node, NEW l \in Node, NEW t \in Nat, Claimed(w, t, l)'
        PROVE  Voted(w, t, l)'
    <2>1. CASE Claimed(w, t, l)
      <3>1. Voted(w, t, l)
        BY <2>1 DEF ClaimsVoted
      <3>2. QED
        BY <1>1, <3>1 DEF Voted, Keeps
    <2>2. CASE node'[w].term = t /\ node'[w].votedFor = {l}
      BY <2>2 DEF Voted
    <2>3. QED
      BY <1>2, <2>1, <2>2
  <1>3. ASSUME NEW w \in Node, NEW l \in Node, NEW m \in Node, NEW t \in Nat,
               Claimed(w, t, l)', Claimed(w, t, m)'
        PROVE  l = m
    <2>1. CASE Claimed(w, t, l) /\ Claimed(w, t, m)
      BY <2>1 DEF ClaimsUnique
    <2>2. CASE ~(Claimed(w, t, l) /\ Claimed(w, t, m))
      <3>1. node'[w].term = t /\ (node'[w].votedFor = {l} \/ node'[w].votedFor = {m})
        BY <1>3, <2>2
      <3>2. Voted(w, t, l)' /\ Voted(w, t, m)'
        BY <1>2, <1>3
      <3>3. node'[w].votedFor = {l} /\ node'[w].votedFor = {m}
        BY <1>1, <3>1, <3>2 DEF Voted
      <3>4. QED
        BY <3>3
    <2>3. QED
      BY <2>1, <2>2
  <1>4. QED
    BY <1>2, <1>3 DEF ClaimsVoted, ClaimsUnique

\* A step that touches no election changes no claim.
LEMMA ClaimsSame ==
  ASSUME TypeOK, TypeOK', AllKeep, VoteInv, UNCHANGED <<election, elected>>
  PROVE  VoteInv'
  <1>1. \A w, l, t : Claimed(w, t, l)' <=> Claimed(w, t, l)
    BY DEF Claimed, Held
  <1>2. ClaimsVoted' /\ ClaimsUnique'
    BY <1>1, ClaimStep DEF VoteInv
  <1>3. QED
    BY <1>2 DEF VoteInv

\* The candidacy: the new claim is the node's vote for itself.
LEMMA StartElectionVotes ==
  ASSUME TypeOK, TypeOK', AllKeep, VoteInv, NEW n \in Node, StartElection(n)
  PROVE  VoteInv'
  <1> DEFINE s == BecomeCandidate(n, node[n])
             req == [term |-> s.term, candidate |-> n,
                     lastIndex |-> Len(s.log), lastTerm |-> LastTerm(s)]
             el == [req |-> {req}, todo |-> Peers[n], votes |-> {n}, reply |-> {}]
  <1>1. /\ node' = [node EXCEPT ![n] = s] /\ election' = [election EXCEPT ![n] = el]
        /\ elected' = elected
    BY Zenon DEF StartElection
  <1>2. /\ node \in [Node -> NodeState] /\ node[n] \in NodeState
        /\ election \in [Node -> ElectionState]
    BY DEF TypeOK
  <1>3. s.votedFor = {n}
    BY <1>2, CandidateFacts
  <1> HIDE DEF s
  <1>4. req.term = s.term /\ req.candidate = n
    OBVIOUS
  <1> HIDE DEF req
  <1>5. node'[n] = s /\ election'[n] = el /\ \A c \in Node \ {n} : election'[c] = election[c]
    BY <1>1, <1>2
  <1>6. Held(n)' = {n} /\ election'[n].req = {req}
    BY <1>5 DEF Held
  <1> HIDE DEF el
  <1>7. ASSUME NEW w \in Node, NEW l \in Node, NEW t \in Nat, Claimed(w, t, l)'
        PROVE  Claimed(w, t, l) \/ (node'[w].term = t /\ node'[w].votedFor = {l})
    <2>1. CASE \E e \in elected' : e.term = t /\ e.leader = l /\ w \in e.voters
      BY <1>1, <2>1 DEF Claimed
    <2>2. CASE l # n /\ \E q \in election'[l].req : q.term = t /\ w \in Held(l)'
      BY <1>5, <2>2 DEF Claimed, Held
    <2>3. CASE l = n /\ \E q \in election'[l].req : q.term = t /\ w \in Held(l)'
      BY <1>3, <1>4, <1>5, <1>6, <2>3
    <2>4. QED
      BY <1>7, <2>1, <2>2, <2>3 DEF Claimed
  <1>8. ClaimsVoted' /\ ClaimsUnique'
    BY <1>7, ClaimStep DEF VoteInv
  <1>9. \A c \in Node : \A q \in election'[c].req : q.candidate = c
    BY <1>4, <1>5, <1>6 DEF VoteInv
  <1>10. \A c \in Node : \A q, r \in election'[c].req : q = r
    BY <1>5, <1>6 DEF VoteInv
  <1>11. QED
    BY <1>1, <1>8, <1>9, <1>10 DEF VoteInv

\* The call: the new claim is the vote the peer has just granted.
LEMMA RequestVoteVotes ==
  ASSUME TypeOK, TypeOK', AllKeep, VoteInv, NEW n \in Node, RequestVote(n)
  PROVE  VoteInv'
  <1>1. PICK req \in election[n].req :
          LET p == Head(election[n].todo)
              d == Deliver(p, req, OnRequestVote(node[p], req))
          IN  /\ election[n].todo # <<>>
              /\ node' = d.node
              /\ election' = [election EXCEPT ![n].todo = Tail(@), ![n].reply = {d.reply}]
              /\ elected' = elected
    BY Zenon DEF RequestVote
  <1> DEFINE p == Head(election[n].todo)
             h == OnRequestVote(node[p], req)
             d == Deliver(p, req, h)
  <1>2. /\ node \in [Node -> NodeState]
        /\ election \in [Node -> ElectionState] /\ election[n] \in ElectionState
    BY DEF TypeOK
  <1>3. p \in Node /\ req \in VoteReq /\ req.candidate = n
    BY <1>1, <1>2, SeqHeadTail DEF ElectionState, VoteInv
  <1>4. /\ h.node \in NodeState /\ h.ok \in BOOLEAN /\ Keeps(node[p], h.node)
        /\ h.ok => h.node.term = req.term /\ h.node.votedFor = {n}
    BY <1>2, <1>3, VoteFacts, Zenon
  <1>5. req.term \in Nat
    BY <1>3 DEF VoteReq
  <1>6. /\ node' = d.node /\ elected' = elected
        /\ election'[n].req = election[n].req
        /\ election'[n].votes = election[n].votes
        /\ election'[n].reply = {d.reply}
        /\ \A c \in Node \ {n} : election'[c] = election[c]
    BY <1>1, <1>2 DEF ElectionState
  <1> HIDE DEF p, h
  <1>7. d.reply.from = p /\ (d.reply.ok => h.ok /\ d.node[p] = h.node)
    BY <1>3, <1>4, <1>5, DeliverFacts, Zenon
  <1> HIDE DEF d
  <1>8. ASSUME NEW w \in Node, NEW l \in Node, NEW t \in Nat, Claimed(w, t, l)'
        PROVE  Claimed(w, t, l) \/ (node'[w].term = t /\ node'[w].votedFor = {l})
    <2>1. CASE \E e \in elected' : e.term = t /\ e.leader = l /\ w \in e.voters
      BY <1>6, <2>1 DEF Claimed
    <2>2. CASE l # n /\ \E q \in election'[l].req : q.term = t /\ w \in Held(l)'
      BY <1>6, <2>2 DEF Claimed, Held
    <2>3. CASE l = n /\ \E q \in election'[l].req : q.term = t /\ w \in Held(l)'
      <3>1. PICK q \in election[n].req : q.term = t
        BY <1>6, <2>3
      <3>2. CASE w \in election[n].votes
        BY <2>3, <3>1, <3>2 DEF Claimed, Held
      <3>3. CASE w \notin election[n].votes
        <4>1. w = p /\ d.reply.ok
          BY <1>6, <1>7, <2>3, <3>3 DEF Held
        <4>2. q = req
          BY <1>1, <3>1 DEF VoteInv
        <4>3. QED
          BY <1>4, <1>6, <1>7, <2>3, <3>1, <4>1, <4>2
      <3>4. QED
        BY <3>2, <3>3
    <2>4. QED
      BY <1>8, <2>1, <2>2, <2>3, Zenon DEF Claimed
  <1>9. ClaimsVoted' /\ ClaimsUnique'
    BY <1>8, ClaimStep DEF VoteInv
  <1>10. \A c \in Node : \A q \in election'[c].req : q.candidate = c
    BY <1>6 DEF VoteInv
  <1>11. \A c \in Node : \A q, r \in election'[c].req : q = r
    BY <1>6 DEF VoteInv
  <1>12. QED
    BY <1>6, <1>9, <1>10, <1>11 DEF VoteInv

\* The answer: what is counted, and what is won, was claimed before.
LEMMA CollectVoteVotes ==
  ASSUME TypeOK, TypeOK', AllKeep, VoteInv, NEW n \in Node, CollectVote(n)
  PROVE  VoteInv'
  <1> DEFINE s == node[n]
             votes(r) == election[n].votes \cup (IF r.ok THEN {r.from} ELSE {})
             counts(q) == s.role = "candidate" /\ s.term = q.term
             wins(q, r) == counts(q) /\ r.term <= s.term /\ Majority(votes(r))
             over(q, r) == ~counts(q) \/ r.term > s.term \/ wins(q, r)
                           \/ election[n].todo = <<>>
             won(r) == [term |-> s.term, leader |-> n, voters |-> votes(r)]
  <1>1. PICK req \in election[n].req, reply \in election[n].reply :
          /\ elected' = IF wins(req, reply) THEN elected \cup {won(reply)} ELSE elected
          /\ election' = [election EXCEPT ![n] =
               IF over(req, reply) THEN NoElection
               ELSE [@ EXCEPT !.votes = votes(reply), !.reply = {}]]
    BY Zenon DEF CollectVote
  <1>2. election \in [Node -> ElectionState] /\ election[n] \in ElectionState
    BY Zenon DEF TypeOK
  <1>3. votes(reply) \subseteq Held(n)
    BY <1>1 DEF Held
  <1>4. wins(req, reply) => /\ won(reply).term = req.term /\ won(reply).leader = n
                            /\ won(reply).voters = votes(reply) /\ Majority(votes(reply))
    OBVIOUS
  <1>5. \A e \in elected' :
          e \in elected \/ (e = won(reply) /\ wins(req, reply))
    BY <1>1
  <1> HIDE DEF votes, wins, over, won
  <1>6. \A c \in Node \ {n} : election'[c] = election[c]
    BY <1>1, <1>2
  <1>7. /\ election'[n].req \subseteq election[n].req
        /\ election'[n].req # {} => Held(n)' \subseteq Held(n)
    <2>1. CASE over(req, reply)
      BY <1>1, <1>2, <2>1 DEF NoElection
    <2>2. CASE ~over(req, reply)
      <3>1. election'[n] = [election[n] EXCEPT !.votes = votes(reply), !.reply = {}]
        BY <1>1, <1>2, <2>2
      <3>2. /\ election'[n].req = election[n].req
            /\ election'[n].votes = votes(reply) /\ election'[n].reply = {}
        BY <1>2, <3>1 DEF ElectionState
      <3>3. QED
        BY <1>3, <3>2 DEF Held
    <2>3. QED
      BY <2>1, <2>2
  <1>8. ASSUME NEW w \in Node, NEW l \in Node, NEW t \in Nat, Claimed(w, t, l)'
        PROVE  Claimed(w, t, l)
    <2>1. CASE \E e \in elected' : e.term = t /\ e.leader = l /\ w \in e.voters
      BY <1>1, <1>3, <1>4, <1>5, <2>1 DEF Claimed
    <2>2. CASE l # n /\ \E q \in election'[l].req : q.term = t /\ w \in Held(l)'
      BY <1>6, <2>2 DEF Claimed, Held
    <2>3. CASE l = n /\ \E q \in election'[l].req : q.term = t /\ w \in Held(l)'
      BY <1>7, <2>3 DEF Claimed
    <2>4. QED
      BY <1>8, <2>1, <2>2, <2>3 DEF Claimed
  <1>9. ClaimsVoted' /\ ClaimsUnique'
    BY <1>8, ClaimStep DEF VoteInv
  <1>10. \A c \in Node : \A q \in election'[c].req : q.candidate = c
    BY <1>6, <1>7 DEF VoteInv
  <1>11. \A c \in Node : \A q, r \in election'[c].req : q = r
    BY <1>6, <1>7 DEF VoteInv
  <1>12. \A e \in elected' : Majority(e.voters)
    BY <1>4, <1>5 DEF VoteInv
  <1>13. QED
    BY <1>9, <1>10, <1>11, <1>12 DEF VoteInv

\* Every step but a restart keeps the votes right.
LEMMA VotesStep ==
  ASSUME SizeFacts, TypeInv, LifeInv, VoteInv, [Next]_vars
  PROVE  VoteInv' \/ \E n \in Node : Restart(n)
  <1>1. TypeOK /\ TypeOK' /\ (AllKeep \/ \E n \in Node : Restart(n))
    BY TypesStep DEF TypeInv
  <1>2. SUFFICES ASSUME AllKeep PROVE VoteInv' \/ \E n \in Node : Restart(n)
    BY <1>1
  <1>3. CASE Next
    <2>1. PICK n \in Node :
            \/ ElectionStep(n) \/ HeartbeatStep(n) \/ Propose(n) \/ ProposeStep(n)
            \/ Apply(n) \/ Stop(n) \/ Unregister(n) \/ Restart(n)
      BY <1>3 DEF Next
    <2>2. CASE ElectionStep(n)
      BY <1>1, <1>2, <2>2, StartElectionVotes, RequestVoteVotes, CollectVoteVotes
         DEF ElectionStep
    <2>3. CASE HeartbeatStep(n)
      <3>1. UNCHANGED <<election, elected>>
        BY <2>3 DEF HeartbeatStep, HeartbeatBuild, HeartbeatBreak, HeartbeatSend,
                    HeartbeatReply
      <3>2. QED
        BY <1>1, <1>2, <3>1, ClaimsSame
    <2>4. CASE Propose(n) \/ ProposeStep(n)
      <3>1. UNCHANGED <<election, elected>>
        BY <2>4, Zenon DEF Propose, ProposeStep, ProposeBuild, ProposeSend, ProposeReply,
                    ProposeCommit, AnnounceReply
      <3>2. QED
        BY <1>1, <1>2, <3>1, ClaimsSame
    <2>5. CASE Apply(n) \/ Stop(n) \/ Unregister(n)
      <3>1. UNCHANGED <<election, elected>>
        BY <2>5 DEF Apply, Stop, Unregister
      <3>2. QED
        BY <1>1, <1>2, <3>1, ClaimsSame
    <2>6. QED
      BY <2>1, <2>2, <2>3, <2>4, <2>5
  <1>4. CASE UNCHANGED vars
    BY <1>1, <1>2, <1>4, ClaimsSame DEF vars
  <1>5. QED
    BY <1>3, <1>4

\* Any two claims of a term have a voter in common, so they are one candidate's.
LEMMA VotesDecide ==
  ASSUME SizeFacts, TypeOK, VoteInv, NEW e \in elected, NEW f \in elected, e.term = f.term
  PROVE  e.leader = f.leader
  <1>1. /\ e.voters \in SUBSET Node /\ f.voters \in SUBSET Node
        /\ e.leader \in Node /\ f.leader \in Node /\ e.term \in Nat
    BY DEF TypeOK
  <1>2. PICK w \in e.voters : w \in f.voters
    BY <1>1, QuorumsMeet DEF VoteInv
  <1>3. Claimed(w, e.term, e.leader) /\ Claimed(w, e.term, f.leader)
    BY <1>2 DEF Claimed
  <1>4. QED
    BY <1>1, <1>2, <1>3 DEF VoteInv, ClaimsUnique

\* n has won the election of term t.
Won(t, n) == \E e \in elected : e.term = t /\ e.leader = n

\* The entries requests that n has under way.
Requests(n) == heartbeat[n].req \cup proposal[n].req

\* The term of the entry before the i-th, as TermAt gives it.
Before(log, i) == IF i = 1 THEN 0 ELSE log[i - 1].term

\* A log has e at index i, after an entry of term b.
LogHas(log, i, b, e) == i \in DOMAIN log /\ b = Before(log, i) /\ e = log[i]

\* A request carries e for index i, after an entry of term b.
ReqHas(r, i, b, e) ==
  /\ i \in Nat /\ i - r.prev \in DOMAIN r.entries
  /\ e = r.entries[i - r.prev]
  /\ b = IF i - r.prev = 1 THEN r.prevTerm ELSE r.entries[i - r.prev - 1].term

\* Some log has e at index i after term b, or some request carries it.
IsLink(i, b, e) ==
  \E n \in Node : LogHas(node[n].log, i, b, e) \/ \E r \in Requests(n) : ReqHas(r, i, b, e)

\* A link is of its types, terms rise along it, and its entry's term was won.
LinkShape ==
  \A i, b, e : IsLink(i, b, e) =>
    /\ i \in Nat /\ i >= 1 /\ b \in Nat /\ e \in Entry /\ b <= e.term
    /\ \E w \in Node : Won(e.term, w)

\* The index and the term of an entry decide the entry and the term before it.
LinkUnique ==
  \A i, b, e, c, f : IsLink(i, b, e) /\ IsLink(i, c, f) /\ e.term = f.term => b = c /\ e = f

\* The entries of a term follow each other.
LinkDense ==
  \A i, b, e, j, c, f :
    IsLink(i, b, e) /\ IsLink(j, c, f) /\ e.term = f.term /\ i < j => c = f.term

\* Who has won the current term has all entries of that term.
OwnerHas ==
  \A n \in Node : Won(node[n].term, n) =>
    \A i, b, e : IsLink(i, b, e) /\ e.term = node[n].term => LogHas(node[n].log, i, b, e)

\* A leader has won its term; who has won a term is past it, or no candidate in it.
WonInv ==
  /\ \A n \in Node : node[n].role = "leader" => Won(node[n].term, n)
  /\ \A n \in Node : \A t \in Nat : Won(t, n) =>
       node[n].term >= t /\ (node[n].term = t => node[n].role # "candidate")

\* Entries are of past or current terms.
TermInv ==
  /\ \A n \in Node : \A i \in DOMAIN node[n].log : node[n].log[i].term <= node[n].term
  /\ \A n \in Node : \A r \in Requests(n) :
       \A j \in DOMAIN r.entries : r.entries[j].term <= r.term

\* The stages of a proposal: what is to be sent is the last entry, if the term is
\* still the same.
StageInv ==
  \A n \in Node :
    /\ proposal[n].at \in {"idle", "appended", "commit"} => proposal[n].req = {}
    /\ proposal[n].at = "announce" => \A r \in proposal[n].req : r.entries = <<>>
    /\ proposal[n].at = "appended" => \A e \in proposal[n].entry :
         /\ Won(e.term, n)
         /\ node[n].term = e.term =>
              Len(node[n].log) > 0 /\ node[n].log[Len(node[n].log)] = e

\* Entries and heartbeats are sent by who has won their term, to others.
ReqInv ==
  \A n \in Node :
    /\ heartbeat[n].peer \subseteq Node \ {n}
    /\ heartbeat[n].todo \in Seq(Node \ {n})
    /\ proposal[n].todo \in Seq(Node \ {n})
    /\ \A r \in heartbeat[n].req : Won(r.term, n)
    /\ \A r \in proposal[n].req : r.entries # <<>> => Won(r.term, n)
    /\ \A q, r \in heartbeat[n].req : q = r

\* The inductive invariant for log matching.
LinkInv ==
  /\ LinkShape /\ LinkUnique /\ LinkDense /\ OwnerHas
  /\ WonInv /\ TermInv /\ StageInv /\ ReqInv

-----------------------------------------------------------------------------
(* The helpers on one log.                                                 *)

\* The last index that a request reaches.
Last(r) == r.prev + Len(r.entries)

\* Entries behind a prefix.
LEMMA SpliceFacts ==
  ASSUME NEW log \in Seq(Entry), NEW r \in AppendReq, r.prev <= Len(log)
  PROVE  LET new == SubSeq(log, 1, r.prev) \o r.entries
         IN  /\ new \in Seq(Entry)
             /\ Len(new) = Last(r)
             /\ \A i \in 1..r.prev : new[i] = log[i]
             /\ \A i \in (r.prev + 1)..Last(r) : new[i] = r.entries[i - r.prev]
  <1> DEFINE old == SubSeq(log, 1, r.prev)
             new == old \o r.entries
  <1>1. /\ r.prev \in Nat /\ r.entries \in Seq(Entry) /\ Len(log) \in Nat
        /\ Len(r.entries) \in Nat
    BY SeqLen DEF AppendReq
  <1>2. \A i \in 1..r.prev : log[i] \in Entry
    BY <1>1, SeqElement
  <1>3. /\ old \in Seq(Entry)
        /\ Len(old) = r.prev
        /\ \A i \in 1..r.prev : old[i] = log[i]
    BY <1>1, <1>2, SeqPart
  <1> HIDE DEF old
  <1>4. /\ new \in Seq(Entry)
        /\ Len(new) = Len(old) + Len(r.entries)
        /\ \A i \in 1..(Len(old) + Len(r.entries)) :
             new[i] = IF i <= Len(old) THEN old[i] ELSE r.entries[i - Len(old)]
    BY <1>1, <1>3, SeqConcat, Zenon
  <1> HIDE DEF new
  <1>5. QED
    BY <1>1, <1>3, <1>4 DEF Last, new, old

\* What a log has after entries were taken, it had or was sent.
LEMMA SpliceLinks ==
  ASSUME NEW log \in Seq(Entry), NEW r \in AppendReq, r.prev <= Len(log),
         r.prevTerm = IF r.prev \in 1..Len(log) THEN log[r.prev].term ELSE 0,
         NEW i, NEW b, NEW e,
         LogHas(SubSeq(log, 1, r.prev) \o r.entries, i, b, e)
  PROVE  LogHas(log, i, b, e) \/ ReqHas(r, i, b, e)
  <1> DEFINE new == SubSeq(log, 1, r.prev) \o r.entries
  <1>1. /\ r.prev \in Nat /\ r.entries \in Seq(Entry) /\ Len(log) \in Nat
        /\ Len(r.entries) \in Nat
    BY SeqLen DEF AppendReq
  <1>2. /\ new \in Seq(Entry)
        /\ Len(new) = Last(r)
        /\ \A k \in 1..r.prev : new[k] = log[k]
        /\ \A k \in (r.prev + 1)..Last(r) : new[k] = r.entries[k - r.prev]
    BY SpliceFacts, Zenon
  <1>3. LogHas(new, i, b, e)
    OBVIOUS
  <1> HIDE DEF new
  <1>4. DOMAIN new = 1..Last(r) /\ DOMAIN log = 1..Len(log) /\ DOMAIN r.entries = 1..Len(r.entries)
    BY <1>1, <1>2, SeqLen
  <1>5. i \in 1..(r.prev + Len(r.entries)) /\ b = Before(new, i) /\ e = new[i]
    BY <1>3, <1>4, Zenon DEF LogHas, Last
  <1>6. CASE i <= r.prev
    <2>1. i \in 1..Len(log) /\ e = log[i]
      BY <1>1, <1>2, <1>5, <1>6
    <2>2. b = Before(log, i)
      <3>1. CASE i = 1
        BY <1>5, <3>1 DEF Before
      <3>2. CASE i # 1
        <4>1. i - 1 \in 1..r.prev
          BY <1>1, <1>5, <1>6, <3>2
        <4>2. QED
          BY <1>2, <1>5, <3>2, <4>1 DEF Before
      <3>3. QED
        BY <3>1, <3>2
    <2>3. QED
      BY <1>4, <2>1, <2>2, Zenon DEF LogHas
  <1>7. CASE i > r.prev
    <2>1. i \in (r.prev + 1)..Last(r) /\ i - r.prev \in 1..Len(r.entries)
      BY <1>1, <1>5, <1>7 DEF Last
    <2>2. e = r.entries[i - r.prev]
      BY <1>2, <1>5, <2>1
    <2>3. b = IF i - r.prev = 1 THEN r.prevTerm ELSE r.entries[i - r.prev - 1].term
      <3>1. CASE i - r.prev = 1 /\ r.prev = 0
        <4>1. i = 1
          BY <1>1, <1>5, <3>1
        <4>2. QED
          BY <1>1, <1>5, <3>1, <4>1 DEF Before
      <3>2. CASE i - r.prev = 1 /\ r.prev # 0
        <4>1. i # 1 /\ i - 1 = r.prev /\ r.prev \in 1..r.prev /\ r.prev \in 1..Len(log)
          BY <1>1, <1>5, <3>2
        <4>2. QED
          BY <1>2, <1>5, <3>2, <4>1 DEF Before
      <3>3. CASE i - r.prev # 1
        <4>0. i \in Nat /\ i > r.prev + 1 /\ i <= r.prev + Len(r.entries)
          <5>1. i \in Nat /\ i <= r.prev + Len(r.entries)
            BY <1>1, <1>5
          <5>2. QED
            BY <1>1, <1>7, <3>3, <5>1
        <4>1. /\ i # 1 /\ i - 1 \in (r.prev + 1)..Last(r)
              /\ (i - 1) - r.prev = i - r.prev - 1
          BY <1>1, <4>0 DEF Last
        <4>2. new[i - 1] = r.entries[i - r.prev - 1]
          BY <1>2, <4>1
        <4>3. b = new[i - 1].term
          BY <1>5, <4>1 DEF Before
        <4>4. QED
          BY <3>3, <4>2, <4>3
      <3>4. QED
        BY <3>1, <3>2, <3>3
    <2>4. i \in Nat
      BY <1>1, <1>5
    <2>5. QED
      BY <1>4, <2>1, <2>2, <2>3, <2>4 DEF ReqHas
  <1>8. QED
    BY <1>1, <1>5, <1>6, <1>7

\* What the handler of entries does, case by case.
LEMMA AppendCases ==
  ASSUME NEW s \in NodeState, NEW r \in AppendReq
  PROVE  LET h == OnAppendEntries(s, r)
             t == h.node
         IN  /\ t.match = s.match /\ t.next = s.next
             /\ r.term < s.term => t = s /\ ~h.ok
             /\ r.term >= s.term => t.term = r.term /\ t.role = "follower"
             /\ ~h.ok => t.log = s.log /\ t.commit = s.commit
             /\ h.ok => /\ r.term >= s.term
                        /\ r.prev <= Len(s.log) /\ TermAt(s, r.prev) = r.prevTerm
                        /\ t.log = IF r.entries = <<>> THEN s.log
                                   ELSE SubSeq(s.log, 1, r.prev) \o r.entries
                        /\ \/ t.commit = s.commit /\ r.commit <= s.commit
                           \/ /\ r.commit > s.commit /\ t.commit <= r.commit
                              /\ t.commit \in {r.commit, Len(t.log)}
                              /\ t.commit <= Len(t.log)
  <1> DEFINE t == IF r.term > s.term
                  THEN BecomeFollower(s, r.term, {r.leader})
                  ELSE [s EXCEPT !.role = "follower", !.leader = {r.leader}]
             consistent == r.prev <= Len(t.log) /\ TermAt(t, r.prev) = r.prevTerm
             log == IF r.entries = <<>> THEN t.log
                    ELSE SubSeq(t.log, 1, r.prev) \o r.entries
             commit == IF r.commit > t.commit THEN Min({r.commit, Len(log)})
                       ELSE t.commit
             u == [t EXCEPT !.log = log, !.commit = commit]
             h == OnAppendEntries(s, r)
  <1>1. /\ r.term \in Nat /\ r.commit \in Nat /\ s.term \in Nat /\ s.commit \in Nat
        /\ r.prev \in Nat /\ s.log \in Seq(Entry)
    BY DEF AppendReq, NodeState
  <1>2. /\ t.log = s.log /\ t.commit = s.commit /\ t.match = s.match /\ t.next = s.next
        /\ t.role = "follower" /\ (r.term >= s.term => t.term = r.term)
    <2>1. CASE r.term > s.term
      BY <1>1, <2>1 DEF BecomeFollower, NodeState
    <2>2. CASE ~(r.term > s.term)
      BY <1>1, <2>2 DEF NodeState
    <2>3. QED
      BY <2>1, <2>2
  <1>3. h = IF r.term < s.term THEN [ok |-> FALSE, node |-> s]
            ELSE IF ~consistent THEN [ok |-> FALSE, node |-> t]
            ELSE [ok |-> TRUE, node |-> u]
    BY DEF OnAppendEntries
  <1>4. consistent <=> r.prev <= Len(s.log) /\ TermAt(s, r.prev) = r.prevTerm
    BY <1>2 DEF TermAt
  <1>5. t \in NodeState
    <2>1. r.leader \in Node
      BY DEF AppendReq
    <2>2. CASE r.term > s.term
      BY <1>1, <2>1, <2>2, FollowerFacts
    <2>3. CASE ~(r.term > s.term)
      BY <2>1, <2>3, Zenon DEF NodeState
    <2>4. QED
      BY <2>2, <2>3
  <1> HIDE DEF t, h
  <1>6. ASSUME r.prev <= Len(s.log) PROVE Len(log) \in Nat
    <2>1. SubSeq(s.log, 1, r.prev) \o r.entries \in Seq(Entry)
      BY <1>1, <1>6, SpliceFacts
    <2>2. log \in Seq(Entry)
      BY <1>1, <1>2, <2>1
    <2>3. QED
      BY <2>2, SeqLen
  <1>7. /\ u.match = t.match /\ u.next = t.next /\ u.term = t.term /\ u.role = t.role
        /\ u.log = log /\ u.commit = commit
    BY <1>5, Zenon DEF NodeState
  <1>8. log = IF r.entries = <<>> THEN s.log ELSE SubSeq(s.log, 1, r.prev) \o r.entries
    BY <1>2
  <1>9. ASSUME r.prev <= Len(s.log)
        PROVE  \/ commit = s.commit /\ r.commit <= s.commit
               \/ /\ r.commit > s.commit /\ commit <= r.commit
                  /\ commit \in {r.commit, Len(log)} /\ commit <= Len(log)
    <2>1. Len(log) \in Nat
      BY <1>6, <1>9, Zenon
    <2> HIDE DEF log
    <2>2. CASE r.commit > s.commit
      <3>1. commit = Min({r.commit, Len(log)})
        BY <1>2, <2>2
      <3>3. /\ Min({r.commit, Len(log)}) \in {r.commit, Len(log)}
            /\ \A x \in {r.commit, Len(log)} : Min({r.commit, Len(log)}) <= x
        BY <1>1, <2>1, MinOfTwo
      <3> HIDE DEF commit
      <3>4. QED
        BY <2>2, <3>1, <3>3
    <2>3. CASE ~(r.commit > s.commit)
      BY <1>1, <1>2, <2>3
    <2>4. QED
      BY <2>2, <2>3
  <1> HIDE DEF u, consistent, log, commit
  <1>10. CASE r.term < s.term
    <2>1. h.node = s /\ ~h.ok
      BY <1>3, <1>10
    <2>2. QED
      BY <1>1, <1>10, <2>1 DEF h
  <1>11. CASE ~(r.term < s.term) /\ ~consistent
    <2>1. h.node = t /\ ~h.ok
      BY <1>3, <1>11
    <2>2. QED
      BY <1>1, <1>2, <1>11, <2>1 DEF h
  <1>12. CASE ~(r.term < s.term) /\ consistent
    <2>1. h.node = u /\ h.ok
      BY <1>3, <1>12
    <2>2. r.prev <= Len(s.log) /\ TermAt(s, r.prev) = r.prevTerm /\ r.term >= s.term
      BY <1>1, <1>4, <1>12
    <2>3. /\ h.node.match = s.match /\ h.node.next = s.next
          /\ h.node.term = r.term /\ h.node.role = "follower"
          /\ h.node.log = log /\ h.node.commit = commit
      BY <1>2, <1>7, <2>1, <2>2
    <2>4. \/ h.node.commit = s.commit /\ r.commit <= s.commit
          \/ /\ r.commit > s.commit /\ h.node.commit <= r.commit
             /\ h.node.commit \in {r.commit, Len(h.node.log)}
             /\ h.node.commit <= Len(h.node.log)
      BY <1>9, <2>2, <2>3
    <2>5. ~(r.term < s.term)
      BY <1>12
    <2>6. QED
      BY <1>8, <2>1, <2>2, <2>3, <2>4, <2>5, Zenon DEF h
  <1>13. QED
    BY <1>10, <1>11, <1>12, Zenon

\* What BuildAppendEntries sends is a slice of the log, up to its end.
LEMMA BuildSlice ==
  ASSUME NEW n \in Node, NEW p \in Node, NEW s \in NodeState
  PROVE  LET r == BuildAppendEntries(n, s, p)
         IN  /\ r.term = s.term /\ r.leader = n /\ r.commit = s.commit
             /\ r.prevTerm = TermAt(s, r.prev)
             /\ r.prev \in Nat
             /\ r.prev = 0 \/ r.prev + 1 = s.next[p]
             /\ r.entries # <<>> => Last(r) = Len(s.log)
             /\ r.entries = <<>> => s.next[p] = 0 \/ s.next[p] > Len(s.log)
             /\ \A j \in DOMAIN r.entries :
                  r.prev + j \in DOMAIN s.log /\ r.entries[j] = s.log[r.prev + j]
  <1> DEFINE next == s.next[p]
             prev == IF next \in {0, 1} THEN 0 ELSE next - 1
             entries == IF next \in 1..Len(s.log)
                        THEN SubSeq(s.log, next, Len(s.log)) ELSE <<>>
             r == BuildAppendEntries(n, s, p)
  <1>1. next \in Nat /\ s.log \in Seq(Entry) /\ Len(s.log) \in Nat /\ DOMAIN s.log = 1..Len(s.log)
    BY SeqLen DEF NodeState
  <1>2. /\ r.term = s.term /\ r.leader = n /\ r.commit = s.commit /\ r.prev = prev
        /\ r.prevTerm = TermAt(s, prev) /\ r.entries = entries
    BY Zenon DEF BuildAppendEntries
  <1>3. prev \in Nat /\ (prev = 0 \/ prev + 1 = next) /\ (next \in 1..Len(s.log) => prev = next - 1)
    BY <1>1
  <1> HIDE DEF prev, r, next
  <1>4. CASE next \in 1..Len(s.log)
    <2>1. \A i \in next..Len(s.log) : s.log[i] \in Entry
      BY <1>1, <1>4, SeqElement
    <2>2. /\ entries \in Seq(Entry)
          /\ Len(entries) = Len(s.log) - next + 1
          /\ \A j \in 1..(Len(s.log) - next + 1) : entries[j] = s.log[next + j - 1]
      <3>1. entries = SubSeq(s.log, next, Len(s.log))
        BY <1>4
      <3> HIDE DEF entries
      <3>2. QED
        BY <1>1, <1>4, <2>1, <3>1, SeqPart
    <2> HIDE DEF entries
    <2>3. DOMAIN entries = 1..(Len(s.log) - next + 1) /\ entries # <<>>
      BY <1>1, <1>4, <2>2, SeqLen, SeqEmpty
    <2>4. \A j \in 1..(Len(s.log) - next + 1) :
            prev + j \in 1..Len(s.log) /\ prev + j = next + j - 1
      BY <1>1, <1>3, <1>4
    <2>5. \A j \in DOMAIN entries : prev + j \in DOMAIN s.log /\ entries[j] = s.log[prev + j]
      BY <1>1, <2>2, <2>3, <2>4
    <2>6. prev + Len(entries) = Len(s.log)
      <3>1. prev = next - 1 /\ Len(entries) = Len(s.log) - next + 1
        BY <1>3, <1>4, <2>2
      <3>2. next \in Nat /\ Len(s.log) \in Nat
        BY <1>1
      <3>3. QED
        BY <3>1, <3>2
    <2>7. Last(r) = Len(s.log) /\ r.entries # <<>>
      BY <1>2, <2>3, <2>6 DEF Last
    <2>8. \A j \in DOMAIN r.entries :
            r.prev + j \in DOMAIN s.log /\ r.entries[j] = s.log[r.prev + j]
      BY <1>2, <2>5
    <2>9. QED
      BY <1>2, <1>3, <2>7, <2>8, Zenon DEF r, next
  <1>5. CASE next \notin 1..Len(s.log)
    <2>1. entries = <<>> /\ DOMAIN entries = {}
      BY <1>5
    <2>2. next = 0 \/ next > Len(s.log)
      BY <1>1, <1>5
    <2> HIDE DEF entries
    <2>3. r.entries = <<>> /\ \A j : j \notin DOMAIN r.entries
      BY <1>2, <2>1
    <2>4. QED
      BY <1>2, <1>3, <2>2, <2>3, Zenon DEF r, next
  <1>6. QED
    BY <1>4, <1>5, Zenon

-----------------------------------------------------------------------------
(* Log matching: the steps.                                                *)

\* Who has won the current term keeps its log while it stays in the term.
OwnersKeep ==
  \A n \in Node : Won(node[n].term, n) /\ node'[n].term = node[n].term =>
    node'[n].log = node[n].log

\* No node becomes a leader, and a new candidate is in a new term.
RolesKeep ==
  \A n \in Node :
    /\ node'[n].role = "leader" => node[n].role = "leader" /\ node'[n].term = node[n].term
    /\ node'[n].role = "candidate" =>
         node'[n].term > node[n].term \/ node[n].role = "candidate"

\* One term has one winner.
LEMMA OneOwner ==
  ASSUME SizeFacts, TypeOK, VoteInv, NEW t, NEW m, NEW n, Won(t, m), Won(t, n)
  PROVE  m = n
  BY VotesDecide DEF Won

\* Elections that were won stay won.
LEMMA WonStays ==
  ASSUME elected \subseteq elected', NEW t, NEW n, Won(t, n)
  PROVE  Won(t, n)'
  BY DEF Won

\* Terms do not go back.
LEMMA TermsGrow ==
  ASSUME TypeOK, TypeOK', AllKeep, NEW n \in Node
  PROVE  node[n].term \in Nat /\ node'[n].term \in Nat /\ node'[n].term >= node[n].term
  <1>1. node[n].term \in Nat /\ node'[n].term \in Nat /\ Keeps(node[n], node'[n])
    BY DEF TypeOK, NodeState, AllKeep
  <1>2. QED
    BY <1>1 DEF Keeps

\* Without a new election, who has won its term was in it, and had won it.
LEMMA OwnerStays ==
  ASSUME TypeOK, TypeOK', AllKeep, WonInv, elected' = elected, NEW n \in Node,
         Won(node[n].term, n)'
  PROVE  node'[n].term = node[n].term /\ Won(node[n].term, n)
  <1>1. node[n].term \in Nat /\ node'[n].term \in Nat /\ node'[n].term >= node[n].term
    BY TermsGrow
  <1>2. Won(node'[n].term, n)
    BY DEF Won
  <1>3. node[n].term >= node'[n].term
    BY <1>1, <1>2 DEF WonInv
  <1>4. node[n].term = node'[n].term
    BY <1>1, <1>3
  <1>5. QED
    BY <1>2, <1>4

\* A step that adds no entry and wins no election.
LEMMA CoreStep ==
  ASSUME TypeOK, TypeOK', AllKeep, LinkInv, elected' = elected, OwnersKeep, RolesKeep,
         \A i, b, e : IsLink(i, b, e)' => IsLink(i, b, e)
  PROVE  LinkShape' /\ LinkUnique' /\ LinkDense' /\ OwnerHas' /\ WonInv'
  <1>1. \A t, n : Won(t, n)' <=> Won(t, n)
    BY DEF Won
  <1>2. LinkShape'
    BY <1>1 DEF LinkInv, LinkShape
  <1>3. LinkUnique'
    BY DEF LinkInv, LinkUnique
  <1>4. LinkDense'
    BY DEF LinkInv, LinkDense
  <1>5. OwnerHas'
    <2> SUFFICES ASSUME NEW n \in Node, Won(node[n].term, n)',
                        NEW i, NEW b, NEW e, IsLink(i, b, e)', e.term = node'[n].term
                 PROVE  LogHas(node'[n].log, i, b, e)
      BY DEF OwnerHas
    <2>1. node'[n].term = node[n].term /\ Won(node[n].term, n)
      BY OwnerStays DEF LinkInv
    <2>2. node'[n].log = node[n].log
      BY <2>1 DEF OwnersKeep
    <2>3. LogHas(node[n].log, i, b, e)
      BY <2>1, Zenon DEF LinkInv, OwnerHas
    <2>4. QED
      BY <2>2, <2>3
  <1>6. WonInv'
    <2>1. ASSUME NEW n \in Node, node'[n].role = "leader" PROVE Won(node[n].term, n)'
      <3>1. node[n].role = "leader" /\ node'[n].term = node[n].term
        BY <2>1 DEF RolesKeep
      <3>2. Won(node[n].term, n)
        BY <3>1 DEF LinkInv, WonInv
      <3>3. QED
        BY <3>1, <3>2 DEF Won
    <2>2. ASSUME NEW n \in Node, NEW t \in Nat, Won(t, n)'
          PROVE  node'[n].term >= t /\ (node'[n].term = t => node'[n].role # "candidate")
      <3>1. node[n].term \in Nat /\ node'[n].term \in Nat /\ node'[n].term >= node[n].term
        BY TermsGrow
      <3>2. node[n].term >= t /\ (node[n].term = t => node[n].role # "candidate")
        BY <1>1, <2>2 DEF LinkInv, WonInv
      <3>3. node'[n].role = "candidate" =>
              node'[n].term > node[n].term \/ node[n].role = "candidate"
        BY DEF RolesKeep
      <3>4. QED
        BY <3>1, <3>2, <3>3
    <2>3. QED
      BY <2>1, <2>2 DEF WonInv
  <1>7. QED
    BY <1>2, <1>3, <1>4, <1>5, <1>6

\* A log and its entries.
LEMMA LogType ==
  ASSUME NEW s \in NodeState
  PROVE  /\ s.log \in Seq(Entry) /\ Len(s.log) \in Nat /\ DOMAIN s.log = 1..Len(s.log)
         /\ \A i \in 1..Len(s.log) : s.log[i] \in Entry /\ s.log[i].term \in Nat
  <1>1. s.log \in Seq(Entry) /\ Len(s.log) \in Nat /\ DOMAIN s.log = 1..Len(s.log)
    BY SeqLen DEF NodeState
  <1>2. \A i \in 1..Len(s.log) : s.log[i] \in Entry
    BY <1>1, SeqElement
  <1>3. QED
    BY <1>1, <1>2 DEF Entry

\* Logs and requests that are not new keep the terms right.
LEMMA TermsSame ==
  ASSUME TypeOK, TypeOK', AllKeep, TermInv,
         \A n \in Node : node'[n].log = node[n].log /\ Requests(n)' \subseteq Requests(n)
  PROVE  TermInv'
  <1>1. ASSUME NEW n \in Node, NEW i \in DOMAIN node'[n].log
        PROVE  node'[n].log[i].term <= node'[n].term
    <2>1. node[n].term \in Nat /\ node'[n].term \in Nat /\ node'[n].term >= node[n].term
      BY TermsGrow
    <2>2. i \in DOMAIN node[n].log /\ node'[n].log[i] = node[n].log[i]
      OBVIOUS
    <2>3. node[n].log[i].term <= node[n].term
      BY <2>2 DEF TermInv
    <2>4. node[n].log[i].term \in Nat
      <3>1. node[n] \in NodeState
        BY DEF TypeOK
      <3>2. QED
        BY <2>2, <3>1, LogType
    <2>5. QED
      BY <2>1, <2>2, <2>3, <2>4
  <1>2. \A n \in Node : \A r \in Requests(n)' :
          \A j \in DOMAIN r.entries : r.entries[j].term <= r.term
    BY DEF TermInv
  <1>3. QED
    BY <1>1, <1>2 DEF TermInv

\* The links of logs and requests that are not new.
LEMMA LinksSame ==
  ASSUME \A n \in Node : node'[n].log = node[n].log /\ Requests(n)' \subseteq Requests(n),
         NEW i, NEW b, NEW e, IsLink(i, b, e)'
  PROVE  IsLink(i, b, e)
  BY DEF IsLink

\* Proposals that do not move.
LEMMA StageSame ==
  ASSUME TypeOK, TypeOK', AllKeep, WonInv, StageInv, OwnersKeep, UNCHANGED proposal,
         elected \subseteq elected'
  PROVE  StageInv'
  <1> SUFFICES ASSUME NEW n \in Node, proposal[n].at = "appended", NEW e \in proposal[n].entry
               PROVE  /\ Won(e.term, n)'
                      /\ node'[n].term = e.term =>
                           Len(node'[n].log) > 0 /\ node'[n].log[Len(node'[n].log)] = e
    BY DEF StageInv
  <1>1. Won(e.term, n)
    BY DEF StageInv
  <1>2. Won(e.term, n)'
    BY <1>1, WonStays
  <1>3. ASSUME node'[n].term = e.term
        PROVE  Len(node'[n].log) > 0 /\ node'[n].log[Len(node'[n].log)] = e
    <2>1. node[n].term \in Nat /\ node'[n].term \in Nat /\ node'[n].term >= node[n].term
      BY TermsGrow
    <2>2. node[n].term >= e.term
      BY <1>1, <1>3, <2>1 DEF WonInv
    <2>3. node[n].term = e.term
      BY <1>3, <2>1, <2>2
    <2>4. node'[n].log = node[n].log
      BY <1>1, <1>3, <2>3 DEF OwnersKeep
    <2>5. QED
      BY <2>3, <2>4 DEF StageInv
  <1>4. QED
    BY <1>2, <1>3

\* Requests that do not move.
LEMMA ReqSame ==
  ASSUME ReqInv, UNCHANGED <<heartbeat, proposal>>, elected \subseteq elected'
  PROVE  ReqInv'
  <1>1. \A t, n : Won(t, n) => Won(t, n)'
    BY WonStays
  <1>2. QED
    BY <1>1, Zenon DEF ReqInv

\* A step that only moves terms, roles and votes.
LEMMA TameStep ==
  ASSUME TypeOK, TypeOK', AllKeep, LinkInv, elected' = elected, RolesKeep,
         \A n \in Node : node'[n].log = node[n].log,
         UNCHANGED <<heartbeat, proposal>>
  PROVE  LinkInv'
  <1>1. OwnersKeep
    BY DEF OwnersKeep
  <1>2. \A n \in Node : Requests(n)' = Requests(n)
    BY DEF Requests
  <1>3. \A i, b, e : IsLink(i, b, e)' => IsLink(i, b, e)
    BY <1>2, LinksSame
  <1>4. LinkShape' /\ LinkUnique' /\ LinkDense' /\ OwnerHas' /\ WonInv'
    BY <1>1, <1>3, CoreStep
  <1>5. TermInv'
    BY <1>2, TermsSame DEF LinkInv
  <1>6. StageInv' /\ ReqInv'
    BY <1>1, StageSame, ReqSame DEF LinkInv
  <1>7. QED
    BY <1>4, <1>5, <1>6 DEF LinkInv

\* The handler of a vote touches term, role and vote only.
LEMMA VoteCases ==
  ASSUME NEW s \in NodeState, NEW req \in VoteReq
  PROVE  LET t == OnRequestVote(s, req).node
         IN  /\ t.log = s.log /\ t.commit = s.commit /\ t.match = s.match /\ t.next = s.next
             /\ \/ t.term = s.term /\ t.role = s.role
                \/ t.term > s.term /\ t.role = "follower"
             /\ OnRequestVote(s, req).ok => IsUpToDate(s, req)
  <1> DEFINE t == IF req.term > s.term THEN BecomeFollower(s, req.term, {}) ELSE s
             grant == /\ req.term >= s.term
                      /\ t.votedFor \subseteq {req.candidate}
                      /\ IsUpToDate(t, req)
             u == [t EXCEPT !.votedFor = {req.candidate}]
             h == OnRequestVote(s, req)
  <1>1. /\ t.log = s.log /\ t.commit = s.commit /\ t.match = s.match /\ t.next = s.next
        /\ \/ t.term = s.term /\ t.role = s.role
           \/ t.term > s.term /\ t.role = "follower"
    BY DEF BecomeFollower, NodeState, VoteReq
  <1>2. h = [ok |-> grant, node |-> IF grant THEN u ELSE t]
    BY DEF OnRequestVote
  <1>3. IsUpToDate(t, req) => IsUpToDate(s, req)
    BY <1>1 DEF IsUpToDate, LastTerm, TermAt
  <1>4. /\ u.log = t.log /\ u.commit = t.commit /\ u.match = t.match /\ u.next = t.next
        /\ u.term = t.term /\ u.role = t.role
    BY DEF BecomeFollower, NodeState
  <1> HIDE DEF t, u, h
  <1>5. h.node = u \/ h.node = t
    BY <1>2
  <1>6. h.ok => IsUpToDate(s, req)
    BY <1>2, <1>3
  <1>7. QED
    BY <1>1, <1>4, <1>5, <1>6 DEF h

\* The call of a peer for its vote.
LEMMA RequestVoteFacts ==
  ASSUME TypeOK, VoteInv, NEW n \in Node, RequestVote(n)
  PROVE  \E req \in election[n].req, p \in Node, ok \in BOOLEAN :
           LET h == OnRequestVote(node[p], req)
           IN  /\ req \in VoteReq /\ req.candidate = n
               /\ \/ node' = [node EXCEPT ![p] = h.node] /\ ok = h.ok
                  \/ node' = node /\ ~ok
               /\ election'[n].req = election[n].req
               /\ Held(n)' \subseteq Held(n) \cup (IF ok THEN {p} ELSE {})
               /\ \A c \in Node \ {n} : election'[c] = election[c]
  <1>1. PICK req \in election[n].req :
          LET p == Head(election[n].todo)
              d == Deliver(p, req, OnRequestVote(node[p], req))
          IN  /\ election[n].todo # <<>>
              /\ node' = d.node
              /\ election' = [election EXCEPT ![n].todo = Tail(@), ![n].reply = {d.reply}]
    BY Zenon DEF RequestVote
  <1> DEFINE p == Head(election[n].todo)
             h == OnRequestVote(node[p], req)
             d == Deliver(p, req, h)
  <1>2. /\ node \in [Node -> NodeState]
        /\ election \in [Node -> ElectionState] /\ election[n] \in ElectionState
    BY DEF TypeOK
  <1>3. p \in Node /\ req \in VoteReq /\ req.candidate = n
    BY <1>1, <1>2, SeqHeadTail DEF ElectionState, VoteInv
  <1>4. /\ node' = d.node
        /\ election'[n].req = election[n].req
        /\ election'[n].votes = election[n].votes
        /\ election'[n].reply = {d.reply}
        /\ \A c \in Node \ {n} : election'[c] = election[c]
    BY <1>1, <1>2 DEF ElectionState
  <1>5. h.ok \in BOOLEAN
    BY <1>2, <1>3, VoteFacts
  <1> HIDE DEF p, h
  <1>6. /\ d.reply.from = p /\ d.reply.ok \in BOOLEAN
        /\ \/ d.node = [node EXCEPT ![p] = h.node] /\ d.reply.ok = h.ok
           \/ d.node = node /\ ~d.reply.ok
    BY <1>5, Zenon DEF Deliver
  <1> HIDE DEF d
  <1>7. Held(n)' \subseteq Held(n) \cup (IF d.reply.ok THEN {p} ELSE {})
    BY <1>4, <1>6 DEF Held
  <1> DEFINE ok == d.reply.ok
  <1>8. /\ \/ node' = [node EXCEPT ![p] = OnRequestVote(node[p], req).node]
              /\ ok = OnRequestVote(node[p], req).ok
           \/ node' = node /\ ~ok
        /\ Held(n)' \subseteq Held(n) \cup (IF ok THEN {p} ELSE {})
    BY <1>4, <1>6, <1>7 DEF h
  <1>9. ok \in BOOLEAN
    BY <1>6
  <1> HIDE DEF ok
  <1>10. QED
    BY <1>1, <1>3, <1>4, <1>8, <1>9, Zenon

\* The answer of a peer to the request for its vote: the election is won, or the
\* node at most follows.
Wins(n, votes) ==
  /\ votes \in SUBSET Node /\ votes \subseteq Held(n) /\ Majority(votes)
  /\ node[n].role = "candidate"
  /\ \E req \in election[n].req : req.term = node[n].term
  /\ node' = [node EXCEPT ![n] = BecomeLeader(n, node[n])]
  /\ elected' = elected \cup {[term |-> node[n].term, leader |-> n, voters |-> votes]}

LEMMA CollectFacts ==
  ASSUME TypeOK, NEW n \in Node, CollectVote(n)
  PROVE  /\ \/ \E votes \in SUBSET Node : Wins(n, votes)
            \/ /\ elected' = elected
               /\ \/ node' = node
                  \/ \E t \in Nat : /\ t > node[n].term
                                    /\ node' = [node EXCEPT ![n] = BecomeFollower(node[n], t, {})]
         /\ election'[n].req \subseteq election[n].req
         /\ election'[n].req # {} => Held(n)' \subseteq Held(n)
         /\ \A c \in Node \ {n} : election'[c] = election[c]
  <1> DEFINE s == node[n]
             votes(r) == election[n].votes \cup (IF r.ok THEN {r.from} ELSE {})
             counts(q) == s.role = "candidate" /\ s.term = q.term
             wins(q, r) == counts(q) /\ r.term <= s.term /\ Majority(votes(r))
             over(q, r) == ~counts(q) \/ r.term > s.term \/ wins(q, r)
                           \/ election[n].todo = <<>>
             won(r) == [term |-> s.term, leader |-> n, voters |-> votes(r)]
  <1>1. PICK req \in election[n].req, reply \in election[n].reply :
          /\ node' = [node EXCEPT ![n] =
               IF counts(req) /\ reply.term > s.term THEN BecomeFollower(s, reply.term, {})
               ELSE IF wins(req, reply) THEN BecomeLeader(n, s) ELSE s]
          /\ elected' = IF wins(req, reply) THEN elected \cup {won(reply)} ELSE elected
          /\ election' = [election EXCEPT ![n] =
               IF over(req, reply) THEN NoElection
               ELSE [@ EXCEPT !.votes = votes(reply), !.reply = {}]]
    BY Zenon DEF CollectVote
  <1>2. /\ election \in [Node -> ElectionState] /\ election[n] \in ElectionState
        /\ node \in [Node -> NodeState] /\ node[n] \in NodeState
    BY Zenon DEF TypeOK
  <1>3. votes(reply) \subseteq Held(n)
    BY <1>1 DEF Held
  <1>4. /\ votes(reply) \in SUBSET Node /\ reply.term \in Nat /\ s.term \in Nat
    BY <1>1, <1>2, Zenon DEF ElectionState, Reply, NodeState
  <1>5. \A c \in Node \ {n} : election'[c] = election[c]
    BY <1>1, <1>2
  <1>6. /\ election'[n].req \subseteq election[n].req
        /\ election'[n].req # {} => Held(n)' \subseteq Held(n)
    <2> HIDE DEF votes, over
    <2>1. CASE over(req, reply)
      BY <1>1, <1>2, <2>1 DEF NoElection
    <2>2. CASE ~over(req, reply)
      <3>1. election'[n] = [election[n] EXCEPT !.votes = votes(reply), !.reply = {}]
        BY <1>1, <1>2, <2>2
      <3>2. /\ election'[n].req = election[n].req
            /\ election'[n].votes = votes(reply) /\ election'[n].reply = {}
        BY <1>2, <3>1 DEF ElectionState
      <3>3. QED
        BY <1>3, <3>2 DEF Held
    <2>3. QED
      BY <2>1, <2>2
  <1>7. \/ \E v \in SUBSET Node : Wins(n, v)
        \/ /\ elected' = elected
           /\ \/ node' = node
              \/ \E t \in Nat : /\ t > node[n].term
                                /\ node' = [node EXCEPT ![n] = BecomeFollower(node[n], t, {})]
    <2>1. CASE wins(req, reply)
      <3>1. ~(reply.term > s.term) /\ counts(req) /\ Majority(votes(reply))
        BY <1>4, <2>1
      <3>2. node' = [node EXCEPT ![n] = BecomeLeader(n, s)] /\ elected' = elected \cup {won(reply)}
        BY <1>1, <2>1, <3>1
      <3>3. Wins(n, votes(reply))
        BY <1>1, <1>3, <1>4, <3>1, <3>2, Zenon DEF Wins
      <3>4. QED
        BY <1>4, <3>3, Zenon
    <2>2. CASE ~wins(req, reply) /\ counts(req) /\ reply.term > s.term
      BY <1>1, <1>4, <2>2, Zenon
    <2>3. CASE ~wins(req, reply) /\ ~(counts(req) /\ reply.term > s.term)
      <3>1. node' = [node EXCEPT ![n] = s] /\ elected' = elected
        BY <1>1, <2>3, Zenon
      <3>2. node' = node
        BY <1>2, <3>1
      <3>3. QED
        BY <3>1, <3>2
    <2>4. QED
      BY <2>1, <2>2, <2>3, Zenon
  <1>8. QED
    BY <1>5, <1>6, <1>7, Zenon

\* A candidate that wins is the first to win its term.
LEMMA WinFresh ==
  ASSUME SizeFacts, TypeOK, VoteInv, WonInv, NEW n \in Node, NEW votes \in SUBSET Node, Wins(n, votes),
         NEW w \in Node, Won(node[n].term, w)
  PROVE  FALSE
  <1>1. node[n].term \in Nat
    BY DEF TypeOK, NodeState
  <1>2. PICK e \in elected : e.term = node[n].term /\ e.leader = w
    BY DEF Won
  <1>3. e.voters \in SUBSET Node /\ Majority(e.voters) /\ Majority(votes)
    BY <1>2, Zenon DEF TypeOK, VoteInv, Wins
  <1>4. PICK v \in Node : v \in e.voters /\ v \in votes
    BY <1>3, QuorumsMeet
  <1>5. Claimed(v, node[n].term, w) /\ Claimed(v, node[n].term, n)
    BY <1>2, <1>4, Zenon DEF Claimed, Wins
  <1>6. w = n
    BY <1>1, <1>4, <1>5, Zenon DEF VoteInv, ClaimsUnique
  <1>7. QED
    BY <1>1, <1>6 DEF WonInv, Wins

\* The winner's fields.
LEMMA WinnerFields ==
  ASSUME TypeOK, NEW n \in Node, NEW votes \in SUBSET Node, Wins(n, votes)
  PROVE  /\ node'[n].term = node[n].term /\ node'[n].log = node[n].log
         /\ node'[n].role = "leader" /\ node'[n].commit = node[n].commit
         /\ node'[n].match = [p \in Node |-> 0]
         /\ node'[n].next = [p \in Node |-> Len(node[n].log) + 1]
         /\ \A m \in Node \ {n} : node'[m] = node[m]
         /\ elected \subseteq elected'
         /\ \A t, w : Won(t, w)' <=> Won(t, w) \/ (t = node[n].term /\ w = n)
  <1>1. node \in [Node -> NodeState] /\ node[n] \in NodeState
    BY DEF TypeOK
  <1> DEFINE l == BecomeLeader(n, node[n])
  <1>2. /\ l.term = node[n].term /\ l.log = node[n].log /\ l.role = "leader"
        /\ l.commit = node[n].commit /\ l.match = [p \in Node |-> 0]
        /\ l.next = [p \in Node |-> Len(node[n].log) + 1]
    BY <1>1 DEF BecomeLeader, NodeState
  <1>3. node' = [node EXCEPT ![n] = l]
    BY DEF Wins
  <1> HIDE DEF l
  <1>4. node'[n] = l /\ \A m \in Node \ {n} : node'[m] = node[m]
    BY <1>1, <1>3
  <1>5. elected' = elected \cup {[term |-> node[n].term, leader |-> n, voters |-> votes]}
    BY DEF Wins
  <1>6. \A t, w : Won(t, w)' <=> Won(t, w) \/ (t = node[n].term /\ w = n)
    <2> DEFINE x == [term |-> node[n].term, leader |-> n, voters |-> votes]
    <2>1. x.term = node[n].term /\ x.leader = n
      OBVIOUS
    <2>2. elected' = elected \cup {x}
      BY <1>5
    <2> HIDE DEF x
    <2>3. QED
      BY <2>1, <2>2 DEF Won
  <1>7. QED
    BY <1>2, <1>4, <1>5, <1>6, Zenon

\* The election is won: no entry of the term exists yet.
LEMMA WinLinks ==
  ASSUME SizeFacts, TypeOK, TypeOK', AllKeep, VoteInv, LinkInv, UNCHANGED <<heartbeat, proposal>>,
         NEW n \in Node, NEW votes \in SUBSET Node, Wins(n, votes)
  PROVE  LinkInv'
  <1>1. /\ node'[n].term = node[n].term /\ node'[n].log = node[n].log
        /\ node'[n].role = "leader"
        /\ \A m \in Node \ {n} : node'[m] = node[m]
        /\ elected \subseteq elected'
        /\ \A t, w : Won(t, w)' <=> Won(t, w) \/ (t = node[n].term /\ w = n)
    BY WinnerFields, Zenon
  <1>2. \A m \in Node : node'[m].log = node[m].log /\ node'[m].term = node[m].term
    BY <1>1
  <1>3. \A m \in Node : Requests(m)' = Requests(m)
    BY DEF Requests
  <1>4. \A i, b, e : IsLink(i, b, e)' => IsLink(i, b, e)
    BY <1>2, <1>3, LinksSame, Zenon
  <1>5. LinkShape' /\ LinkUnique' /\ LinkDense'
    <2>1. LinkShape'
      BY <1>1, <1>4, Zenon DEF LinkInv, LinkShape
    <2>2. LinkUnique'
      BY <1>4 DEF LinkInv, LinkUnique
    <2>3. LinkDense'
      BY <1>4 DEF LinkInv, LinkDense
    <2>4. QED
      BY <2>1, <2>2, <2>3
  <1>6. OwnerHas'
    <2> SUFFICES ASSUME NEW m \in Node, Won(node[m].term, m)',
                        NEW i, NEW b, NEW e, IsLink(i, b, e)', e.term = node'[m].term
                 PROVE  LogHas(node'[m].log, i, b, e)
      BY DEF OwnerHas
    <2>1. IsLink(i, b, e) /\ e.term = node[m].term
      BY <1>2, <1>4
    <2>2. CASE m = n
      <3>1. PICK w \in Node : Won(e.term, w)
        BY <2>1 DEF LinkInv, LinkShape
      <3>2. QED
        BY <2>1, <2>2, <3>1, WinFresh, Zenon DEF LinkInv
    <2>3. CASE m # n
      <3>1. Won(node[m].term, m)
        BY <1>1, <1>2, <2>3
      <3>2. QED
        BY <1>2, <2>1, <3>1, Zenon DEF LinkInv, OwnerHas
    <2>4. QED
      BY <2>2, <2>3
  <1>7. WonInv'
    <2>1. ASSUME NEW m \in Node, node'[m].role = "leader" PROVE Won(node[m].term, m)'
      BY <1>1, <2>1 DEF LinkInv, WonInv
    <2>2. ASSUME NEW m \in Node, NEW t \in Nat, Won(t, m)'
          PROVE  node'[m].term >= t /\ (node'[m].term = t => node'[m].role # "candidate")
      <3>1. node[m].term \in Nat
        BY DEF TypeOK, NodeState
      <3>2. QED
        BY <1>1, <2>2, <3>1 DEF LinkInv, WonInv
    <2>3. QED
      BY <2>1, <2>2 DEF WonInv
  <1>8. TermInv'
    BY <1>2, <1>3, TermsSame, Zenon DEF LinkInv
  <1>9. OwnersKeep
    BY <1>2 DEF OwnersKeep
  <1>10. StageInv' /\ ReqInv'
    BY <1>1, <1>9, StageSame, ReqSame, Zenon DEF LinkInv
  <1>11. QED
    BY <1>5, <1>6, <1>7, <1>8, <1>10 DEF LinkInv

\* One node's fields change, and neither its log nor its claim to lead grows.
LEMMA TameNode ==
  ASSUME TypeOK, NEW p \in Node, NEW t, node' = [node EXCEPT ![p] = t],
         t.log = node[p].log,
         t.role = "leader" => node[p].role = "leader" /\ t.term = node[p].term,
         t.role = "candidate" => t.term > node[p].term \/ node[p].role = "candidate"
  PROVE  RolesKeep /\ \A m \in Node : node'[m].log = node[m].log
  <1>1. node'[p] = t /\ \A m \in Node \ {p} : node'[m] = node[m]
    BY DEF TypeOK
  <1>2. QED
    BY <1>1 DEF RolesKeep

\* A step of ElectionLoop.
LEMMA ElectionLinks ==
  ASSUME SizeFacts, TypeOK, TypeOK', AllKeep, VoteInv, LinkInv, NEW n \in Node, ElectionStep(n)
  PROVE  LinkInv'
  <1>1. UNCHANGED <<heartbeat, proposal>>
    BY Zenon DEF ElectionStep, StartElection, RequestVote, CollectVote
  <1>2. node \in [Node -> NodeState]
    BY DEF TypeOK
  <1>3. ASSUME elected' = elected, RolesKeep /\ \A m \in Node : node'[m].log = node[m].log
        PROVE  LinkInv'
    BY <1>1, <1>3, TameStep
  <1>4. ASSUME elected' = elected, node' = node PROVE LinkInv'
    BY <1>3, <1>4 DEF RolesKeep
  <1>5. CASE StartElection(n)
    <2> DEFINE t == BecomeCandidate(n, node[n])
    <2>1. t.log = node[n].log /\ t.role = "candidate" /\ t.term > node[n].term
      BY <1>2 DEF BecomeCandidate, NodeState
    <2>2. node' = [node EXCEPT ![n] = t] /\ elected' = elected
      BY <1>5 DEF StartElection
    <2> HIDE DEF t
    <2>3. RolesKeep /\ \A m \in Node : node'[m].log = node[m].log
      BY <2>1, <2>2, TameNode, Zenon
    <2>4. QED
      BY <1>3, <2>2, <2>3
  <1>6. CASE RequestVote(n)
    <2>1. elected' = elected
      BY <1>6 DEF RequestVote
    <2>2. PICK req \in election[n].req, p \in Node, ok \in BOOLEAN :
            LET h == OnRequestVote(node[p], req)
            IN  /\ req \in VoteReq /\ req.candidate = n
                /\ \/ node' = [node EXCEPT ![p] = h.node] /\ ok = h.ok
                   \/ node' = node /\ ~ok
                /\ election'[n].req = election[n].req
                /\ Held(n)' \subseteq Held(n) \cup (IF ok THEN {p} ELSE {})
                /\ \A c \in Node \ {n} : election'[c] = election[c]
      BY <1>6, RequestVoteFacts, Zenon
    <2>3. CASE node' = node
      BY <1>4, <2>1, <2>3
    <2>4. CASE node' = [node EXCEPT ![p] = OnRequestVote(node[p], req).node]
      <3> DEFINE t == OnRequestVote(node[p], req).node
      <3>1. /\ t.log = node[p].log
            /\ \/ t.term = node[p].term /\ t.role = node[p].role
               \/ t.term > node[p].term /\ t.role = "follower"
        BY <1>2, <2>2, VoteCases, Zenon
      <3>2. node' = [node EXCEPT ![p] = t]
        BY <2>4, Zenon
      <3> HIDE DEF t
      <3>3. QED
        BY <1>3, <2>1, <3>1, <3>2, TameNode, Zenon
    <2>5. QED
      BY <2>2, <2>3, <2>4
  <1>7. CASE CollectVote(n)
    <2>1. CASE \E votes \in SUBSET Node : Wins(n, votes)
      BY <1>1, <2>1, WinLinks
    <2>2. CASE elected' = elected /\ node' = node
      BY <1>4, <2>2
    <2>3. CASE elected' = elected /\ \E t \in Nat :
                 /\ t > node[n].term
                 /\ node' = [node EXCEPT ![n] = BecomeFollower(node[n], t, {})]
      <3>1. PICK t \in Nat : /\ t > node[n].term
                             /\ node' = [node EXCEPT ![n] = BecomeFollower(node[n], t, {})]
        BY <2>3, Zenon
      <3> DEFINE u == BecomeFollower(node[n], t, {})
      <3>2. u.log = node[n].log /\ u.role = "follower"
        BY <1>2 DEF BecomeFollower, NodeState
      <3>3. node' = [node EXCEPT ![n] = u]
        BY <3>1
      <3> HIDE DEF u
      <3>4. QED
        BY <1>3, <2>3, <3>2, <3>3, TameNode, Zenon
    <2>4. QED
      BY <1>7, <2>1, <2>2, <2>3, CollectFacts, Zenon
  <1>8. QED
    BY <1>5, <1>6, <1>7 DEF ElectionStep

=============================================================================
