-------------------------------- MODULE Raft --------------------------------
(***************************************************************************)
(* RaftNode over InProcessTransport.  A call through the transport runs the *)
(* peer's handler at once, under the peer's mutex; the caller holds no     *)
(* mutex then, and takes its own again to look at the answer.  So each     *)
(* lock section is an action, and each call with its handler is another.   *)
(*                                                                         *)
(* A log entry's `id' stands for its operation, key and value.  Timers are *)
(* left out: an election can start whenever the node does not lead.        *)
(***************************************************************************)
EXTENDS Integers, Sequences, FiniteSets, FiniteSetsExt

CONSTANTS
  Node,          \* the nodes of the cluster
  Peers,         \* peers_ of each node, in its order
  Garbage,       \* what reading past the end of log_ yields
  MaxElections,  \* bound: elections started
  MaxProposals,  \* bound: client proposals
  MaxBusy,       \* bound: loops and proposals under way at a time
  MaxStops,      \* bound: calls of Stop
  MaxRestarts    \* bound: nodes created again

ASSUME RaftAssumption ==
  /\ IsFiniteSet(Node)
  /\ Cardinality(Node) > 1  \* a node without peers never enters its loops over them
  /\ Peers \in [Node -> Seq(Node)]
  /\ \A n \in Node : /\ {Peers[n][i] : i \in DOMAIN Peers[n]} = Node \ {n}
                      /\ \A i, j \in DOMAIN Peers[n] : Peers[n][i] = Peers[n][j] => i = j
  /\ MaxElections \in Nat
  /\ MaxProposals \in Nat
  /\ MaxBusy \in Nat
  /\ MaxStops \in Nat
  /\ MaxRestarts \in Nat

VARIABLES
  node,        \* the fields of each RaftNode that mu_ protects
  running,     \* the nodes whose running_ is true
  registered,  \* InProcessTransport::nodes_
  election,    \* the locals of each ElectionLoop
  heartbeat,   \* the locals of each HeartbeatLoop
  proposal,    \* the locals of each node's ProposePut or ProposeDel
  applied,     \* what each ApplyLoop has given to the state machine
  elections,   \* elections started so far
  proposals,   \* proposals so far
  stops,       \* calls of Stop so far
  restarts,    \* restarts so far
  elected,     \* history: the elections won
  stray        \* history: what nodes have done outside of the term it was meant for

vars == <<node, running, registered, election, heartbeat, proposal, applied,
          elections, proposals, stops, restarts, elected, stray>>

Entry == [term : Nat, id : Nat]

\* An optional value is a set with at most one element.
NodeState ==
  [term : Nat, votedFor : SUBSET Node, log : Seq(Entry),
   role : {"follower", "candidate", "leader"}, leader : SUBSET Node,
   commit : Nat, next : [Node -> Nat], match : [Node -> Nat]]

VoteReq == [term : Nat, candidate : Node, lastIndex : Nat, lastTerm : Nat]

AppendReq == [term : Nat, leader : Node, prev : Nat, prevTerm : Nat,
              entries : Seq(Entry), commit : Nat]

\* An answer, with the peer it is from.
Reply == [from : Node, term : Nat, ok : BOOLEAN]

\* needed = total / 2 + 1.
Majority(S) == Cardinality(S) >= Cardinality(Node) \div 2 + 1

NewNode ==
  [term |-> 0, votedFor |-> {}, log |-> <<>>, role |-> "follower",
   leader |-> {}, commit |-> 0, next |-> [p \in Node |-> 1],
   match |-> [p \in Node |-> 0]]

\* A loop between two iterations, and no proposal in progress.
NoElection == [req |-> {}, todo |-> <<>>, votes |-> {}, reply |-> {}]
NoHeartbeat == [todo |-> <<>>, peer |-> {}, req |-> {}, reply |-> {}]
NoProposal == [at |-> "idle", entry |-> {}, req |-> {}, todo |-> <<>>,
               acks |-> {}, reply |-> {}]

ElectionState == [req : SUBSET VoteReq, todo : Seq(Node), votes : SUBSET Node,
                  reply : SUBSET Reply]
HeartbeatState == [todo : Seq(Node), peer : SUBSET Node, req : SUBSET AppendReq,
                   reply : SUBSET Reply]
ProposalState ==
  [at : {"idle", "appended", "replicate", "commit", "announce"},
   entry : SUBSET Entry, req : SUBSET AppendReq, todo : Seq(Node),
   acks : SUBSET Node, reply : SUBSET Reply]

\* Every field and every local variable holds a value of its type.
TypeOK ==
  /\ node \in [Node -> NodeState]
  /\ running \subseteq Node
  /\ registered \subseteq Node
  /\ election \in [Node -> ElectionState]
  /\ heartbeat \in [Node -> HeartbeatState]
  /\ proposal \in [Node -> ProposalState]
  /\ applied \in [Node -> Seq(Entry \cup {Garbage})]
  /\ elections \in Nat
  /\ proposals \in Nat
  /\ stops \in Nat
  /\ restarts \in Nat
  /\ elected \subseteq [term : Nat, leader : Node, voters : SUBSET Node]
  /\ stray \in SUBSET {"deposed", "reread", "late"}

-----------------------------------------------------------------------------
(* The private helpers, on the fields s of one node.                       *)

TermAt(s, i) == IF i \in 1..Len(s.log) THEN s.log[i].term ELSE 0

LastTerm(s) == TermAt(s, Len(s.log))

\* Mutant of IsUpToDate: does not compare the logs.
IsUpToDateAlways(s, req) == TRUE

IsUpToDate(s, req) ==
  IF req.lastTerm # LastTerm(s)
  THEN req.lastTerm > LastTerm(s)
  ELSE req.lastIndex >= Len(s.log)

\* What the leader knows n to hold: for itself, its own log.
Matched(n, s) == [p \in Node |-> IF p = n THEN Len(s.log) ELSE s.match[p]]

\* Mutant of MajorityMatch: the last element of the sorted indexes.
MajorityMatchLast(n, s) == Max({Matched(n, s)[p] : p \in Node})

\* The element at [size / 2] of the sorted indexes: the largest one that the
\* nodes from that position on reach.
MajorityMatch(n, s) ==
  LET m == Matched(n, s)
      Reach(i) == Cardinality({p \in Node : m[p] >= i})
  IN  Max({i \in {m[p] : p \in Node} :
             Reach(i) >= Cardinality(Node) - Cardinality(Node) \div 2})

AdvanceCommitIndex(n, s) ==
  LET i == MajorityMatch(n, s)
  IN  IF i > s.commit /\ TermAt(s, i) = s.term THEN [s EXCEPT !.commit = i] ELSE s

BecomeFollower(s, t, l) ==
  [s EXCEPT !.role = "follower", !.leader = l, !.term = t, !.votedFor = {}]

BecomeCandidate(n, s) ==
  [s EXCEPT !.role = "candidate", !.leader = {}, !.term = s.term + 1,
            !.votedFor = {n}]

BecomeLeader(n, s) ==
  [s EXCEPT !.role = "leader", !.leader = {n},
            !.next = [p \in Node |-> Len(s.log) + 1],
            !.match = [p \in Node |-> 0]]

BuildAppendEntries(n, s, p) ==
  LET prev == IF s.next[p] \in {0, 1} THEN 0 ELSE s.next[p] - 1
  IN  [term |-> s.term, leader |-> n, prev |-> prev, prevTerm |-> TermAt(s, prev),
       entries |-> IF s.next[p] \in 1..Len(s.log)
                   THEN SubSeq(s.log, s.next[p], Len(s.log)) ELSE <<>>,
       commit |-> s.commit]

-----------------------------------------------------------------------------
(* The handlers: the answer and the fields after it.  An answer carries    *)
(* the term the handler leaves.                                            *)

\* Mutant of OnRequestVote: does not look at voted_for_.
OnRequestVoteAgain(s, req) ==
  LET t == IF req.term > s.term THEN BecomeFollower(s, req.term, {}) ELSE s
      grant == req.term >= s.term /\ IsUpToDate(t, req)
  IN  [ok |-> grant,
       node |-> IF grant THEN [t EXCEPT !.votedFor = {req.candidate}] ELSE t]

\* Mutant of OnRequestVote: takes the candidate for the leader.
OnRequestVoteFollows(s, req) ==
  LET t == IF req.term > s.term
           THEN BecomeFollower(s, req.term, {req.candidate}) ELSE s
      grant == /\ req.term >= s.term
               /\ t.votedFor \subseteq {req.candidate}
               /\ IsUpToDate(t, req)
  IN  [ok |-> grant,
       node |-> IF grant THEN [t EXCEPT !.votedFor = {req.candidate}] ELSE t]

OnRequestVote(s, req) ==
  LET t == IF req.term > s.term THEN BecomeFollower(s, req.term, {}) ELSE s
      grant == /\ req.term >= s.term
               /\ t.votedFor \subseteq {req.candidate}
               /\ IsUpToDate(t, req)
  IN  [ok |-> grant,
       node |-> IF grant THEN [t EXCEPT !.votedFor = {req.candidate}] ELSE t]

\* Mutant of OnAppendEntries: does not truncate.
OnAppendEntriesNoResize(s, req) ==
  LET t == IF req.term > s.term
           THEN BecomeFollower(s, req.term, {req.leader})
           ELSE [s EXCEPT !.role = "follower", !.leader = {req.leader}]
      consistent == req.prev <= Len(t.log) /\ TermAt(t, req.prev) = req.prevTerm
      log == IF req.entries = <<>> THEN t.log
             ELSE t.log \o req.entries
      commit == IF req.commit > t.commit THEN Min({req.commit, Len(log)}) ELSE t.commit
  IN  IF req.term < s.term THEN [ok |-> FALSE, node |-> s]
      ELSE IF ~consistent THEN [ok |-> FALSE, node |-> t]
      ELSE [ok |-> TRUE, node |-> [t EXCEPT !.log = log, !.commit = commit]]

\* Mutant of OnAppendEntries: takes the leader's commit index as it is.
OnAppendEntriesCommitBack(s, req) ==
  LET t == IF req.term > s.term
           THEN BecomeFollower(s, req.term, {req.leader})
           ELSE [s EXCEPT !.role = "follower", !.leader = {req.leader}]
      consistent == req.prev <= Len(t.log) /\ TermAt(t, req.prev) = req.prevTerm
      log == IF req.entries = <<>> THEN t.log
             ELSE SubSeq(t.log, 1, req.prev) \o req.entries
      commit == Min({req.commit, Len(log)})
  IN  IF req.term < s.term THEN [ok |-> FALSE, node |-> s]
      ELSE IF ~consistent THEN [ok |-> FALSE, node |-> t]
      ELSE [ok |-> TRUE, node |-> [t EXCEPT !.log = log, !.commit = commit]]

OnAppendEntries(s, req) ==
  LET t == IF req.term > s.term
           THEN BecomeFollower(s, req.term, {req.leader})
           ELSE [s EXCEPT !.role = "follower", !.leader = {req.leader}]
      consistent == req.prev <= Len(t.log) /\ TermAt(t, req.prev) = req.prevTerm
      log == IF req.entries = <<>> THEN t.log
             ELSE SubSeq(t.log, 1, req.prev) \o req.entries
      commit == IF req.commit > t.commit THEN Min({req.commit, Len(log)}) ELSE t.commit
  IN  IF req.term < s.term THEN [ok |-> FALSE, node |-> s]
      ELSE IF ~consistent THEN [ok |-> FALSE, node |-> t]
      ELSE [ok |-> TRUE, node |-> [t EXCEPT !.log = log, !.commit = commit]]

\* InProcessTransport: p handles the request, or is not registered.
Deliver(p, req, handled) ==
  IF p \in registered
  THEN [node |-> [node EXCEPT ![p] = handled.node],
        reply |-> [from |-> p, term |-> handled.node.term, ok |-> handled.ok]]
  ELSE [node |-> node, reply |-> [from |-> p, term |-> req.term, ok |-> FALSE]]

\* The bound on iterations and proposals that are under way.
MayBegin ==
  Cardinality({n \in Node : election[n] # NoElection})
  + Cardinality({n \in Node : heartbeat[n] # NoHeartbeat})
  + Cardinality({n \in Node : proposal[n] # NoProposal}) < MaxBusy

-----------------------------------------------------------------------------
(* ElectionLoop.                                                           *)

\* The timeout of a node that does not lead.  The test and the candidacy are
\* two lock sections, but only this thread ever makes the node a leader.
StartElection(n) ==
  LET s == BecomeCandidate(n, node[n])
  IN  /\ n \in running
      /\ election[n] = NoElection
      /\ node[n].role # "leader"
      /\ elections < MaxElections
      /\ MayBegin
      /\ elections' = elections + 1
      /\ node' = [node EXCEPT ![n] = s]
      /\ election' = [election EXCEPT ![n] =
           [req |-> {[term |-> s.term, candidate |-> n,
                      lastIndex |-> Len(s.log), lastTerm |-> LastTerm(s)]},
            todo |-> Peers[n], votes |-> {n}, reply |-> {}]]
      /\ UNCHANGED <<running, registered, heartbeat, proposal, applied, proposals,
                     stops, restarts, elected, stray>>

RequestVote(n) ==
  \E req \in election[n].req :
    LET p == Head(election[n].todo)
        d == Deliver(p, req, OnRequestVote(node[p], req))
    IN  /\ election[n].reply = {}
        /\ election[n].todo # <<>>
        /\ node' = d.node
        /\ election' = [election EXCEPT ![n].todo = Tail(@), ![n].reply = {d.reply}]
        /\ UNCHANGED <<running, registered, heartbeat, proposal, applied, proposals,
                       stops, elections, restarts, elected, stray>>

\* The answer counts only if the node is still a candidate of the same term.
CollectVote(n) ==
  \E req \in election[n].req, reply \in election[n].reply :
    LET s == node[n]
        votes == election[n].votes \cup (IF reply.ok THEN {reply.from} ELSE {})
        counts == s.role = "candidate" /\ s.term = req.term
        wins == counts /\ reply.term <= s.term /\ Majority(votes)
        over == ~counts \/ reply.term > s.term \/ wins \/ election[n].todo = <<>>
    IN  /\ node' = [node EXCEPT ![n] =
             IF counts /\ reply.term > s.term THEN BecomeFollower(s, reply.term, {})
             ELSE IF wins THEN BecomeLeader(n, s) ELSE s]
        /\ elected' = IF wins
                      THEN elected \cup {[term |-> s.term, leader |-> n, voters |-> votes]}
                      ELSE elected
        /\ election' = [election EXCEPT ![n] =
             IF over THEN NoElection ELSE [@ EXCEPT !.votes = votes, !.reply = {}]]
        /\ UNCHANGED <<running, registered, heartbeat, proposal, applied, proposals,
                       stops, elections, restarts, stray>>

-----------------------------------------------------------------------------
(* HeartbeatLoop.                                                          *)

\* A round begins, or goes on to the next peer, while the node leads.
HeartbeatBuild(n) ==
  LET todo == IF heartbeat[n].todo = <<>> THEN Peers[n] ELSE heartbeat[n].todo
  IN  /\ heartbeat[n].req = {}
      /\ node[n].role = "leader"
      /\ heartbeat[n].todo = <<>> => n \in running /\ MayBegin
      /\ todo # <<>>
      /\ heartbeat' = [heartbeat EXCEPT ![n] =
           [todo |-> Tail(todo), peer |-> {Head(todo)}, reply |-> {},
            req |-> {BuildAppendEntries(n, node[n], Head(todo))}]]
      /\ UNCHANGED <<node, running, registered, election, proposal, applied, proposals,
                     stops, elections, restarts, elected, stray>>

\* The node was deposed within a round.
HeartbeatBreak(n) ==
  /\ heartbeat[n].req = {}
  /\ heartbeat[n].todo # <<>>
  /\ node[n].role # "leader"
  /\ heartbeat' = [heartbeat EXCEPT ![n] = NoHeartbeat]
  /\ UNCHANGED <<node, running, registered, election, proposal, applied, proposals,
                 stops, elections, restarts, elected, stray>>

HeartbeatSend(n) ==
  \E p \in heartbeat[n].peer, req \in heartbeat[n].req :
    LET d == Deliver(p, req, OnAppendEntries(node[p], req))
    IN  /\ heartbeat[n].reply = {}
        /\ node' = d.node
        /\ heartbeat' = [heartbeat EXCEPT ![n].reply = {d.reply}]
        /\ UNCHANGED <<running, registered, election, proposal, applied, proposals,
                       stops, elections, restarts, elected, stray>>

\* The answer of p to req, in whatever role and term n is by now.
Acknowledged(n, s, p, req) ==
  LET last == req.prev + Len(req.entries)
      t == IF req.entries = <<>> THEN s
           ELSE [s EXCEPT !.match[p] = last, !.next[p] = last + 1]
  IN  AdvanceCommitIndex(n, t)

\* Mutant of Backtracked: no lower limit.
BacktrackedFurther(s, p) == [s EXCEPT !.next[p] = @ - 1]

\* Mutant of Backtracked: sends the same again.
BacktrackedNever(s, p) == s

Backtracked(s, p) ==
  IF s.next[p] > 1 THEN [s EXCEPT !.next[p] = Max({1, @ - 1})] ELSE s

HeartbeatReply(n) ==
  \E req \in heartbeat[n].req, reply \in heartbeat[n].reply :
    LET s == node[n]
        higher == reply.term > s.term
    IN  /\ node' = [node EXCEPT ![n] =
             IF higher THEN BecomeFollower(s, reply.term, {})
             ELSE IF reply.ok THEN Acknowledged(n, s, reply.from, req)
             ELSE Backtracked(s, reply.from)]
        /\ heartbeat' = [heartbeat EXCEPT ![n] =
             IF higher THEN NoHeartbeat
             ELSE [NoHeartbeat EXCEPT !.todo = heartbeat[n].todo]]
        /\ stray' = stray \cup (IF reply.ok /\ ~higher /\ s.term # req.term THEN {"late"} ELSE {})
        /\ UNCHANGED <<running, registered, election, proposal, applied, proposals,
                       stops, elections, restarts, elected>>

-----------------------------------------------------------------------------
(* ProposePut and ProposeDel, which differ in the entry only.  One caller  *)
(* per node: the server threads and the demo call them one after another.  *)

\* The first lock section.
Propose(n) ==
  LET e == [term |-> node[n].term, id |-> proposals + 1]
  IN  /\ n \in registered
      /\ proposal[n].at = "idle"
      /\ node[n].role = "leader"
      /\ proposals < MaxProposals
      /\ MayBegin
      /\ proposals' = proposals + 1
      /\ node' = [node EXCEPT ![n].log = Append(@, e)]
      /\ proposal' = [proposal EXCEPT ![n] =
           [NoProposal EXCEPT !.at = "appended", !.entry = {e}]]
      /\ UNCHANGED <<running, registered, election, heartbeat, applied, stops,
                     elections, restarts, elected, stray>>

\* The second lock section: term and index are read again, and the role is not.
ProposeBuild(n) ==
  \E e \in proposal[n].entry :
    LET s == node[n]
        prev == Len(s.log) - 1
    IN  /\ proposal[n].at = "appended"
        /\ proposal' = [proposal EXCEPT ![n] =
             [at |-> "replicate", entry |-> {e}, todo |-> Peers[n], acks |-> {n},
              req |-> {[term |-> s.term, leader |-> n, prev |-> prev,
                        prevTerm |-> TermAt(s, prev), entries |-> <<e>>, commit |-> 0]},
              reply |-> {}]]
        /\ stray' = stray
             \cup (IF s.role # "leader" \/ s.log[Len(s.log)] # e THEN {"deposed"} ELSE {})
             \cup (IF s.term # e.term THEN {"reread"} ELSE {})
        /\ UNCHANGED <<node, running, registered, election, heartbeat, applied,
                       proposals, stops, elections, restarts, elected>>

\* Mutant of ProposeSend: repeats a call that failed.
ProposeSendRetry(n) ==
  \E req \in proposal[n].req :
    LET p == Head(proposal[n].todo)
        d == Deliver(p, req, OnAppendEntries(node[p], req))
    IN  /\ proposal[n].reply = {}
        /\ proposal[n].todo # <<>>
        /\ node' = d.node
        /\ proposal' = [proposal EXCEPT ![n].todo = IF d.reply.ok THEN Tail(@) ELSE @, ![n].reply = {d.reply}]
        /\ UNCHANGED <<running, registered, election, heartbeat, applied, proposals,
                       stops, elections, restarts, elected, stray>>

\* A call of either loop over peers_.
ProposeSend(n) ==
  \E req \in proposal[n].req :
    LET p == Head(proposal[n].todo)
        d == Deliver(p, req, OnAppendEntries(node[p], req))
    IN  /\ proposal[n].reply = {}
        /\ proposal[n].todo # <<>>
        /\ node' = d.node
        /\ proposal' = [proposal EXCEPT ![n].todo = Tail(@), ![n].reply = {d.reply}]
        /\ UNCHANGED <<running, registered, election, heartbeat, applied, proposals,
                       stops, elections, restarts, elected, stray>>

\* An answer to the entry: return false, go on, or stop at a majority.
ProposeReply(n) ==
  \E reply \in proposal[n].reply :
    LET s == node[n]
        leads == s.role = "leader"
        higher == leads /\ reply.term > s.term
        acks == proposal[n].acks \cup (IF reply.ok THEN {reply.from} ELSE {})
    IN  /\ proposal[n].at = "replicate"
        /\ node' = IF higher THEN [node EXCEPT ![n] = BecomeFollower(s, reply.term, {})]
                   ELSE node
        /\ proposal' = [proposal EXCEPT ![n] =
             IF ~leads \/ higher THEN NoProposal
             ELSE IF Majority(acks) THEN [NoProposal EXCEPT !.at = "commit"]
             ELSE IF @.todo = <<>> THEN NoProposal
             ELSE [@ EXCEPT !.acks = acks, !.reply = {}]]
        /\ UNCHANGED <<running, registered, election, heartbeat, applied, proposals,
                       stops, elections, restarts, elected, stray>>

\* The commit index, as it is by now, goes to all peers.
ProposeCommit(n) ==
  LET s == node[n]
      last == Len(s.log)
  IN  /\ proposal[n].at = "commit"
      /\ proposal' = [proposal EXCEPT ![n] =
           [NoProposal EXCEPT !.at = "announce", !.todo = Peers[n],
              !.req = {[term |-> s.term, leader |-> n, prev |-> last,
                        prevTerm |-> TermAt(s, last), entries |-> <<>>,
                        commit |-> s.commit]}]]
      /\ UNCHANGED <<node, running, registered, election, heartbeat, applied,
                     proposals, stops, elections, restarts, elected, stray>>

\* An answer to that; in the end ProposePut returns true.
AnnounceReply(n) ==
  \E reply \in proposal[n].reply :
    LET higher == reply.term > node[n].term
    IN  /\ proposal[n].at = "announce"
        /\ node' = IF higher
                   THEN [node EXCEPT ![n] = BecomeFollower(node[n], reply.term, {})]
                   ELSE node
        /\ proposal' = [proposal EXCEPT ![n] =
             IF higher \/ @.todo = <<>> THEN NoProposal ELSE [@ EXCEPT !.reply = {}]]
        /\ UNCHANGED <<running, registered, election, heartbeat, applied, proposals,
                       stops, elections, restarts, elected, stray>>

-----------------------------------------------------------------------------

\* One iteration of ApplyLoop that finds something to apply.
Apply(n) ==
  LET i == Len(applied[n]) + 1
      s == node[n]
  IN  /\ n \in running
      /\ i <= s.commit
      /\ applied' = [applied EXCEPT ![n] =
           Append(@, IF i <= Len(s.log) THEN s.log[i] ELSE Garbage)]
      /\ UNCHANGED <<node, running, registered, election, heartbeat, proposal,
                     proposals, stops, elections, restarts, elected, stray>>

\* Stop, called where proposals are made: the loops end with their iteration.
Stop(n) ==
  /\ n \in running
  /\ proposal[n].at = "idle"
  /\ stops < MaxStops
  /\ stops' = stops + 1
  /\ running' = running \ {n}
  /\ UNCHANGED <<node, registered, election, heartbeat, proposal, applied,
                 proposals, elections, restarts, elected, stray>>

\* Unregister, once Stop has joined the threads.  A node that is only stopped
\* keeps answering its peers.
Unregister(n) ==
  /\ n \in registered \ running
  /\ election[n] = NoElection
  /\ heartbeat[n] = NoHeartbeat
  /\ proposal[n].at = "idle"
  /\ registered' = registered \ {n}
  /\ UNCHANGED <<node, running, election, heartbeat, proposal, applied,
                 proposals, stops, elections, restarts, elected, stray>>

\* The node is created again, registered and started.  Nothing is persistent,
\* and its state machine is given the entries from the first one on.
Restart(n) ==
  /\ n \notin registered
  /\ restarts < MaxRestarts
  /\ restarts' = restarts + 1
  /\ node' = [node EXCEPT ![n] = NewNode]
  /\ applied' = [applied EXCEPT ![n] = <<>>]
  /\ running' = running \cup {n}
  /\ registered' = registered \cup {n}
  /\ UNCHANGED <<election, heartbeat, proposal, proposals, stops, elections, elected, stray>>

Init ==
  /\ node = [n \in Node |-> NewNode]
  /\ running = Node
  /\ registered = Node
  /\ election = [n \in Node |-> NoElection]
  /\ heartbeat = [n \in Node |-> NoHeartbeat]
  /\ proposal = [n \in Node |-> NoProposal]
  /\ applied = [n \in Node |-> <<>>]
  /\ elections = 0
  /\ proposals = 0
  /\ stops = 0
  /\ restarts = 0
  /\ elected = {}
  /\ stray = {}

ElectionStep(n) ==
  StartElection(n) \/ RequestVote(n) \/ CollectVote(n)

HeartbeatStep(n) ==
  \/ HeartbeatBuild(n)
  \/ HeartbeatBreak(n)
  \/ HeartbeatSend(n)
  \/ HeartbeatReply(n)

ProposeStep(n) ==
  \/ ProposeBuild(n)
  \/ ProposeSend(n)
  \/ ProposeReply(n)
  \/ ProposeCommit(n)
  \/ AnnounceReply(n)

Next ==
  \E n \in Node :
    \/ ElectionStep(n)
    \/ HeartbeatStep(n)
    \/ Propose(n)
    \/ ProposeStep(n)
    \/ Apply(n)
    \/ Stop(n)
    \/ Unregister(n)
    \/ Restart(n)

Spec == Init /\ [][Next]_vars

\* The threads run; timeouts, clients and restarts need not happen.
FairSpec ==
  /\ Spec
  /\ \A n \in Node : /\ WF_vars(RequestVote(n) \/ CollectVote(n))
                      /\ WF_vars(HeartbeatStep(n))
                      /\ WF_vars(ProposeStep(n))
                      /\ WF_vars(Apply(n))

-----------------------------------------------------------------------------
(* Properties.                                                             *)

\* Two nodes never win the election of one term, however calls, answers and
\* timeouts interleave, as long as no node was created again.
ElectionSafety ==
  restarts = 0 =>
    \A e, f \in elected : e.term = f.term => e.leader = f.leader

\* No node was created again, and none that is deposed has sent its proposal.
Undeposed == restarts = 0 /\ "deposed" \notin stray

\* Also, no answer to a heartbeat was counted for a later term than the heartbeat's.
Undisturbed == restarts = 0 /\ stray \subseteq {"reread"}

\* Entries of two logs with the same index and term are the same, and so is all
\* before them: the consistency check of OnAppendEntries.
LogMatching ==
  Undeposed =>
    \A m, n \in Node :
      \A i \in DOMAIN node[m].log \cap DOMAIN node[n].log :
        node[m].log[i].term = node[n].log[i].term =>
          SubSeq(node[m].log, 1, i) = SubSeq(node[n].log, 1, i)

\* Nodes apply the same entries in the same order, all of them read from the log.
StateMachineSafety ==
  \A m, n \in Node :
    \A i \in DOMAIN applied[m] \cap DOMAIN applied[n] :
      applied[m][i] = applied[n][i] /\ applied[m][i] # Garbage

\* The same, undisturbed.
UndisturbedStateMachineSafety == Undisturbed => StateMachineSafety

\* A leader has every entry that some node of a term not above its own holds committed.
LeaderCompleteness ==
  Undisturbed =>
    \A l, n \in Node :
      node[l].role = "leader" /\ node[n].term <= node[l].term =>
        /\ node[n].commit <= Len(node[l].log)
        /\ node[n].commit <= Len(node[n].log)
        /\ \A i \in 1..node[n].commit : node[l].log[i] = node[n].log[i]

\* No step takes a commit index back or replaces a committed entry, although
\* OnAppendEntries truncates whatever follows the previous entry.
CommittedStable ==
  [][Undisturbed' =>
       \A n \in Node :
         /\ node'[n].commit >= node[n].commit
         /\ \A i \in 1..node[n].commit : node'[n].log[i] = node[n].log[i]]_vars

\* A proposal returns, whatever its peers answer.
ProposalReturns == \A n \in Node : proposal[n].at # "idle" ~> proposal[n].at = "idle"

\* n leads a majority, and has an entry of its term, which AdvanceCommitIndex needs.
Leads(n) ==
  /\ n \in running
  /\ node[n].role = "leader"
  /\ Majority(registered)
  /\ LastTerm(node[n]) = node[n].term

\* Under a leader that stays, each registered node, created again or not, ends with
\* the leader's log, and if it runs has applied all of it: next_index_ goes back
\* far enough, the entries are sent again and the commit index follows.
Converges ==
  \A n \in Node :
    <>[]Leads(n) =>
      <>[](\A p \in registered :
             /\ node[p].log = node[n].log
             /\ p \in running => applied[p] = node[n].log)

=============================================================================
