------------------------------- MODULE Cluster -------------------------------
(***************************************************************************)
(* The servers of cluster_demo over Raft, and kv_client.  A client is one  *)
(* run of kv_client: one command, and after a NOT_LEADER with a port the   *)
(* same command once more.  Each server handles one connection at a time.  *)
(*                                                                         *)
(* A port is its node.  PUT stands for DEL as well, which differs in the   *)
(* entry and in the word for failure.  Commands that change nothing (GET,  *)
(* SIZE, STATUS, PING, and usage errors) are not steps.  Nodes are never   *)
(* unregistered or created again here.                                     *)
(***************************************************************************)
EXTENDS Raft

CONSTANTS
  Client,
  Wants     \* the command that each client is run with

VARIABLES
  client,   \* each client with the locals of the handle_command that serves it
  serving,  \* the client whose connection each run_server has accepted
  cut       \* history: a node has dropped an entry of its current term

clusterVars == <<vars, client, serving, cut>>

Command == {"PUT", "KILL"}

ASSUME ClusterAssumption == Wants \in [Client -> Command]

Answer == {"OK", "FAIL", "STOPPED", "NOT_LEADER"}

ClientState ==
  [at : {"connect", "put", "no_leader", "hint", "wait", "join", "done"},
   ports : SUBSET Node,     \* where it may connect
   redirected : BOOLEAN,
   entry : SUBSET Entry,    \* history: what was proposed for it
   hint : SUBSET Node,      \* the storage of leader_id_ after has_value()
   answer : SUBSET Answer]

NewClient == [at |-> "connect", ports |-> Node, redirected |-> FALSE, entry |-> {},
              hint |-> {}, answer |-> {}]

\* Every local variable of the clients and servers is of its type.
ClusterTypeOK ==
  /\ client \in [Client -> ClientState]
  /\ serving \in [Node -> SUBSET Client]
  /\ cut \in BOOLEAN

\* n serves c, who is at the place `at'.
Serves(n, c, at) == serving[n] = {c} /\ client[c].at = at

Goto(c, at) == client' = [client EXCEPT ![c].at = at]

\* The client has its answer and closes the connection; it follows the first
\* NOT_LEADER with a port.
Respond(n, c, answer, port) ==
  /\ serving' = [serving EXCEPT ![n] = {}]
  /\ client' = [client EXCEPT ![c] =
       IF port # {} /\ ~@.redirected
       THEN [NewClient EXCEPT !.ports = port, !.redirected = TRUE]
       ELSE [@ EXCEPT !.at = "done", !.answer = {answer}]]

------------------------------------------------------------------------------
(* The steps of Raft that no client makes.                                 *)

\* An optional that is reset keeps the value in its storage.
Storage ==
  client' = [c \in Client |->
    LET new == UNION {node'[n].leader : n \in {m \in Node : Serves(m, c, "hint")}}
    IN  IF new # {} THEN [client[c] EXCEPT !.hint = new] ELSE client[c]]

\* History: entries of the current term that a log has lost.
Observe ==
  cut' = (cut \/ \E n \in Node : \E i \in DOMAIN node[n].log :
                    /\ i > Len(node'[n].log)
                    /\ node[n].log[i].term = node'[n].term)

LoopStep(n) ==
  /\ ElectionStep(n) \/ HeartbeatStep(n) \/ Apply(n)
  /\ Storage
  /\ Observe
  /\ UNCHANGED serving

------------------------------------------------------------------------------
(* run_server and handle_command.                                          *)

\* kv_client connects and sends its command; accept.
Accept(n, c) ==
  /\ client[c].at = "connect"
  /\ n \in client[c].ports
  /\ serving[n] = {}
  /\ serving' = [serving EXCEPT ![n] = {c}]

\* PUT: the role is read without the mutex.
Put(n, c) ==
  /\ Wants[c] = "PUT"
  /\ Accept(n, c)
  /\ Goto(c, IF node[n].role = "leader" THEN "put" ELSE "no_leader")
  /\ UNCHANGED <<vars, cut>>

\* leader_id().has_value().
HasLeader(n, c) ==
  /\ Serves(n, c, "no_leader")
  /\ IF node[n].leader = {} THEN Respond(n, c, "NOT_LEADER", {})
     ELSE /\ client' = [client EXCEPT ![c].at = "hint", ![c].hint = node[n].leader]
          /\ UNCHANGED serving
  /\ UNCHANGED <<vars, cut>>

\* Mutant of LeaderPort: answers with the port of no node.
LeaderPortDefault(n, c) ==
  /\ Serves(n, c, "hint")
  /\ Respond(n, c, "NOT_LEADER", {-1})
  /\ UNCHANGED <<vars, cut>>

\* *leader_id(), a second reading.
LeaderPort(n, c) ==
  /\ Serves(n, c, "hint")
  /\ Respond(n, c, "NOT_LEADER", client[c].hint)
  /\ UNCHANGED <<vars, cut>>

\* ProposePut checks the role again, under the mutex.
PutBegin(n, c) ==
  /\ Serves(n, c, "put")
  /\ \/ /\ Propose(n)
        /\ client' = [client EXCEPT ![c].at = "wait", ![c].entry = proposal'[n].entry]
        /\ UNCHANGED serving
     \/ /\ node[n].role # "leader"
        /\ Respond(n, c, "FAIL", {})
        /\ UNCHANGED vars
  /\ UNCHANGED cut

\* Whoever gets as far as announcing the commit index returns true.
PutStep(n, c) ==
  /\ Serves(n, c, "wait")
  /\ ProposeStep(n)
  /\ IF proposal'[n] # NoProposal THEN Storage /\ UNCHANGED serving
     ELSE Respond(n, c, IF proposal[n].at = "announce" THEN "OK" ELSE "FAIL", {})
  /\ Observe

\* KILL is Stop: the loops are told to end, and joined.  The node keeps its role and
\* goes on answering.  To stop it again changes nothing.
Kill(n, c) ==
  /\ Wants[c] = "KILL"
  /\ Accept(n, c)
  /\ Stop(n)
  /\ Goto(c, "join")
  /\ UNCHANGED cut

KillJoin(n, c) ==
  /\ Serves(n, c, "join")
  /\ election[n] = NoElection
  /\ heartbeat[n] = NoHeartbeat
  /\ Respond(n, c, "STOPPED", {})
  /\ UNCHANGED <<vars, cut>>

------------------------------------------------------------------------------

ClusterInit ==
  /\ Init
  /\ client = [c \in Client |-> NewClient]
  /\ serving = [n \in Node |-> {}]
  /\ cut = FALSE

ServerStep(n, c) ==
  \/ Put(n, c)
  \/ HasLeader(n, c)
  \/ LeaderPort(n, c)
  \/ PutBegin(n, c)
  \/ PutStep(n, c)
  \/ Kill(n, c)
  \/ KillJoin(n, c)

ClusterNext == \E n \in Node : LoopStep(n) \/ \E c \in Client : ServerStep(n, c)

ClusterSpec == ClusterInit /\ [][ClusterNext]_clusterVars

------------------------------------------------------------------------------
(* Properties.                                                             *)

\* NOT_LEADER never names a node that has not led, although the hint is read twice
\* without the mutex and although deposed nodes may still send to their peers.
RedirectNamesElected ==
  \A c \in Client :
    \A n \in client[c].hint \cup (IF client[c].redirected THEN client[c].ports ELSE {}) :
      \E e \in elected : e.leader = n

\* A write that was answered with OK, before its entry is committed, is in the log of
\* every leader of its term and later ones, unless a node has sent its proposal or
\* counted an answer outside of its term or a heartbeat built earlier has cut the
\* entry off some log.
AckedKept ==
  stray = {} /\ ~cut =>
    \A c \in Client : client[c].answer = {"OK"} =>
      \A e \in client[c].entry, l \in Node :
        node[l].role = "leader" /\ node[l].term >= e.term =>
          \E i \in DOMAIN node[l].log : node[l].log[i] = e

==============================================================================
