------------------------------ MODULE Election ------------------------------
(***************************************************************************)
(* The simplified leader election of minidb: ElectionManager               *)
(* (cluster/election.py) together with the two loops of ClusterCoordinator *)
(* that carry its messages, _request_votes and _send_heartbeats            *)
(* (cluster/coordinator.py).                                               *)
(*                                                                         *)
(* Every node runs one election thread.  It reads its role, and then       *)
(* either sends one round of heartbeats or, when its timeout has expired,  *)
(* runs an election: it asks its peers one by one over a synchronous call  *)
(* with a timeout, and compares the votes with a majority of the members   *)
(* it sees alive.  Vote requests and heartbeats of other nodes are handled *)
(* by other threads, between any two steps of the election thread.         *)
(*                                                                         *)
(* Timers are abstracted: a timeout may expire at any moment.  The         *)
(* replicated log of ElectionManager stays empty in the running program    *)
(* (nothing calls append_entry or sends APPEND_ENTRIES), so the log check  *)
(* of a vote request is always true and is left out.  What a node sees of  *)
(* the membership is any element of Views.                                 *)
(***************************************************************************)
EXTENDS Integers, FiniteSets

CONSTANTS
    Node,         \* the nodes of the cluster
    None,         \* no node: Python's None for voted_for and leader_id
    Views,        \* the sets of alive members a node may see
    MaxTerm,      \* bound: no election starts from this term on
    MaxRestarts,  \* bound: process restarts in a behaviour
    MaxInFlight   \* bound: messages in flight, a send beyond it is lost

ASSUME NodeAssumption == IsFiniteSet(Node)
ASSUME NoneAssumption == None \notin Node
ASSUME ViewsAssumption == Views \subseteq SUBSET Node
ASSUME MaxAssumption ==
    MaxTerm \in Nat /\ MaxRestarts \in Nat /\ MaxInFlight \in Nat

VARIABLES
    role,          \* role[n]: FOLLOWER, CANDIDATE or LEADER
    currentTerm,   \* current_term
    votedFor,      \* voted_for
    leaderId,      \* leader_id
    pc,            \* where the election thread of n is
    ballot,        \* the local variable term of _start_election
    pending,       \* peers the loop of the election thread has still to call
    waiting,       \* the peer whose vote response the thread waits for
    votes,         \* who granted a vote in this election (votes counts them)
    voteReqs,      \* vote requests in flight
    heartbeats,    \* heartbeats in flight
    cast,          \* history: every vote ever cast, <<voter, term, candidate>>
    wins,          \* history: every election won
    restarts       \* number of restarts so far

state == <<role, currentTerm, votedFor, leaderId>>
thread == <<pc, ballot, pending, waiting, votes>>
network == <<voteReqs, heartbeats>>
history == <<cast, wins, restarts>>
vars == <<state, thread, network, history>>

Roles == {"FOLLOWER", "CANDIDATE", "LEADER"}
Terms == 0 .. MaxTerm
VoteReq == [from : Node, to : Node, term : Terms]
Heartbeat == [leader : Node, to : Node, term : Terms]
Win == [node : Node, term : Terms, voters : SUBSET Node, view : SUBSET Node]

(* get_alive_nodes always contains the local node. *)
View(n) == {v \cup {n} : v \in Views}

(***************************************************************************)
(* __init__: a fresh manager.  Nothing of it is persisted.                 *)
(***************************************************************************)
Init ==
    /\ role = [n \in Node |-> "FOLLOWER"]
    /\ currentTerm = [n \in Node |-> 0]
    /\ votedFor = [n \in Node |-> None]
    /\ leaderId = [n \in Node |-> None]
    /\ pc = [n \in Node |-> "idle"]
    /\ ballot = [n \in Node |-> 0]
    /\ pending = [n \in Node |-> {}]
    /\ waiting = [n \in Node |-> None]
    /\ votes = [n \in Node |-> {}]
    /\ voteReqs = {}
    /\ heartbeats = {}
    /\ cast = {}
    /\ wins = {}
    /\ restarts = 0

(* Mutant: the votes of one election are still counted in the next. *)
ThreadIdleKeepsVotes(n) ==
    /\ pc' = [pc EXCEPT ![n] = "idle"]
    /\ ballot' = [ballot EXCEPT ![n] = 0]
    /\ pending' = [pending EXCEPT ![n] = {}]
    /\ waiting' = [waiting EXCEPT ![n] = None]
    /\ UNCHANGED votes

RoomInFlight == Cardinality(voteReqs) + Cardinality(heartbeats) < MaxInFlight

(* The thread returns to the top of _election_loop. *)
ThreadIdle(n) ==
    /\ pc' = [pc EXCEPT ![n] = "idle"]
    /\ ballot' = [ballot EXCEPT ![n] = 0]
    /\ pending' = [pending EXCEPT ![n] = {}]
    /\ waiting' = [waiting EXCEPT ![n] = None]
    /\ votes' = [votes EXCEPT ![n] = {}]

(***************************************************************************)
(* _election_loop, role = LEADER: the role is read under the lock, which   *)
(* is released before the heartbeats are sent.                             *)
(***************************************************************************)
BeginHeartbeats(n) ==
    /\ pc[n] = "idle"
    /\ role[n] = "LEADER"
    /\ \E view \in View(n) :
         /\ pc' = [pc EXCEPT ![n] = "beating"]
         /\ pending' = [pending EXCEPT ![n] = view \ {n}]
    /\ UNCHANGED <<state, ballot, waiting, votes, network, history>>

(* _send_heartbeats, one iteration: the term is the one at the time of the *)
(* send.  The message may be lost (injected fault, dead connection).       *)
SendHeartbeat(n, m) ==
    /\ pc[n] = "beating"
    /\ m \in pending[n]
    /\ pending' = [pending EXCEPT ![n] = @ \ {m}]
    /\ \/ /\ RoomInFlight
          /\ heartbeats' = heartbeats \cup
                 {[leader |-> n, to |-> m, term |-> currentTerm[n]]}
       \/ UNCHANGED heartbeats
    /\ UNCHANGED <<state, pc, ballot, waiting, votes, voteReqs, history>>

EndHeartbeats(n) ==
    /\ pc[n] = "beating"
    /\ pending[n] = {}
    /\ ThreadIdle(n)
    /\ UNCHANGED <<state, network, history>>

(***************************************************************************)
(* _should_start_election and the first critical section of                *)
(* _start_election.                                                        *)
(***************************************************************************)
StartElection(n) ==
    /\ pc[n] = "idle"
    /\ role[n] # "LEADER"
    /\ currentTerm[n] < MaxTerm
    /\ currentTerm' = [currentTerm EXCEPT ![n] = @ + 1]
    /\ role' = [role EXCEPT ![n] = "CANDIDATE"]
    /\ votedFor' = [votedFor EXCEPT ![n] = n]
    /\ ballot' = [ballot EXCEPT ![n] = currentTerm[n] + 1]
    /\ votes' = [votes EXCEPT ![n] = {n}]
    /\ pc' = [pc EXCEPT ![n] = "asking"]
    /\ \E view \in View(n) : pending' = [pending EXCEPT ![n] = view \ {n}]
    /\ cast' = cast \cup {<<n, currentTerm[n] + 1, n>>}
    /\ UNCHANGED <<leaderId, waiting, network, wins, restarts>>

(* _request_votes, one iteration: call the next peer, or fail to reach it. *)
AskPeer(n, m) ==
    /\ pc[n] = "asking"
    /\ waiting[n] = None
    /\ m \in pending[n]
    /\ pending' = [pending EXCEPT ![n] = @ \ {m}]
    /\ \/ /\ RoomInFlight
          /\ waiting' = [waiting EXCEPT ![n] = m]
          /\ voteReqs' = voteReqs \cup
                 {[from |-> n, to |-> m, term |-> ballot[n]]}
       \/ UNCHANGED <<waiting, voteReqs>>
    /\ UNCHANGED <<state, pc, ballot, votes, heartbeats, history>>

(* Mutant: a call without a timeout. *)
NoVoteTimeout(n) == waiting[n] # None /\ FALSE /\ UNCHANGED vars

(* The call times out: the socket is dropped, so a late response is never  *)
(* read.  The request may still be handled later.                          *)
VoteTimeout(n) ==
    /\ waiting[n] # None
    /\ waiting' = [waiting EXCEPT ![n] = None]
    /\ UNCHANGED <<state, pc, ballot, pending, votes, network, history>>

(***************************************************************************)
(* handle_vote_request, under the lock of the voter.                       *)
(***************************************************************************)
(* Mutant: voted_for is not consulted. *)
CanVoteAgain(r) == r.term >= currentTerm[r.to]

CanVote(r) ==
    \/ r.term > currentTerm[r.to]
    \/ /\ r.term = currentTerm[r.to]
       /\ votedFor[r.to] \in {None, r.from}

(* The response reaches the candidate if it still waits on this call. *)
VoteResponse(r, granted) ==
    \/ /\ waiting[r.from] = r.to
       /\ ballot[r.from] = r.term
       /\ waiting' = [waiting EXCEPT ![r.from] = None]
       /\ votes' = IF granted THEN [votes EXCEPT ![r.from] = @ \cup {r.to}]
                              ELSE votes
    \/ UNCHANGED <<waiting, votes>>

(* Mutant: the role is kept when a newer term arrives. *)
AdoptTermKeepsRole(r) ==
    /\ currentTerm' = [currentTerm EXCEPT ![r.to] =
           IF r.term > @ THEN r.term ELSE @]
    /\ UNCHANGED role

(* A newer term makes the voter a follower; leader_id is left alone. *)
AdoptTerm(r) ==
    IF r.term > currentTerm[r.to]
      THEN /\ currentTerm' = [currentTerm EXCEPT ![r.to] = r.term]
           /\ role' = [role EXCEPT ![r.to] = "FOLLOWER"]
      ELSE UNCHANGED <<currentTerm, role>>

HandleVoteRequest(r) ==
    /\ r \in voteReqs
    /\ voteReqs' = voteReqs \ {r}
    /\ AdoptTerm(r)
    /\ IF CanVote(r)
         THEN /\ votedFor' = [votedFor EXCEPT ![r.to] = r.from]
              /\ cast' = cast \cup {<<r.to, r.term, r.from>>}
         ELSE UNCHANGED <<votedFor, cast>>
    /\ VoteResponse(r, CanVote(r))
    /\ UNCHANGED <<leaderId, pc, ballot, pending, heartbeats, wins, restarts>>

(***************************************************************************)
(* The second critical section of _start_election.  The cluster size is    *)
(* read again, at the end of the election.                                 *)
(***************************************************************************)
RequiredMajority(view) == Cardinality(view) \div 2 + 1

StillCandidate(n) == role[n] = "CANDIDATE" /\ currentTerm[n] = ballot[n]

LastVoteIn(n) == pc[n] = "asking" /\ pending[n] = {} /\ waiting[n] = None

(* _become_leader *)
BecomeLeader(n) ==
    /\ LastVoteIn(n)
    /\ StillCandidate(n)
    /\ \E view \in View(n) :
         /\ Cardinality(votes[n]) >= RequiredMajority(view)
         /\ wins' = wins \cup {[node |-> n, term |-> ballot[n],
                                voters |-> votes[n], view |-> view]}
    /\ role' = [role EXCEPT ![n] = "LEADER"]
    /\ leaderId' = [leaderId EXCEPT ![n] = n]
    /\ ThreadIdle(n)
    /\ UNCHANGED <<currentTerm, votedFor, network, cast, restarts>>

LoseElection(n) ==
    /\ LastVoteIn(n)
    /\ \/ ~ StillCandidate(n)
       \/ \E view \in View(n) : Cardinality(votes[n]) < RequiredMajority(view)
    /\ ThreadIdle(n)
    /\ UNCHANGED <<state, network, history>>

(***************************************************************************)
(* receive_heartbeat, under the lock of the receiver.  A heartbeat of the  *)
(* receiver's own term is accepted whatever its role.                      *)
(***************************************************************************)
ReceiveHeartbeat(h) ==
    /\ h \in heartbeats
    /\ heartbeats' = heartbeats \ {h}
    /\ IF h.term < currentTerm[h.to]
         THEN UNCHANGED state
         ELSE /\ currentTerm' = [currentTerm EXCEPT ![h.to] = h.term]
              /\ votedFor' = [votedFor EXCEPT ![h.to] =
                     IF h.term > currentTerm[h.to] THEN None ELSE @]
              /\ role' = [role EXCEPT ![h.to] = "FOLLOWER"]
              /\ leaderId' = [leaderId EXCEPT ![h.to] = h.leader]
    /\ UNCHANGED <<thread, voteReqs, history>>

(* FAILOVER or an injected leader kill: step_down. *)
StepDown(n) ==
    /\ role[n] = "LEADER"
    /\ role' = [role EXCEPT ![n] = "FOLLOWER"]
    /\ leaderId' = [leaderId EXCEPT ![n] = None]
    /\ UNCHANGED <<currentTerm, votedFor, thread, network, history>>

(* The process of n dies and starts again: a fresh manager, and what was   *)
(* on its way to the old process is lost with its sockets.                 *)
Restart(n) ==
    /\ restarts < MaxRestarts
    /\ restarts' = restarts + 1
    /\ role' = [role EXCEPT ![n] = "FOLLOWER"]
    /\ currentTerm' = [currentTerm EXCEPT ![n] = 0]
    /\ votedFor' = [votedFor EXCEPT ![n] = None]
    /\ leaderId' = [leaderId EXCEPT ![n] = None]
    /\ ThreadIdle(n)
    /\ voteReqs' = {r \in voteReqs : r.to # n}
    /\ heartbeats' = {h \in heartbeats : h.to # n}
    /\ UNCHANGED <<cast, wins>>

ThreadStep(n) ==
    \/ EndHeartbeats(n)
    \/ VoteTimeout(n)
    \/ BecomeLeader(n)
    \/ LoseElection(n)
    \/ \E m \in Node : SendHeartbeat(n, m) \/ AskPeer(n, m)

Next ==
    \/ \E n \in Node :
         \/ BeginHeartbeats(n)
         \/ StartElection(n)
         \/ ThreadStep(n)
         \/ StepDown(n)
         \/ Restart(n)
    \/ \E r \in voteReqs : HandleVoteRequest(r)
    \/ \E h \in heartbeats : ReceiveHeartbeat(h)

Spec == Init /\ [][Next]_vars

(* The election thread keeps running: its loops are finite and its calls   *)
(* time out.  Nothing is assumed of the network or of the timers.          *)
FairSpec == Spec /\ \A n \in Node : WF_vars(ThreadStep(n))

(***************************************************************************)
(* Properties                                                              *)
(***************************************************************************)

(* Types, and: outside an election the thread waits for nobody and holds   *)
(* no votes (votes is a local variable of _request_votes).                 *)
TypeOK ==
    /\ role \in [Node -> Roles]
    /\ currentTerm \in [Node -> Terms]
    /\ votedFor \in [Node -> Node \cup {None}]
    /\ leaderId \in [Node -> Node \cup {None}]
    /\ pc \in [Node -> {"idle", "asking", "beating"}]
    /\ ballot \in [Node -> Terms]
    /\ pending \in [Node -> SUBSET Node]
    /\ waiting \in [Node -> Node \cup {None}]
    /\ votes \in [Node -> SUBSET Node]
    /\ voteReqs \subseteq VoteReq
    /\ heartbeats \subseteq Heartbeat
    /\ cast \subseteq Node \X Terms \X Node
    /\ wins \subseteq Win
    /\ restarts \in 0 .. MaxRestarts
    /\ \A n \in Node : pc[n] # "asking" => waiting[n] = None /\ votes[n] = {}

(* While no node has restarted, two elections of one term that were both   *)
(* decided on the full membership have the same winner: _start_election    *)
(* counts votes that handle_vote_request gives once per term, and two      *)
(* majorities of the whole cluster share a voter.                          *)
OneWinnerPerTerm ==
    restarts = 0 =>
        \A a, b \in wins :
            a.term = b.term /\ a.view = Node /\ b.view = Node
                => a.node = b.node

(* A node that believes it is LEADER won an election of the very term it   *)
(* is in: no message handler moves a leader into a term it did not win,    *)
(* whatever arrived while its own election was running.                    *)
LeaderWonItsTerm ==
    \A n \in Node : role[n] = "LEADER" =>
        \E w \in wins : w.node = n /\ w.term = currentTerm[n]

(* A vote is final within its term: handle_vote_request, _start_election   *)
(* and receive_heartbeat change voted_for only together with a higher      *)
(* term.  A restart forgets it.                                            *)
VoteIsFinal ==
    [][\A n \in Node :
         votedFor[n] # None /\ votedFor'[n] # votedFor[n]
            => currentTerm'[n] > currentTerm[n] \/ restarts' # restarts]_vars

(* Every election ends: whatever peers answer or do not answer, the thread *)
(* leaves _request_votes and decides.                                      *)
ElectionEnds == \A n \in Node : pc[n] = "asking" ~> pc[n] = "idle"
=============================================================================
