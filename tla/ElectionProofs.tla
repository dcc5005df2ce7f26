--------------------------- MODULE ElectionProofs ---------------------------
(***************************************************************************)
(* Proofs about Election, for every cluster, every set of views and every  *)
(* bound: type correctness, LeaderWonItsTerm, VoteIsFinal and              *)
(* OneWinnerPerTerm.                                                       *)
(***************************************************************************)
EXTENDS Election, FiniteSetTheorems, TLAPS

-----------------------------------------------------------------------------
(* Types *)

LEMMA ViewIsSet == \A n \in Node : \A v \in View(n) : v \subseteq Node
  BY ViewsAssumption DEF View

LEMMA TermsFacts ==
    /\ 0 \in Terms
    /\ \A t \in Terms : t \in Nat
    /\ \A t \in Terms : t < MaxTerm => t + 1 \in Terms
  BY MaxAssumption DEF Terms

(* Every step keeps the types: in particular no handler ever stores a term *)
(* or a node that is not one, and the election thread leaves an election   *)
(* with nothing pending.                                                   *)
LEMMA TypeStep == TypeOK /\ [Next]_vars => TypeOK'
<1> SUFFICES ASSUME TypeOK, [Next]_vars PROVE TypeOK'
  OBVIOUS
<1> USE TermsFacts, NoneAssumption
<1>1. ASSUME NEW n \in Node, BeginHeartbeats(n) PROVE TypeOK'
  <2>1. PICK view \in View(n) :
            /\ pc' = [pc EXCEPT ![n] = "beating"]
            /\ pending' = [pending EXCEPT ![n] = view \ {n}]
    BY <1>1 DEF BeginHeartbeats
  <2>2. view \subseteq Node
    BY ViewIsSet
  <2> QED
    BY <1>1, <2>1, <2>2
    DEF BeginHeartbeats, TypeOK, state, network, history
<1>2. ASSUME NEW n \in Node, NEW m \in Node, SendHeartbeat(n, m) PROVE TypeOK'
  <2>1. [leader |-> n, to |-> m, term |-> currentTerm[n]] \in Heartbeat
    BY DEF TypeOK, Heartbeat
  <2> QED
    BY <1>2, <2>1 DEF SendHeartbeat, TypeOK, state, history
<1>3. ASSUME NEW n \in Node, EndHeartbeats(n) PROVE TypeOK'
  BY <1>3 DEF EndHeartbeats, ThreadIdle, TypeOK, state, network, history
<1>4. ASSUME NEW n \in Node, StartElection(n) PROVE TypeOK'
  <2>1. PICK view \in View(n) :
            pending' = [pending EXCEPT ![n] = view \ {n}]
    BY <1>4 DEF StartElection
  <2>2. view \subseteq Node
    BY ViewIsSet
  <2>3. currentTerm[n] + 1 \in Terms
    BY <1>4 DEF StartElection, TypeOK
  <2>4. cast' \subseteq Node \X Terms \X Node
    BY <1>4, <2>3 DEF StartElection, TypeOK
  <2> QED
    BY <1>4, <2>1, <2>2, <2>3, <2>4
    DEF StartElection, TypeOK, network, Roles
<1>5. ASSUME NEW n \in Node, NEW m \in Node, AskPeer(n, m) PROVE TypeOK'
  <2>1. [from |-> n, to |-> m, term |-> ballot[n]] \in VoteReq
    BY DEF TypeOK, VoteReq
  <2> QED
    BY <1>5, <2>1 DEF AskPeer, TypeOK, state, history
<1>6. ASSUME NEW n \in Node, VoteTimeout(n) PROVE TypeOK'
  BY <1>6 DEF VoteTimeout, TypeOK, state, network, history
<1>7. ASSUME NEW n \in Node, BecomeLeader(n) PROVE TypeOK'
  <2>1. PICK view \in View(n) :
            wins' = wins \cup {[node |-> n, term |-> ballot[n],
                                voters |-> votes[n], view |-> view]}
    BY <1>7 DEF BecomeLeader
  <2>2. view \subseteq Node
    BY ViewIsSet
  <2>3. wins' \subseteq Win
    BY <2>1, <2>2 DEF TypeOK, Win
  <2> QED
    BY <1>7, <2>3 DEF BecomeLeader, ThreadIdle, TypeOK, network, Roles
<1>8. ASSUME NEW n \in Node, LoseElection(n) PROVE TypeOK'
  BY <1>8 DEF LoseElection, ThreadIdle, TypeOK, state, network, history
<1>9. ASSUME NEW n \in Node, StepDown(n) PROVE TypeOK'
  BY <1>9 DEF StepDown, TypeOK, thread, network, history, Roles
<1>10. ASSUME NEW n \in Node, Restart(n) PROVE TypeOK'
  <2>1. restarts' \in 0 .. MaxRestarts
    BY <1>10, MaxAssumption DEF Restart, TypeOK
  <2> QED
    BY <1>10, <2>1 DEF Restart, ThreadIdle, TypeOK, Roles
<1>11. ASSUME NEW r \in voteReqs, HandleVoteRequest(r) PROVE TypeOK'
  <2>1. r.from \in Node /\ r.to \in Node /\ r.term \in Terms
    BY DEF TypeOK, VoteReq
  <2>2. /\ currentTerm' \in [Node -> Terms]
        /\ role' \in [Node -> Roles]
    BY <1>11, <2>1 DEF HandleVoteRequest, AdoptTerm, TypeOK, Roles
  <2>3. cast' \subseteq Node \X Terms \X Node
    BY <1>11, <2>1 DEF HandleVoteRequest, TypeOK
  <2>4. /\ votedFor' \in [Node -> Node \cup {None}]
        /\ voteReqs' \subseteq VoteReq
    BY <1>11, <2>1 DEF HandleVoteRequest, TypeOK
  <2>5. /\ waiting' \in [Node -> Node \cup {None}]
        /\ votes' \in [Node -> SUBSET Node]
        /\ \A n \in Node : pc[n] # "asking" => waiting'[n] = None /\ votes'[n] = {}
    BY <1>11, <2>1 DEF HandleVoteRequest, VoteResponse, TypeOK
  <2> QED
    BY <1>11, <2>2, <2>3, <2>4, <2>5 DEF HandleVoteRequest, TypeOK
<1>12. ASSUME NEW h \in heartbeats, ReceiveHeartbeat(h) PROVE TypeOK'
  <2>1. h.leader \in Node /\ h.to \in Node /\ h.term \in Terms
    BY DEF TypeOK, Heartbeat
  <2> QED
    BY <1>12, <2>1
    DEF ReceiveHeartbeat, TypeOK, state, thread, history, Roles
<1>13. CASE UNCHANGED vars
  BY <1>13 DEF vars, state, thread, network, history, TypeOK
<1> QED
  BY <1>1, <1>2, <1>3, <1>4, <1>5, <1>6, <1>7, <1>8, <1>9, <1>10, <1>11,
     <1>12, <1>13 DEF Next, ThreadStep

LEMMA TypeInit == Init => TypeOK
  BY TermsFacts, MaxAssumption DEF Init, TypeOK, Roles

(* Type correctness of the election, for every value of the constants. *)
THEOREM TypeCorrect == Spec => []TypeOK
<1>1. Init => TypeOK
  BY TypeInit
<1>2. TypeOK /\ [Next]_vars => TypeOK'
  BY TypeStep
<1> QED
  BY <1>1, <1>2, PTL DEF Spec

-----------------------------------------------------------------------------
(* A leader is in a term it won *)

(* No step makes a leader of a node that did not win its term, nor moves a *)
(* leader to another term without taking its role away.                    *)
LEMMA LeaderStep ==
    TypeOK /\ LeaderWonItsTerm /\ [Next]_vars => LeaderWonItsTerm'
<1> SUFFICES ASSUME TypeOK, LeaderWonItsTerm, [Next]_vars,
                    NEW p \in Node, role'[p] = "LEADER"
             PROVE  \E w \in wins' : w.node = p /\ w.term = currentTerm'[p]
  BY DEF LeaderWonItsTerm
<1>1. ASSUME role[p] = "LEADER", currentTerm'[p] = currentTerm[p], wins \subseteq wins'
      PROVE  \E w \in wins' : w.node = p /\ w.term = currentTerm'[p]
  BY <1>1 DEF LeaderWonItsTerm
<1>2. ASSUME UNCHANGED <<role, currentTerm>>, wins \subseteq wins'
      PROVE  \E w \in wins' : w.node = p /\ w.term = currentTerm'[p]
  BY <1>1, <1>2
<1>3. ASSUME NEW n \in Node,
             BeginHeartbeats(n) \/ EndHeartbeats(n) \/ VoteTimeout(n) \/ LoseElection(n)
      PROVE  UNCHANGED <<role, currentTerm, wins>>
  BY <1>3 DEF BeginHeartbeats, EndHeartbeats, VoteTimeout, LoseElection, state, history
<1>4. ASSUME NEW n \in Node, NEW m \in Node, SendHeartbeat(n, m) \/ AskPeer(n, m)
      PROVE  UNCHANGED <<role, currentTerm, wins>>
  BY <1>4 DEF SendHeartbeat, AskPeer, state, history
<1>5. ASSUME NEW n \in Node, StartElection(n) \/ StepDown(n) \/ Restart(n)
      PROVE  /\ role[p] = "LEADER" /\ currentTerm'[p] = currentTerm[p]
             /\ wins' = wins
  BY <1>5 DEF StartElection, StepDown, Restart, TypeOK, Roles, history
<1>6. ASSUME NEW n \in Node, BecomeLeader(n)
      PROVE  \E w \in wins' : w.node = p /\ w.term = currentTerm'[p]
  <2>1. PICK view \in View(n) :
            wins' = wins \cup {[node |-> n, term |-> ballot[n],
                                voters |-> votes[n], view |-> view]}
    BY <1>6 DEF BecomeLeader
  <2>2. currentTerm' = currentTerm /\ currentTerm[n] = ballot[n]
    BY <1>6 DEF BecomeLeader, StillCandidate
  <2>3. CASE p = n
    <3> DEFINE w == [node |-> n, term |-> ballot[n],
                     voters |-> votes[n], view |-> view]
    <3>1. w \in wins'
      BY <2>1
    <3>2. w.node = p /\ w.term = currentTerm'[p]
      BY <2>2, <2>3
    <3> QED
      BY <3>1, <3>2
  <2>4. CASE p # n
    BY <1>1, <1>6, <2>1, <2>2, <2>4 DEF BecomeLeader, TypeOK
  <2> QED
    BY <2>3, <2>4
<1>7. ASSUME NEW r \in voteReqs, HandleVoteRequest(r)
      PROVE  /\ role[p] = "LEADER" /\ currentTerm'[p] = currentTerm[p]
             /\ wins' = wins
  <2>1. r.to \in Node
    BY DEF TypeOK, VoteReq
  <2> QED
    BY <1>7, <2>1 DEF HandleVoteRequest, AdoptTerm, TypeOK
<1>8. ASSUME NEW h \in heartbeats, ReceiveHeartbeat(h)
      PROVE  /\ role[p] = "LEADER" /\ currentTerm'[p] = currentTerm[p]
             /\ wins' = wins
  <2>1. h.to \in Node
    BY DEF TypeOK, Heartbeat
  <2> QED
    BY <1>8, <2>1 DEF ReceiveHeartbeat, TypeOK, state, history
<1>9. CASE UNCHANGED vars
  BY <1>2, <1>9 DEF vars, state, history
<1> QED
  BY <1>1, <1>2, <1>3, <1>4, <1>5, <1>6, <1>7, <1>8, <1>9 DEF Next, ThreadStep

(* A node that acts as leader won an election of its current term, in any  *)
(* cluster, with any views, losses, delays and restarts.                   *)
THEOREM LeaderSafety == Spec => []LeaderWonItsTerm
<1>1. Init => LeaderWonItsTerm
  BY DEF Init, LeaderWonItsTerm
<1>2. TypeOK /\ LeaderWonItsTerm /\ [Next]_vars => LeaderWonItsTerm'
  BY LeaderStep
<1> QED
  BY <1>1, <1>2, TypeCorrect, PTL DEF Spec

-----------------------------------------------------------------------------
(* Votes *)

(* Only a higher term or a restart ever changes a vote that was given. *)
LEMMA VoteStep ==
    ASSUME TypeOK, [Next]_vars, NEW p \in Node,
           votedFor[p] # None, votedFor'[p] # votedFor[p]
    PROVE  currentTerm'[p] > currentTerm[p] \/ restarts' # restarts
<1> USE TermsFacts, MaxAssumption
<1>1. ASSUME NEW n \in Node,
             \/ BeginHeartbeats(n) \/ EndHeartbeats(n) \/ VoteTimeout(n)
             \/ LoseElection(n) \/ BecomeLeader(n) \/ StepDown(n)
      PROVE  FALSE
  BY <1>1 DEF BeginHeartbeats, EndHeartbeats, VoteTimeout, LoseElection,
              BecomeLeader, StepDown, state
<1>2. ASSUME NEW n \in Node, NEW m \in Node, SendHeartbeat(n, m) \/ AskPeer(n, m)
      PROVE  FALSE
  BY <1>2 DEF SendHeartbeat, AskPeer, state
<1>3. ASSUME NEW n \in Node, StartElection(n)
      PROVE  currentTerm'[p] > currentTerm[p]
  <2>1. n = p
    BY <1>3 DEF StartElection, TypeOK
  <2>2. currentTerm[p] \in Nat /\ currentTerm'[p] = currentTerm[p] + 1
    BY <1>3, <2>1 DEF StartElection, TypeOK
  <2> QED
    BY <2>2
<1>4. ASSUME NEW n \in Node, Restart(n)
      PROVE  restarts' # restarts
  BY <1>4 DEF Restart, TypeOK
<1>5. ASSUME NEW r \in voteReqs, HandleVoteRequest(r)
      PROVE  currentTerm'[p] > currentTerm[p]
  <2>1. r.to \in Node /\ r.term \in Terms
    BY DEF TypeOK, VoteReq
  <2> QED
    BY <1>5, <2>1 DEF HandleVoteRequest, AdoptTerm, CanVote, TypeOK
<1>6. ASSUME NEW h \in heartbeats, ReceiveHeartbeat(h)
      PROVE  currentTerm'[p] > currentTerm[p]
  <2>1. h.to \in Node /\ h.term \in Terms
    BY DEF TypeOK, Heartbeat
  <2> QED
    BY <1>6, <2>1 DEF ReceiveHeartbeat, TypeOK, state
<1>7. CASE UNCHANGED vars
  BY <1>7 DEF vars, state
<1> QED
  BY <1>1, <1>2, <1>3, <1>4, <1>5, <1>6, <1>7 DEF Next, ThreadStep

(* A vote is final within its term, as long as the voter does not restart. *)
THEOREM VoteFinality == Spec => VoteIsFinal
<1>1. TypeOK /\ [Next]_vars =>
        [\A n \in Node :
           votedFor[n] # None /\ votedFor'[n] # votedFor[n]
              => currentTerm'[n] > currentTerm[n] \/ restarts' # restarts]_vars
  BY VoteStep
<1> QED
  BY <1>1, TypeCorrect, PTL DEF Spec, VoteIsFinal

-----------------------------------------------------------------------------
(* One winner per term *)

(* Every vote a candidate holds was really cast for it, in its ballot. *)
VotesOnRecord ==
    \A n \in Node : \A v \in votes[n] : <<v, ballot[n], n>> \in cast

(* Every win was decided by a majority of its view, with votes on record. *)
WinsOnRecord ==
    \A w \in wins :
        /\ Cardinality(w.voters) >= RequiredMajority(w.view)
        /\ \A v \in w.voters : <<v, w.term, w.node>> \in cast

(* A voter remembers the vote of its current term, and never votes ahead   *)
(* of its term.                                                            *)
VotesRemembered ==
    \A v, c \in Node : \A t \in Terms : <<v, t, c>> \in cast =>
        /\ t <= currentTerm[v]
        /\ t = currentTerm[v] => votedFor[v] = c

(* No voter votes for two candidates in one term. *)
VotesUnique ==
    \A v, c, d \in Node : \A t \in Terms :
        <<v, t, c>> \in cast /\ <<v, t, d>> \in cast => c = d

VoteInv ==
    /\ VotesOnRecord
    /\ WinsOnRecord
    /\ restarts = 0 => VotesRemembered /\ VotesUnique

(* Steps that only extend the record keep what is on it. *)
LEMMA RecordStep ==
    TypeOK /\ VotesOnRecord /\ WinsOnRecord /\ [Next]_vars
        => VotesOnRecord' /\ WinsOnRecord'
<1> SUFFICES ASSUME TypeOK, VotesOnRecord, WinsOnRecord, [Next]_vars
             PROVE  VotesOnRecord' /\ WinsOnRecord'
  OBVIOUS
<1>1. ASSUME wins' = wins, cast \subseteq cast' PROVE WinsOnRecord'
  BY <1>1 DEF WinsOnRecord
<1>2. ASSUME UNCHANGED <<votes, ballot>>, cast \subseteq cast' PROVE VotesOnRecord'
  BY <1>2 DEF VotesOnRecord
<1>3. ASSUME NEW n \in Node, ThreadIdle(n), cast' = cast PROVE VotesOnRecord'
  BY <1>3 DEF ThreadIdle, VotesOnRecord, TypeOK
<1>4. ASSUME NEW n \in Node, BeginHeartbeats(n) \/ VoteTimeout(n) \/ StepDown(n)
      PROVE  UNCHANGED <<votes, ballot, wins, cast>>
  BY <1>4 DEF BeginHeartbeats, VoteTimeout, StepDown, thread, history
<1>5. ASSUME NEW n \in Node, EndHeartbeats(n) \/ LoseElection(n) \/ Restart(n)
      PROVE  ThreadIdle(n) /\ UNCHANGED <<wins, cast>>
  BY <1>5 DEF EndHeartbeats, LoseElection, Restart, history
<1>6. ASSUME NEW n \in Node, NEW m \in Node, SendHeartbeat(n, m) \/ AskPeer(n, m)
      PROVE  UNCHANGED <<votes, ballot, wins, cast>>
  BY <1>6 DEF SendHeartbeat, AskPeer, history
<1>7. ASSUME NEW n \in Node, StartElection(n) PROVE VotesOnRecord' /\ WinsOnRecord'
  <2>1. cast' = cast \cup {<<n, currentTerm[n] + 1, n>>} /\ wins' = wins
    BY <1>7 DEF StartElection
  <2>2. \A q \in Node : q # n => votes'[q] = votes[q] /\ ballot'[q] = ballot[q]
    BY <1>7 DEF StartElection, TypeOK
  <2>3. votes'[n] = {n} /\ ballot'[n] = currentTerm[n] + 1
    BY <1>7 DEF StartElection, TypeOK
  <2> QED
    BY <1>1, <2>1, <2>2, <2>3 DEF VotesOnRecord
<1>8. ASSUME NEW n \in Node, BecomeLeader(n) PROVE VotesOnRecord' /\ WinsOnRecord'
  <2>1. PICK view \in View(n) :
            /\ Cardinality(votes[n]) >= RequiredMajority(view)
            /\ wins' = wins \cup {[node |-> n, term |-> ballot[n],
                                   voters |-> votes[n], view |-> view]}
    BY <1>8 DEF BecomeLeader
  <2>2. cast' = cast /\ ThreadIdle(n)
    BY <1>8 DEF BecomeLeader
  <2>3. WinsOnRecord'
    BY <2>1, <2>2 DEF WinsOnRecord, VotesOnRecord
  <2> QED
    BY <1>3, <2>2, <2>3
<1>9. ASSUME NEW r \in voteReqs, HandleVoteRequest(r)
      PROVE  VotesOnRecord' /\ WinsOnRecord'
  <2>1. r.from \in Node /\ r.to \in Node /\ r.term \in Terms
    BY DEF TypeOK, VoteReq
  <2>2. wins' = wins /\ ballot' = ballot /\ cast \subseteq cast'
    BY <1>9 DEF HandleVoteRequest
  <2>3. CASE UNCHANGED votes
    BY <1>1, <1>2, <2>2, <2>3
  <2>4. CASE votes' # votes
    <3>1. /\ CanVote(r)
          /\ ballot[r.from] = r.term
          /\ votes' = [votes EXCEPT ![r.from] = @ \cup {r.to}]
      BY <1>9, <2>4 DEF HandleVoteRequest, VoteResponse
    <3>2. <<r.to, r.term, r.from>> \in cast'
      BY <1>9, <3>1 DEF HandleVoteRequest
    <3>3. VotesOnRecord'
      BY <2>1, <2>2, <3>1, <3>2 DEF VotesOnRecord, TypeOK
    <3> QED
      BY <1>1, <2>2, <3>3
  <2> QED
    BY <2>3, <2>4
<1>10. ASSUME NEW h \in heartbeats, ReceiveHeartbeat(h)
       PROVE  UNCHANGED <<votes, ballot, wins, cast>>
  BY <1>10 DEF ReceiveHeartbeat, thread, history
<1>11. CASE UNCHANGED vars
  BY <1>1, <1>2, <1>11 DEF vars, thread, history
<1> QED
  BY <1>1, <1>2, <1>3, <1>4, <1>5, <1>6, <1>7, <1>8, <1>9, <1>10, <1>11
  DEF Next, ThreadStep

(* A vote is cast in the voter's current term, when the voter has not yet  *)
(* voted for anyone else in it, and is remembered for that term.           *)
LEMMA UniqueStep ==
    ASSUME TypeOK, restarts' = 0, [Next]_vars, VotesRemembered, VotesUnique
    PROVE  VotesRemembered' /\ VotesUnique'
<1> USE TermsFacts, MaxAssumption
<1>1. ASSUME UNCHANGED <<currentTerm, votedFor, cast>>
      PROVE  VotesRemembered' /\ VotesUnique'
  BY <1>1 DEF VotesRemembered, VotesUnique
<1>2. ASSUME NEW n \in Node,
             \/ BeginHeartbeats(n) \/ EndHeartbeats(n) \/ VoteTimeout(n)
             \/ LoseElection(n) \/ BecomeLeader(n) \/ StepDown(n)
      PROVE  UNCHANGED <<currentTerm, votedFor, cast>>
  BY <1>2 DEF BeginHeartbeats, EndHeartbeats, VoteTimeout, LoseElection,
              BecomeLeader, StepDown, state, history
<1>3. ASSUME NEW n \in Node, NEW m \in Node, SendHeartbeat(n, m) \/ AskPeer(n, m)
      PROVE  UNCHANGED <<currentTerm, votedFor, cast>>
  BY <1>3 DEF SendHeartbeat, AskPeer, state, history
<1>4. ASSUME NEW n \in Node, StartElection(n)
      PROVE  VotesRemembered' /\ VotesUnique'
  <2>1. cast' = cast \cup {<<n, currentTerm[n] + 1, n>>}
    BY <1>4 DEF StartElection
  <2>2. /\ currentTerm'[n] = currentTerm[n] + 1 /\ votedFor'[n] = n
        /\ \A q \in Node : q # n => /\ currentTerm'[q] = currentTerm[q]
                                    /\ votedFor'[q] = votedFor[q]
    BY <1>4 DEF StartElection, TypeOK
  <2>3. \A q \in Node : currentTerm[q] \in Nat
    BY DEF TypeOK
  <2>4. VotesRemembered'
    BY <2>1, <2>2, <2>3 DEF VotesRemembered
  <2>5. VotesUnique'
    BY <2>1, <2>3 DEF VotesRemembered, VotesUnique
  <2> QED
    BY <2>4, <2>5
<1>5. ASSUME NEW n \in Node, Restart(n) PROVE FALSE
  BY <1>5 DEF Restart, TypeOK
<1>6. ASSUME NEW r \in voteReqs, HandleVoteRequest(r)
      PROVE  VotesRemembered' /\ VotesUnique'
  <2>1. r.from \in Node /\ r.to \in Node /\ r.term \in Terms
    BY DEF TypeOK, VoteReq
  <2>2. \A q \in Node : currentTerm[q] \in Nat
    BY DEF TypeOK
  <2>3. CASE ~ CanVote(r)
    <3>1. UNCHANGED <<currentTerm, votedFor, cast>>
      BY <1>6, <2>3 DEF HandleVoteRequest, AdoptTerm, CanVote
    <3> QED
      BY <1>1, <3>1
  <2>4. CASE CanVote(r)
    <3>1. cast' = cast \cup {<<r.to, r.term, r.from>>}
      BY <1>6, <2>4 DEF HandleVoteRequest
    <3>2. /\ currentTerm'[r.to] = r.term /\ votedFor'[r.to] = r.from
          /\ \A q \in Node : q # r.to => /\ currentTerm'[q] = currentTerm[q]
                                         /\ votedFor'[q] = votedFor[q]
      BY <1>6, <2>1, <2>4 DEF HandleVoteRequest, AdoptTerm, CanVote, TypeOK
    <3>3. \/ r.term > currentTerm[r.to]
          \/ r.term = currentTerm[r.to] /\ votedFor[r.to] \in {None, r.from}
      BY <2>4 DEF CanVote
    <3>4. \A c \in Node : <<r.to, r.term, c>> \in cast => c = r.from
      BY <2>1, <2>2, <3>3, NoneAssumption DEF VotesRemembered
    <3>5. VotesUnique'
      BY <2>1, <3>1, <3>4 DEF VotesUnique
    <3>6. VotesRemembered'
      <4> SUFFICES ASSUME NEW v \in Node, NEW c \in Node, NEW t \in Terms,
                          <<v, t, c>> \in cast'
                   PROVE  t <= currentTerm'[v] /\ (t = currentTerm'[v] => votedFor'[v] = c)
        BY DEF VotesRemembered
      <4>1. CASE <<v, t, c>> = <<r.to, r.term, r.from>>
        BY <2>1, <3>2, <4>1
      <4>2. CASE <<v, t, c>> \in cast /\ v # r.to
        BY <3>2, <4>2 DEF VotesRemembered
      <4>3. CASE <<v, t, c>> \in cast /\ v = r.to
        <5>1. t <= currentTerm[r.to]
          BY <4>3 DEF VotesRemembered
        <5>2. t <= r.term
          BY <2>1, <2>2, <3>3, <5>1
        <5> QED
          BY <2>1, <3>2, <3>4, <4>3, <5>2
      <4> QED
        BY <3>1, <4>1, <4>2, <4>3
    <3> QED
      BY <3>5, <3>6
  <2> QED
    BY <2>3, <2>4
<1>7. ASSUME NEW h \in heartbeats, ReceiveHeartbeat(h)
      PROVE  VotesRemembered' /\ VotesUnique'
  <2>1. h.to \in Node /\ h.term \in Terms
    BY DEF TypeOK, Heartbeat
  <2>2. \A q \in Node : currentTerm[q] \in Nat
    BY DEF TypeOK
  <2>3. cast' = cast
    BY <1>7 DEF ReceiveHeartbeat, history
  <2>4. VotesUnique'
    BY <2>3 DEF VotesUnique
  <2>5. \A q \in Node : \/ /\ currentTerm'[q] = currentTerm[q]
                           /\ votedFor'[q] = votedFor[q]
                        \/ currentTerm'[q] > currentTerm[q]
    BY <1>7, <2>1, <2>2 DEF ReceiveHeartbeat, state, TypeOK
  <2>6. \A q \in Node : currentTerm'[q] \in Nat
    BY TypeStep DEF TypeOK
  <2>7. VotesRemembered'
    BY <2>2, <2>3, <2>5, <2>6 DEF VotesRemembered
  <2> QED
    BY <2>4, <2>7
<1>8. CASE UNCHANGED vars
  BY <1>1, <1>8 DEF vars, state, history
<1> QED
  BY <1>1, <1>2, <1>3, <1>4, <1>5, <1>6, <1>7, <1>8 DEF Next, ThreadStep

LEMMA VoteInvStep == TypeOK /\ VoteInv /\ [Next]_vars => VoteInv'
<1> SUFFICES ASSUME TypeOK, VoteInv, [Next]_vars PROVE VoteInv'
  OBVIOUS
<1>1. VotesOnRecord' /\ WinsOnRecord'
  BY RecordStep DEF VoteInv
<1>2. ASSUME restarts' = 0 PROVE restarts = 0
  <2>1. \A n \in Node : ~ Restart(n)
    BY <1>2, MaxAssumption DEF Restart, TypeOK
  <2> QED
    BY <1>2, <2>1
    DEF Next, ThreadStep, BeginHeartbeats, SendHeartbeat, EndHeartbeats,
        StartElection, AskPeer, VoteTimeout, BecomeLeader, LoseElection,
        HandleVoteRequest, ReceiveHeartbeat, StepDown, history, vars
<1>3. ASSUME restarts' = 0 PROVE VotesRemembered' /\ VotesUnique'
  BY <1>2, <1>3, UniqueStep DEF VoteInv
<1> QED
  BY <1>1, <1>3 DEF VoteInv

(* Two majorities of the whole cluster share a voter. *)
LEMMA FullMajoritiesMeet ==
    ASSUME NEW S \in SUBSET Node, NEW T \in SUBSET Node,
           Cardinality(S) >= RequiredMajority(Node),
           Cardinality(T) >= RequiredMajority(Node)
    PROVE  S \cap T # {}
<1>1. /\ Cardinality(Node) \in Nat
      /\ Cardinality(S) \in Nat
      /\ Cardinality(T) \in Nat
  BY NodeAssumption, FS_CardinalityType, FS_Subset
<1>2. \A k \in Nat : 2 * (k \div 2 + 1) > k
  OBVIOUS
<1>3. Cardinality(S) + Cardinality(T) > Cardinality(Node)
  BY <1>1, <1>2 DEF RequiredMajority
<1> QED
  BY <1>3, NodeAssumption, FS_MajoritiesIntersect

LEMMA VoteInvSafe == TypeOK /\ VoteInv => OneWinnerPerTerm
<1> SUFFICES ASSUME TypeOK, VoteInv, restarts = 0,
                    NEW a \in wins, NEW b \in wins,
                    a.term = b.term, a.view = Node, b.view = Node
             PROVE  a.node = b.node
  BY DEF OneWinnerPerTerm
<1>1. a \in Win /\ b \in Win
  BY DEF TypeOK
<1>2. /\ Cardinality(a.voters) >= RequiredMajority(Node)
      /\ Cardinality(b.voters) >= RequiredMajority(Node)
  BY DEF VoteInv, WinsOnRecord
<1>3. PICK v \in Node : v \in a.voters /\ v \in b.voters
  BY <1>1, <1>2, FullMajoritiesMeet DEF Win
<1>4. <<v, a.term, a.node>> \in cast /\ <<v, a.term, b.node>> \in cast
  BY <1>3 DEF VoteInv, WinsOnRecord
<1> QED
  BY <1>1, <1>4 DEF VoteInv, VotesUnique, Win

(* In a cluster whose nodes have not restarted, at most one node ever wins *)
(* a given term by a majority of the full membership.                      *)
THEOREM ElectionSafety == Spec => []OneWinnerPerTerm
<1>1. Init => VoteInv
  BY DEF Init, VoteInv, VotesOnRecord, WinsOnRecord, VotesRemembered, VotesUnique
<1>2. TypeOK /\ VoteInv /\ [Next]_vars => VoteInv'
  BY VoteInvStep
<1>3. TypeOK /\ VoteInv => OneWinnerPerTerm
  BY VoteInvSafe
<1> QED
  BY <1>1, <1>2, <1>3, TypeCorrect, PTL DEF Spec
=============================================================================
