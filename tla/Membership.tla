----------------------------- MODULE Membership -----------------------------
(***************************************************************************)
(* Gossip membership: cluster/membership.py, the JOIN and GOSSIP messages  *)
(* of cluster/coordinator.py and the pooled connections of                 *)
(* network/client.py that carry the gossip.                                *)
(*                                                                         *)
(* Timestamps are kept as ages: a record of last_heartbeat h is one of age *)
(* now - h, so h1 > h2 is age1 < age2, and ages grow with Tick.  Ages stop *)
(* at OldAge, which is past every timeout.  The incarnation is left out:   *)
(* nothing calls increment_incarnation, so it is 0 everywhere and never    *)
(* the newer one.  A tick is one gossip interval; Timely says that every   *)
(* node gossips once in a tick and what it sends is handled within it.     *)
(***************************************************************************)
EXTENDS Integers, FiniteSets

CONSTANTS
    Node, None,
    Seed,            \* Seed[n]: the peer n joins through, or None
    FailureTimeout,  \* failure_timeout, in ticks
    DeadTimeout,     \* dead_timeout, in ticks
    Partitions,      \* sets of pairs of nodes that may be cut
    Timely,          \* messages and rounds take less than a tick
    MayRestart,      \* whether a crashed node starts again
    MaxCrashes, MaxCuts     \* bounds

ASSUME MembershipAssumption ==
    /\ IsFiniteSet(Node) /\ None \notin Node
    /\ Seed \in [Node -> Node \cup {None}]
    /\ FailureTimeout \in Nat /\ DeadTimeout \in Nat
    /\ FailureTimeout <= DeadTimeout
    /\ Partitions \subseteq SUBSET SUBSET Node
    /\ Timely \in BOOLEAN /\ MayRestart \in BOOLEAN
    /\ MaxCrashes \in Nat /\ MaxCuts \in Nat

VARIABLES
    up,        \* nodes whose process runs
    members,   \* members[n][m]: the record of m in _members of n
    conn,      \* conn[n][m]: pooled connection of n's gossip thread to m
    net,       \* gossip messages in flight
    cut,       \* pairs of nodes that cannot talk
    joined,    \* joined[n]: the seed that accepted n's JOIN since it started
    gossiped,  \* nodes whose round of this tick is done
    heard,     \* history: heard[n][m]: ticks since n handled a gossip of m
    crashes, cuts

vars == <<up, members, conn, net, cut, joined, gossiped, heard, crashes, cuts>>

OldAge == DeadTimeout + 1
Age == 0 .. OldAge
State == {"ALIVE", "SUSPECT", "DEAD"}
Unknown == [state |-> "NONE", age |-> OldAge]
Rec == [state : State, age : Age] \cup {Unknown}
Self == [state |-> "ALIVE", age |-> 0]
View == [Node -> Rec]

OnlySelf(n) == [m \in Node |-> IF m = n THEN Self ELSE Unknown]
Connected(n, m) == {n, m} \notin cut
Older(a) == IF a < OldAge THEN a + 1 ELSE OldAge

Init ==
    /\ up = Node
    /\ members = [n \in Node |-> OnlySelf(n)]
    /\ conn = [n \in Node |-> [m \in Node |-> "none"]]
    /\ net = {} /\ cut = {}
    /\ joined = [n \in Node |-> None]
    /\ gossiped = {}
    /\ heard = [n \in Node |-> [m \in Node |-> OldAge]]
    /\ crashes = 0 /\ cuts = 0

-----------------------------------------------------------------------------
(* Joining. *)

(* add_node: a node that is known stays as it is, whatever its state. *)
AddNode(v, n) == IF v[n] = Unknown THEN [v EXCEPT ![n] = Self] ELSE v

(* join_cluster of main.py: the seed adds the node.  The answer carries    *)
(* the members under "data", join_cluster looks for them beside it, so the *)
(* new node learns of nobody.                                              *)
Join(n) ==
    LET s == Seed[n] IN
    /\ n \in up /\ s \in up \ {n} /\ joined[n] = None /\ Connected(n, s)
    /\ members' = [members EXCEPT ![s] = AddNode(members[s], n)]
    /\ joined' = [joined EXCEPT ![n] = s]
    /\ UNCHANGED <<up, conn, net, cut, gossiped, heard, crashes, cuts>>

-----------------------------------------------------------------------------
(* The gossip round. *)

(* Mutant: only an ALIVE node is checked. *)
CheckedSuspectOnly(r) ==
    IF r.state = "ALIVE" /\ r.age > FailureTimeout
      THEN [r EXCEPT !.state = "SUSPECT"]
      ELSE r

(* _check_node_health on the record of another node. *)
Checked(r) ==
    CASE r.state = "ALIVE" /\ r.age > FailureTimeout ->
              [r EXCEPT !.state = "SUSPECT"]
      [] r.state = "SUSPECT" /\ r.age > DeadTimeout ->
              [r EXCEPT !.state = "DEAD"]
      [] OTHER -> r

(* Mutant: the result of connect is not looked at. *)
AfterSendBlind(n, m) == IF conn[n][m] = "none" THEN "open" ELSE conn[n][m]

(* get_connection and send_message_no_response: a connection that was open *)
(* is used again, and one the peer has broken is never replaced because    *)
(* send_message_no_response leaves _connected true.                        *)
AfterSend(n, m) ==
    IF conn[n][m] = "none" /\ m \in up THEN "open" ELSE conn[n][m]

(* random.sample: three of the peers that are known and not DEAD, or all   *)
(* of them.  _send_gossip then skips a peer that is cut off.               *)
Samples(n, view) ==
    LET peers == {m \in Node \ {n} : view[m] # Unknown /\ view[m].state # "DEAD"}
    IN  {targets \in SUBSET peers :
            Cardinality(targets) = IF Cardinality(peers) < 3 THEN Cardinality(peers) ELSE 3}

(* One turn of _gossip_loop: _check_node_health, then the gossip. *)
GossipRound(n) ==
    LET view == [m \in Node |-> IF m = n THEN Self ELSE Checked(members[n][m])] IN
    \E targets \in Samples(n, view) :
        LET asked == {m \in targets : Connected(n, m)}
            sent == {m \in asked : AfterSend(n, m) = "open" /\ m \in up}
        IN  /\ n \in up
            /\ Timely => n \notin gossiped
            /\ \A msg \in net : msg.from # n
            /\ members' = [members EXCEPT ![n] = view]
            /\ conn' = [conn EXCEPT ![n] = [m \in Node |->
                           IF m \in asked THEN AfterSend(n, m) ELSE conn[n][m]]]
            /\ net' = net \cup {[from |-> n, to |-> m, view |-> view] : m \in sent}
            /\ gossiped' = gossiped \cup {n}
            /\ UNCHANGED <<up, cut, joined, heard, crashes, cuts>>

-----------------------------------------------------------------------------
(* Receiving gossip. *)

(* Mutant: a record is replaced whichever heartbeat is the newer. *)
MergeAny(mine, theirs) == IF theirs = Unknown THEN mine ELSE theirs

(* Mutant: a node that is not known is not added. *)
MergeKnown(mine, theirs) ==
    IF theirs.age < mine.age /\ mine # Unknown THEN theirs ELSE mine

(* handle_gossip on one record that is not the receiver's own. *)
Merge(mine, theirs) ==
    IF mine = Unknown \/ theirs.age < mine.age THEN theirs ELSE mine

(* update_heartbeat of the sender: a DEAD one stays DEAD. *)
Heartbeat(r) ==
    IF r = Unknown THEN r
    ELSE [state |-> IF r.state = "SUSPECT" THEN "ALIVE" ELSE r.state,
          age |-> 0]

(* The GOSSIP branch of handle_cluster_message.  A message between nodes   *)
(* that are cut, or to a node that is down, is dropped.                    *)
HandleGossip(msg) ==
    LET n == msg.to
        merged == [m \in Node |-> IF m = n THEN members[n][m]
                                  ELSE Merge(members[n][m], msg.view[m])]
    IN  /\ msg \in net
        /\ net' = net \ {msg}
        /\ IF n \in up /\ Connected(n, msg.from)
             THEN /\ members' = [members EXCEPT ![n] =
                        [merged EXCEPT ![msg.from] = Heartbeat(@)]]
                  /\ heard' = [heard EXCEPT ![n][msg.from] = 0]
             ELSE UNCHANGED <<members, heard>>
        /\ UNCHANGED <<up, conn, cut, joined, gossiped, crashes, cuts>>

-----------------------------------------------------------------------------
(* The environment: time, crashes, restarts and partitions. *)

Tick ==
    /\ Timely => up \subseteq gossiped /\ net = {}
    /\ members' = [n \in Node |-> [m \in Node |->
          IF m = n THEN members[n][m]
          ELSE [members[n][m] EXCEPT !.age = Older(@)]]]
    /\ net' = {[msg EXCEPT !.view = [m \in Node |->
                   [msg.view[m] EXCEPT !.age = Older(@)]]] : msg \in net}
    /\ heard' = [n \in Node |-> [m \in Node |-> Older(heard[n][m])]]
    /\ gossiped' = {}
    /\ UNCHANGED <<up, conn, cut, joined, crashes, cuts>>

(* A crash breaks the connections of the others to the node. *)
Crash(n) ==
    /\ n \in up /\ crashes < MaxCrashes
    /\ crashes' = crashes + 1
    /\ up' = up \ {n}
    /\ members' = [members EXCEPT ![n] = OnlySelf(n)]
    /\ conn' = [m \in Node |-> [p \in Node |->
          IF m = n THEN "none"
          ELSE IF p = n /\ conn[m][p] = "open" THEN "broken" ELSE conn[m][p]]]
    /\ joined' = [joined EXCEPT ![n] = None]
    /\ heard' = [heard EXCEPT ![n] = [m \in Node |-> OldAge]]
    /\ UNCHANGED <<net, cut, gossiped, cuts>>

(* A new process with an empty MembershipManager and ConnectionPool. *)
Restart(n) ==
    /\ MayRestart /\ n \notin up
    /\ up' = up \cup {n}
    /\ UNCHANGED <<members, conn, net, cut, joined, gossiped, heard, crashes,
                   cuts>>

(* The network is cut (a PARTITION fault), and heals. *)
Partition(p) ==
    /\ cut = {} /\ cuts < MaxCuts
    /\ cut' = p /\ cuts' = cuts + 1
    /\ UNCHANGED <<up, members, conn, net, joined, gossiped, heard, crashes>>

Heal ==
    /\ cut # {}
    /\ cut' = {}
    /\ UNCHANGED <<up, members, conn, net, joined, gossiped, heard, crashes,
                   cuts>>

Receive == \E msg \in net : HandleGossip(msg)

Next ==
    \/ \E n \in Node : Join(n) \/ GossipRound(n) \/ Crash(n) \/ Restart(n)
    \/ Receive \/ Tick \/ Heal
    \/ \E p \in Partitions : Partition(p)

Spec == Init /\ [][Next]_vars

(* The gossip threads and the connections of running nodes make progress,  *)
(* a started node joins, time passes, a partition heals.                   *)
Fairness ==
    /\ \A n \in Node : WF_vars(GossipRound(n)) /\ WF_vars(Join(n))
    /\ WF_vars(Receive) /\ WF_vars(Tick) /\ WF_vars(Heal)
    /\ \A n \in Node : WF_vars(Restart(n))

FairSpec == Spec /\ Fairness

-----------------------------------------------------------------------------
(* Type invariant: the members of each node, the connections of its gossip *)
(* thread and the messages have the shape membership.py and client.py give *)
(* them, a node is ALIVE to itself, and a connection that counts as open   *)
(* leads to a process that runs.                                           *)
TypeOK ==
    /\ up \subseteq Node
    /\ members \in [Node -> View]
    /\ \A n \in Node : members[n][n] = Self
    /\ conn \in [Node -> [Node -> {"none", "open", "broken"}]]
    /\ \A n, m \in Node : conn[n][m] = "open" => m \in up
    /\ net \subseteq [from : Node, to : Node, view : View]
    /\ cut \subseteq SUBSET Node
    /\ joined \in [Node -> Node \cup {None}]
    /\ gossiped \subseteq Node
    /\ heard \in [Node -> [Node -> Age]]
    /\ crashes \in 0 .. MaxCrashes /\ cuts \in 0 .. MaxCuts

(* "seconds before marking node dead": whatever the others gossip, a node  *)
(* declares another DEAD only when nothing of it arrived for more than     *)
(* dead_timeout.                                                           *)
DeadMeansSilent ==
    [][\A n, m \in Node :
          /\ members[n][m].state \in {"ALIVE", "SUSPECT"}
          /\ members'[n][m].state = "DEAD"
          => heard[n][m] > DeadTimeout]_vars

(* Failure detection: a node that stays down is in the end DEAD, and stays *)
(* so, for every node that stays up and knows it; gossip of old records    *)
(* never revives it for good.                                              *)
FailureDetected ==
    \A n, m \in Node :
        <>[](n \in up /\ m \notin up)
          => <>[](members[n][m].state \in {"DEAD", "NONE"})

(* Discovery: a node whose JOIN was accepted comes to see its seed ALIVE,  *)
(* and its seed it, unless one of them goes down.                          *)
JoinedLearns ==
    \A n, s \in Node :
        joined[n] = s ~> \/ {n, s} \ up # {}
                         \/ /\ members[n][s].state = "ALIVE"
                            /\ members[s][n].state = "ALIVE"
=============================================================================
