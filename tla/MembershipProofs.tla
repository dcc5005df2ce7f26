-------------------------- MODULE MembershipProofs --------------------------
(***************************************************************************)
(* What the gossip of Membership keeps, for any nodes, seeds, partitions,  *)
(* crashes and timeouts.                                                   *)
(***************************************************************************)
EXTENDS Membership, TLAPS

-----------------------------------------------------------------------------
(* Records *)

\* An age that grows stays an age and stops at OldAge.
LEMMA OlderAge ==
    ASSUME NEW a \in Age
    PROVE  Older(a) \in Age /\ a <= Older(a)
  BY MembershipAssumption DEF Older, Age, OldAge

\* No record is younger than another becomes older than it.
LEMMA OlderMonotone ==
    ASSUME NEW a \in Age, NEW b \in Age, a <= b
    PROVE  Older(a) <= Older(b)
  BY MembershipAssumption DEF Older, Age, OldAge

\* Every record has a state and an age; only a known one has another state than NONE.
LEMMA RecFields ==
    ASSUME NEW r \in Rec
    PROVE  /\ r.age \in Age
           /\ r = Unknown \/ r.state \in State
           /\ r = Unknown => r.age = OldAge /\ r.state = "NONE"
           /\ r = [state |-> r.state, age |-> r.age]
  BY MembershipAssumption DEF Rec, Unknown, Age, OldAge

\* The records the operators of membership.py make of records.
LEMMA Records ==
    ASSUME NEW r \in Rec, NEW s \in Rec
    PROVE  /\ Checked(r) \in Rec /\ Merge(r, s) \in Rec /\ Heartbeat(r) \in Rec
           /\ [r EXCEPT !.age = Older(@)] \in Rec
           /\ Self \in Rec /\ Unknown \in Rec
  <1>1. Self \in Rec /\ Unknown \in Rec
    BY MembershipAssumption DEF Rec, Self, Unknown, State, Age, OldAge
  <1>2. Merge(r, s) \in Rec
    BY DEF Merge
  <1>3. CASE r = Unknown
    BY <1>1, <1>2, <1>3, MembershipAssumption
       DEF Unknown, Checked, Heartbeat, Older, OldAge, Rec
  <1>4. CASE r \in [state : State, age : Age]
    <2>1. r.age \in Age /\ r.state \in State /\ Older(r.age) \in Age /\ 0 \in Age
      BY <1>4, OlderAge, MembershipAssumption DEF Age, OldAge
    <2>2. Checked(r) \in Rec
      BY <1>4, <2>1 DEF Checked, Rec, State
    <2>3. Heartbeat(r) \in Rec
      BY <1>4, <2>1 DEF Heartbeat, Rec, State
    <2>4. [r EXCEPT !.age = Older(@)] \in Rec
      BY <1>4, <2>1 DEF Rec
    <2>5. QED
      BY <1>1, <1>2, <2>2, <2>3, <2>4
  <1>5. QED
    BY <1>3, <1>4 DEF Rec

-----------------------------------------------------------------------------
(* Types *)

\* A cluster that starts has views of every node, none of them of a peer.
LEMMA InitTyped == Init => TypeOK
  <1> SUFFICES ASSUME Init PROVE TypeOK
    OBVIOUS
  <1>1. Self \in Rec /\ Unknown \in Rec
    BY Records DEF Rec
  <1>2. OldAge \in Age /\ 0 \in Age
    BY MembershipAssumption DEF OldAge, Age
  <1>3. \A n \in Node : OnlySelf(n) \in View /\ OnlySelf(n)[n] = Self
    BY <1>1 DEF OnlySelf, View
  <1>4. members \in [Node -> View] /\ \A n \in Node : members[n][n] = Self
    BY <1>3 DEF Init
  <1>5. heard \in [Node -> [Node -> Age]]
    BY <1>2 DEF Init
  <1>6. QED
    BY <1>4, <1>5, MembershipAssumption DEF Init, TypeOK

\* Join: the seed adds a record to its view.
LEMMA JoinTyped ==
    ASSUME TypeOK, NEW n \in Node, Join(n)
    PROVE  TypeOK'
  <1> DEFINE s == Seed[n]
  <1>1. s \in Node /\ s # n /\ members[s] \in View
    BY DEF Join, TypeOK
  <1>2. AddNode(members[s], n) \in View /\ AddNode(members[s], n)[s] = members[s][s]
    BY <1>1, Records DEF AddNode, View, Rec
  <1>3. /\ members' \in [Node -> View]
        /\ \A m \in Node : members'[m][m] = Self
    BY <1>1, <1>2 DEF Join, TypeOK
  <1>4. joined' \in [Node -> Node \cup {None}]
    BY <1>1 DEF Join, TypeOK
  <1>5. QED
    BY <1>3, <1>4 DEF Join, TypeOK

\* What a round makes of the view of a node.
RoundView(n) == [m \in Node |-> IF m = n THEN Self ELSE Checked(members[n][m])]

\* A round reaches some nodes; the rest of it is fixed.
LEMMA RoundEffect ==
    ASSUME NEW n \in Node, GossipRound(n)
    PROVE  \E asked \in SUBSET Node :
              /\ members' = [members EXCEPT ![n] = RoundView(n)]
              /\ conn' = [conn EXCEPT ![n] = [m \in Node |->
                    IF m \in asked THEN AfterSend(n, m) ELSE conn[n][m]]]
              /\ net' = net \cup {[from |-> n, to |-> m, view |-> RoundView(n)] :
                    m \in {q \in asked : AfterSend(n, q) = "open" /\ q \in up}}
              /\ gossiped' = gossiped \cup {n}
              /\ UNCHANGED <<up, cut, joined, heard, crashes, cuts>>
  <1> DEFINE view == RoundView(n)
             Asked(targets) == {m \in targets : Connected(n, m)}
  <1>1. PICK targets \in Samples(n, view) :
              /\ members' = [members EXCEPT ![n] = view]
              /\ conn' = [conn EXCEPT ![n] = [m \in Node |->
                    IF m \in Asked(targets) THEN AfterSend(n, m) ELSE conn[n][m]]]
              /\ net' = net \cup {[from |-> n, to |-> m, view |-> view] :
                    m \in {q \in Asked(targets) : AfterSend(n, q) = "open" /\ q \in up}}
              /\ gossiped' = gossiped \cup {n}
              /\ UNCHANGED <<up, cut, joined, heard, crashes, cuts>>
    BY Zenon DEF GossipRound, RoundView
  <1>2. Asked(targets) \in SUBSET Node
    BY DEF Samples
  <1> HIDE DEF Asked
  <1> QED BY <1>1, <1>2

\* GossipRound: the checked view and the messages that carry it.
LEMMA RoundTyped ==
    ASSUME TypeOK, NEW n \in Node, GossipRound(n)
    PROVE  TypeOK'
  <1> DEFINE view == RoundView(n)
  <1>1. \A m \in Node : members[n][m] \in Rec
    BY DEF TypeOK, View
  <1>2. view \in View /\ view[n] = Self
    BY <1>1, Records DEF RoundView, View
  <1>3. PICK asked \in SUBSET Node :
        /\ members' = [members EXCEPT ![n] = view]
        /\ conn' = [conn EXCEPT ![n] = [m \in Node |->
              IF m \in asked THEN AfterSend(n, m) ELSE conn[n][m]]]
        /\ net' = net \cup {[from |-> n, to |-> m, view |-> view] :
              m \in {q \in asked : AfterSend(n, q) = "open" /\ q \in up}}
        /\ gossiped' = gossiped \cup {n}
        /\ UNCHANGED <<up, cut, joined, heard, crashes, cuts>>
    BY RoundEffect
  <1> HIDE DEF view
  <1>4. /\ members' \in [Node -> View]
        /\ \A m \in Node : members'[m][m] = Self
    BY <1>2, <1>3 DEF TypeOK
  <1>5. \A m \in Node : /\ AfterSend(n, m) \in {"none", "open", "broken"}
                        /\ AfterSend(n, m) = "open" => m \in up
    BY DEF TypeOK, AfterSend
  <1>6. conn' \in [Node -> [Node -> {"none", "open", "broken"}]]
    BY <1>3, <1>5 DEF TypeOK
  <1>7. \A p, m \in Node : conn'[p][m] = "open" => m \in up'
    BY <1>3, <1>5 DEF TypeOK
  <1>8. net' \subseteq [from : Node, to : Node, view : View]
    BY <1>2, <1>3 DEF TypeOK
  <1>9. QED
    BY <1>3, <1>4, <1>6, <1>7, <1>8 DEF TypeOK

\* What gossip makes of the view of the node that handles it.
Merged(msg) ==
    [m \in Node |-> IF m = msg.to THEN members[msg.to][m]
                     ELSE Merge(members[msg.to][m], msg.view[m])]
Handled(msg) == [Merged(msg) EXCEPT ![msg.from] = Heartbeat(@)]

\* HandleGossip: the merged view of the receiver.
LEMMA HandleTyped ==
    ASSUME TypeOK, NEW msg \in net, HandleGossip(msg)
    PROVE  TypeOK' /\ Handled(msg) \in View
  <1>1. /\ msg.to \in Node /\ msg.from \in Node /\ msg.view \in View
        /\ members[msg.to] \in View
    BY DEF TypeOK
  <1>2. \A m \in Node : Merged(msg)[m] \in Rec /\ Heartbeat(Merged(msg)[m]) \in Rec
    BY <1>1, Records DEF Merged, View
  <1>3. Handled(msg) \in View
    BY <1>1, <1>2 DEF Handled, Merged, View
  <1>4. Heartbeat(Self) = Self
    BY MembershipAssumption DEF Heartbeat, Self, Unknown
  <1>5. Handled(msg)[msg.to] = Self
    BY <1>1, <1>4 DEF Handled, Merged, TypeOK
  <1>6. /\ net' \subseteq net
        /\ UNCHANGED <<up, conn, cut, joined, gossiped, crashes, cuts>>
        /\ \/ /\ members' = [members EXCEPT ![msg.to] = Handled(msg)]
              /\ heard' = [heard EXCEPT ![msg.to] = [@ EXCEPT ![msg.from] = 0]]
           \/ UNCHANGED <<members, heard>>
    BY DEF HandleGossip, Handled, Merged
  <1>7. /\ members' \in [Node -> View]
        /\ \A m \in Node : members'[m][m] = Self
    <2>1. CASE members' = [members EXCEPT ![msg.to] = Handled(msg)]
      BY <1>1, <1>3, <1>5, <2>1 DEF TypeOK
    <2>2. CASE UNCHANGED members
      BY <2>2 DEF TypeOK
    <2>3. QED
      BY <1>6, <2>1, <2>2
  <1>8. heard' \in [Node -> [Node -> Age]]
    <2>1. 0 \in Age /\ heard[msg.to] \in [Node -> Age]
      BY <1>1, MembershipAssumption DEF Age, OldAge, TypeOK
    <2>2. [heard[msg.to] EXCEPT ![msg.from] = 0] \in [Node -> Age]
      BY <1>1, <2>1
    <2>3. CASE heard' = [heard EXCEPT ![msg.to] = [@ EXCEPT ![msg.from] = 0]]
      BY <1>1, <2>2, <2>3 DEF TypeOK
    <2>4. CASE UNCHANGED heard
      BY <2>4 DEF TypeOK
    <2>5. QED
      BY <1>6, <2>3, <2>4
  <1>9. QED
    BY <1>3, <1>6, <1>7, <1>8 DEF TypeOK

\* Tick: every record and every silence one tick older.
LEMMA TickTyped ==
    ASSUME TypeOK, Tick
    PROVE  TypeOK'
  <1>1. ASSUME NEW v \in View
        PROVE  [m \in Node |-> [v[m] EXCEPT !.age = Older(@)]] \in View
    BY Records DEF View
  <1>2. /\ members' \in [Node -> View]
        /\ \A m \in Node : members'[m][m] = Self
    <2>1. ASSUME NEW n \in Node, NEW m \in Node
          PROVE  [members[n][m] EXCEPT !.age = Older(@)] \in Rec /\ members[n][m] \in Rec
      <3>1. members[n] \in [Node -> Rec]
        BY DEF View, TypeOK
      <3>2. members[n][m] \in Rec
        BY <3>1
      <3>3. QED
        BY <3>2, Records
    <2>2. QED
      BY <2>1 DEF Tick, TypeOK, View
  <1>3. net' \subseteq [from : Node, to : Node, view : View]
    <2>1. ASSUME NEW msg \in net
          PROVE  [msg EXCEPT !.view = [m \in Node |-> [msg.view[m] EXCEPT !.age = Older(@)]]]
                   \in [from : Node, to : Node, view : View]
      <3>1. msg \in [from : Node, to : Node, view : View] /\ msg.view \in View
        BY DEF TypeOK
      <3>2. [m \in Node |-> [msg.view[m] EXCEPT !.age = Older(@)]] \in View
        BY <1>1, <3>1
      <3>3. QED
        BY <3>1, <3>2
    <2>2. QED
      BY <2>1 DEF Tick
  <1>4. heard' \in [Node -> [Node -> Age]]
    BY OlderAge DEF Tick, TypeOK
  <1>5. QED
    BY <1>2, <1>3, <1>4 DEF Tick, TypeOK

\* Crash: the view and the connections of the process are gone.
LEMMA CrashTyped ==
    ASSUME TypeOK, NEW n \in Node, Crash(n)
    PROVE  TypeOK'
  <1>1. OnlySelf(n) \in View /\ OnlySelf(n)[n] = Self
    BY Records DEF OnlySelf, View, Rec
  <1>2. /\ members' \in [Node -> View]
        /\ \A m \in Node : members'[m][m] = Self
    BY <1>1 DEF Crash, TypeOK
  <1>3. /\ conn' \in [Node -> [Node -> {"none", "open", "broken"}]]
        /\ \A p, m \in Node : conn'[p][m] = "open" => m \in up'
    BY DEF Crash, TypeOK
  <1>4. heard' \in [Node -> [Node -> Age]]
    BY MembershipAssumption DEF Crash, TypeOK, Age, OldAge
  <1>5. joined' \in [Node -> Node \cup {None}] /\ crashes' \in 0 .. MaxCrashes
    BY MembershipAssumption DEF Crash, TypeOK
  <1>6. QED
    BY <1>2, <1>3, <1>4, <1>5 DEF Crash, TypeOK

\* Restart, Heal and Partition leave the records alone.
LEMMA OthersTyped ==
    ASSUME TypeOK,
           \/ \E n \in Node : Restart(n)
           \/ Heal
           \/ \E p \in Partitions : Partition(p)
           \/ UNCHANGED vars
    PROVE  TypeOK'
  <1>1. CASE \E n \in Node : Restart(n)
    BY <1>1 DEF Restart, TypeOK
  <1>2. CASE Heal
    BY <1>2 DEF Heal, TypeOK
  <1>3. CASE \E p \in Partitions : Partition(p)
    BY <1>3, MembershipAssumption DEF Partition, TypeOK
  <1>4. CASE UNCHANGED vars
    BY <1>4 DEF vars, TypeOK
  <1>5. QED
    BY <1>1, <1>2, <1>3, <1>4

\* Every step keeps the types.
LEMMA StepTyped == TypeOK /\ [Next]_vars => TypeOK'
  <1> SUFFICES ASSUME TypeOK, [Next]_vars PROVE TypeOK'
    OBVIOUS
  <1>1. CASE \E n \in Node : Join(n) \/ GossipRound(n) \/ Crash(n)
    BY <1>1, JoinTyped, RoundTyped, CrashTyped
  <1>2. CASE Receive
    BY <1>2, HandleTyped DEF Receive
  <1>3. CASE Tick
    BY <1>3, TickTyped
  <1>4. QED
    BY <1>1, <1>2, <1>3, OthersTyped DEF Next

\* The views, connections and messages of Membership keep their types, a node is
\* ALIVE to itself, and a connection that counts as open leads to a process
\* that runs.
THEOREM MembershipTypes == Spec => []TypeOK
  BY InitTyped, StepTyped, PTL DEF Spec

-----------------------------------------------------------------------------
(* Nobody is declared DEAD who was heard of *)

\* A view in which only records past every timeout are DEAD.
DeadIsOld(v) == \A m \in Node : v[m].state = "DEAD" => v[m].age = OldAge

\* A record of a node is no older than the last gossip from it; where messages
\* take less than a tick, what a message says of its sender is fresh, so a DEAD
\* record is never made young again.
HeardInv ==
    /\ \A n, m \in Node : members[n][m].age <= heard[n][m]
    /\ \A n \in Node : DeadIsOld(members[n])
    /\ \A msg \in net : msg.view[msg.from] = Self /\ DeadIsOld(msg.view)

IInv == TypeOK /\ HeardInv

\* At the start nobody was heard of and nobody is DEAD.
LEMMA InitHeard == Init => HeardInv
  BY MembershipAssumption
     DEF Init, HeardInv, DeadIsOld, OnlySelf, Self, Unknown, OldAge

\* Join: the record the seed adds is fresh, and so is the silence it measures.
LEMMA JoinHeard ==
    ASSUME IInv, NEW n \in Node, Join(n)
    PROVE  HeardInv'
  <1> DEFINE s == Seed[n]
  <1>1. s \in Node /\ members[s] \in View
    BY DEF Join, IInv, TypeOK
  <1>2. \A m \in Node : /\ members'[s][m] = members[s][m] \/ members'[s][m] = Self
                        /\ \A p \in Node \ {s} : members'[p][m] = members[p][m]
    BY <1>1 DEF Join, AddNode, IInv, TypeOK, View
  <1>3. /\ \A p, m \in Node : heard[p][m] \in Age
        /\ UNCHANGED <<heard, net>>
    BY DEF Join, IInv, TypeOK
  <1>4. Self.age = 0 /\ Self.state = "ALIVE"
    BY DEF Self
  <1>5. \A p, m \in Node : members'[p][m].age <= heard'[p][m]
    BY <1>2, <1>3, <1>4, MembershipAssumption DEF IInv, HeardInv, Age, OldAge
  <1>6. \A p \in Node : DeadIsOld(members'[p])
    BY <1>2, <1>4 DEF IInv, HeardInv, DeadIsOld
  <1>7. QED
    BY <1>3, <1>5, <1>6 DEF IInv, HeardInv

\* _check_node_health makes no record younger, and only an old one DEAD.
LEMMA CheckedRecord ==
    ASSUME NEW r \in Rec
    PROVE  /\ Checked(r).age = r.age
           /\ Checked(r).state = "DEAD" /\ r.state # "DEAD" => r.age = OldAge
  <1>1. CASE r = Unknown
    BY <1>1, MembershipAssumption DEF Checked, Unknown
  <1>2. CASE r \in [state : State, age : Age]
    <2>1. r.age \in Age
      BY <1>2
    <2>2. r.age > DeadTimeout => r.age = OldAge
      BY <2>1, MembershipAssumption DEF Age, OldAge
    <2>3. QED
      BY <1>2, <2>1, <2>2 DEF Checked
  <1>3. QED
    BY <1>1, <1>2 DEF Rec

\* GossipRound makes DEAD only what is old, and sends it so.
LEMMA RoundHeard ==
    ASSUME IInv, NEW n \in Node, GossipRound(n)
    PROVE  HeardInv'
  <1> DEFINE view == RoundView(n)
  <1>1. \A m \in Node : members[n][m] \in Rec
    BY DEF IInv, TypeOK, View
  <1>2. \A m \in Node : /\ view[m].age <= heard[n][m]
                        /\ view[m].state = "DEAD" => view[m].age = OldAge
    <2>1. \A m \in Node : heard[n][m] \in Age
      BY DEF IInv, TypeOK
    <2>2. ASSUME NEW m \in Node, m # n
          PROVE  /\ view[m].age <= heard[n][m]
                 /\ view[m].state = "DEAD" => view[m].age = OldAge
      <3>1. view[m] = Checked(members[n][m])
        BY <2>2 DEF RoundView
      <3>2. QED
        BY <1>1, <3>1, CheckedRecord DEF IInv, HeardInv, DeadIsOld
    <2>3. /\ view[n].age <= heard[n][n]
          /\ view[n].state # "DEAD"
      BY <2>1, MembershipAssumption DEF RoundView, Self, Age, OldAge
    <2>4. QED
      BY <2>2, <2>3
  <1>3. view[n] = Self
    BY DEF RoundView
  <1>4. PICK asked \in SUBSET Node :
        /\ members' = [members EXCEPT ![n] = view]
        /\ net' = net \cup {[from |-> n, to |-> m, view |-> view] :
              m \in {q \in asked : AfterSend(n, q) = "open" /\ q \in up}}
        /\ heard' = heard
    BY RoundEffect
  <1> HIDE DEF view
  <1>5. \A p, m \in Node : members'[p][m].age <= heard'[p][m]
    BY <1>2, <1>4 DEF IInv, TypeOK, HeardInv
  <1>6. \A p \in Node : DeadIsOld(members'[p])
    BY <1>2, <1>4 DEF IInv, TypeOK, HeardInv, DeadIsOld
  <1>7. \A msg \in net' : msg.view[msg.from] = Self /\ DeadIsOld(msg.view)
    BY <1>2, <1>3, <1>4 DEF IInv, HeardInv, DeadIsOld
  <1>8. QED
    BY <1>5, <1>6, <1>7 DEF HeardInv

\* A merged record is no older than it was, and DEAD only if it was or if it is
\* the first one of its node.
LEMMA MergedRecord ==
    ASSUME NEW r \in Rec, NEW s \in Rec, s.state = "DEAD" => s.age = OldAge,
           r.state = "DEAD" => r.age = OldAge
    PROVE  /\ Merge(r, s).age <= r.age
           /\ Merge(r, s).state = "DEAD" => Merge(r, s).age = OldAge
           /\ Merge(r, s).state = "DEAD" => r.state \in {"DEAD", "NONE"}
  <1>1. r.age \in Int /\ s.age \in Int /\ r.age <= OldAge /\ s.age <= OldAge
        /\ OldAge \in Int
    BY RecFields, MembershipAssumption DEF Age, OldAge
  <1>2. r = Unknown => r.age = OldAge /\ r.state = "NONE"
    BY DEF Unknown
  <1>5. CASE r = Unknown
    <2>1. Merge(r, s) = s
      BY <1>5 DEF Merge
    <2>2. QED
      BY <1>1, <1>2, <1>5, <2>1
  <1>6. CASE r # Unknown /\ s.age < r.age
    <2>1. Merge(r, s) = s
      BY <1>6 DEF Merge
    <2>2. s.age <= r.age /\ s.age # OldAge
      BY <1>1, <1>6
    <2>3. s.state # "DEAD"
      BY <2>2
    <2>4. QED
      BY <2>1, <2>2, <2>3
  <1>7. CASE r # Unknown /\ ~(s.age < r.age)
    <2>1. Merge(r, s) = r
      BY <1>7 DEF Merge
    <2>2. r.age <= r.age
      BY <1>1
    <2>3. QED
      BY <2>1, <2>2
  <1>8. QED
    BY <1>5, <1>6, <1>7

\* The record of the sender is ALIVE and fresh once its gossip is handled.
LEMMA FreshSender ==
    ASSUME NEW r \in Rec, r.state = "DEAD" => r.age = OldAge
    PROVE  Heartbeat(Merge(r, Self)) = Self
  <1>1. r.age \in Age /\ Self.age = 0 /\ 0 < OldAge
    BY RecFields, MembershipAssumption DEF Self, OldAge
  <1>2. Heartbeat(Self) = Self
    BY MembershipAssumption DEF Heartbeat, Self, Unknown
  <1>3. CASE r = Unknown \/ 0 < r.age
    BY <1>1, <1>2, <1>3 DEF Merge
  <1>4. CASE r # Unknown /\ ~(0 < r.age)
    <2>1. r.age = 0 /\ r.state \in {"ALIVE", "SUSPECT"}
      BY <1>1, <1>4, RecFields, MembershipAssumption DEF Age, OldAge, State
    <2>2. Merge(r, Self) = r
      BY <1>1, <1>4, <2>1 DEF Merge
    <2>3. Heartbeat(r) = Self
      BY <1>4, <2>1 DEF Heartbeat, Self
    <2>4. QED
      BY <2>2, <2>3
  <1>5. QED
    BY <1>3, <1>4

\* What the receiver of gossip holds then, against what it held.
LEMMA HandledView ==
    ASSUME IInv, NEW msg \in net, NEW m \in Node
    PROVE  LET new == Handled(msg)[m]
               old == members[msg.to][m]
           IN  /\ m = msg.from => new = Self
               /\ new.age <= old.age /\ old \in Rec
               /\ new.state = "DEAD" => new.age = OldAge
               /\ new.state = "DEAD" => old.state \in {"DEAD", "NONE"}
  <1> DEFINE old == members[msg.to][m]
             new == Handled(msg)[m]
  <1>1. /\ msg.to \in Node /\ msg.from \in Node /\ msg.view \in View
        /\ members[msg.to] \in View /\ members[msg.to][msg.to] = Self
        /\ DeadIsOld(members[msg.to]) /\ DeadIsOld(msg.view)
        /\ msg.view[msg.from] = Self
    BY DEF IInv, TypeOK, HeardInv
  <1>2. old \in Rec /\ msg.view[m] \in Rec
    BY <1>1 DEF View
  <1>3. Self.age = 0 /\ Self.state = "ALIVE" /\ \A a \in Age : 0 <= a
    BY MembershipAssumption DEF Self, Age, OldAge
  <1>4. old.age \in Age
    BY <1>2, RecFields
  <1>5. CASE m = msg.from
    <2>1. new = Self
      <3>1. CASE m = msg.to
        <4>1. new = Heartbeat(Self)
          BY <1>1, <1>5, <3>1 DEF Handled, Merged
        <4>2. QED
          BY <4>1, MembershipAssumption DEF Heartbeat, Self, Unknown
      <3>2. CASE m # msg.to
        <4>1. new = Heartbeat(Merge(old, Self))
          BY <1>1, <1>5, <3>2 DEF Handled, Merged
        <4>2. QED
          BY <1>1, <1>2, <4>1, FreshSender DEF DeadIsOld
      <3>3. QED
        BY <3>1, <3>2
    <2>2. QED
      BY <1>2, <1>3, <1>4, <2>1
  <1>6. CASE m # msg.from /\ m = msg.to
    <2>1. new = old /\ old = Self
      BY <1>1, <1>6 DEF Handled, Merged
    <2>2. QED
      BY <1>2, <1>3, <1>6, <2>1
  <1>7. CASE m # msg.from /\ m # msg.to
    <2>1. new = Merge(old, msg.view[m])
      BY <1>1, <1>7 DEF Handled, Merged
    <2>2. QED
      BY <1>1, <1>2, <1>7, <2>1, MergedRecord DEF DeadIsOld
  <1>8. QED
    BY <1>5, <1>6, <1>7

\* HandleGossip: a merged record is bounded by the silence of its node.
LEMMA HandleHeard ==
    ASSUME IInv, NEW msg \in net, HandleGossip(msg)
    PROVE  HeardInv'
  <1>1. msg.to \in Node /\ msg.from \in Node
    BY DEF IInv, TypeOK
  <1>2. net' \subseteq net
    BY DEF HandleGossip
  <1>3. CASE UNCHANGED <<members, heard>>
    BY <1>2, <1>3 DEF IInv, HeardInv
  <1>4. CASE /\ members' = [members EXCEPT ![msg.to] = Handled(msg)]
             /\ heard' = [heard EXCEPT ![msg.to] = [@ EXCEPT ![msg.from] = 0]]
    <2>1. /\ members'[msg.to] = Handled(msg)
          /\ \A p \in Node \ {msg.to} : members'[p] = members[p] /\ heard'[p] = heard[p]
          /\ heard'[msg.to][msg.from] = 0
          /\ \A m \in Node \ {msg.from} : heard'[msg.to][m] = heard[msg.to][m]
          /\ \A m \in Node : heard[msg.to][m] \in Age
      BY <1>1, <1>4 DEF IInv, TypeOK
    <2>2. ASSUME NEW m \in Node PROVE Handled(msg)[m].age <= heard'[msg.to][m]
      <3>1. CASE m = msg.from
        BY <2>1, <3>1, HandledView DEF Self
      <3>2. CASE m # msg.from
        <4>1. /\ members[msg.to][m].age <= heard[msg.to][m]
              /\ Handled(msg)[m].age <= members[msg.to][m].age
              /\ members[msg.to][m] \in Rec
          BY <1>1, HandledView DEF IInv, HeardInv
        <4>2. members[msg.to][m].age \in Int /\ heard[msg.to][m] \in Int
          BY <2>1, <4>1, RecFields, MembershipAssumption DEF Age, OldAge
        <4>3. Handled(msg)[m].age \in Int
          <5>1. Handled(msg)[m] \in Rec
            BY HandleTyped DEF IInv, View
          <5>2. QED
            BY <5>1, RecFields, MembershipAssumption DEF Age, OldAge
        <4>4. QED
          BY <2>1, <3>2, <4>1, <4>2, <4>3
      <3>3. QED
        BY <3>1, <3>2
    <2>3. DeadIsOld(Handled(msg))
      BY HandledView DEF DeadIsOld
    <2>4. \A p, m \in Node : members'[p][m].age <= heard'[p][m]
      BY <2>1, <2>2 DEF IInv, HeardInv
    <2>5. \A p \in Node : DeadIsOld(members'[p])
      BY <2>1, <2>3 DEF IInv, HeardInv
    <2>6. QED
      BY <1>2, <2>4, <2>5 DEF IInv, HeardInv
  <1>5. QED
    BY <1>3, <1>4 DEF HandleGossip, Handled, Merged

\* Tick: records and silences age alike.
LEMMA TickHeard ==
    ASSUME IInv, Timely, Tick
    PROVE  HeardInv'
  <1>1. net' = {}
    BY DEF Tick
  <1>2. ASSUME NEW n \in Node, NEW m \in Node
        PROVE  /\ members'[n][m].age <= heard'[n][m]
               /\ members'[n][m].state = "DEAD" => members'[n][m].age = OldAge
    <2>1. /\ members[n][m] \in Rec /\ heard[n][m] \in Age
          /\ members[n][n] = Self
          /\ members[n][m].age <= heard[n][m]
          /\ members[n][m].state = "DEAD" => members[n][m].age = OldAge
      BY DEF IInv, TypeOK, View, HeardInv, DeadIsOld
    <2>2. members[n][m].age \in Age
      BY <2>1, RecFields
    <2>3. heard'[n][m] = Older(heard[n][m]) /\ heard'[n][m] \in Age
      BY <2>1, OlderAge DEF Tick
    <2>4. CASE m = n
      <3>1. members'[n][m] = Self
        BY <2>1, <2>4 DEF Tick
      <3>2. QED
        BY <2>3, <3>1, MembershipAssumption DEF Self, Age, OldAge
    <2>5. CASE m # n
      <3>1. members'[n][m] = [members[n][m] EXCEPT !.age = Older(@)]
        BY <2>5 DEF Tick
      <3>2. /\ members'[n][m].age = Older(members[n][m].age)
            /\ members'[n][m].state = members[n][m].state
        BY <2>1, <3>1 DEF Rec, Unknown
      <3>3. Older(OldAge) = OldAge
        BY MembershipAssumption DEF Older, OldAge
      <3>4. QED
        BY <2>1, <2>2, <2>3, <3>2, <3>3, OlderMonotone
    <2>6. QED
      BY <2>4, <2>5
  <1>3. QED
    BY <1>1, <1>2 DEF HeardInv, DeadIsOld

\* Crash: the node that starts again has heard of nobody.
LEMMA CrashHeard ==
    ASSUME IInv, NEW n \in Node, Crash(n)
    PROVE  HeardInv'
  <1>1. /\ members'[n] = OnlySelf(n) /\ heard'[n] = [m \in Node |-> OldAge]
        /\ \A p \in Node \ {n} : members'[p] = members[p] /\ heard'[p] = heard[p]
        /\ net' = net
    BY DEF Crash, IInv, TypeOK
  <1>2. \A m \in Node : /\ OnlySelf(n)[m].age <= OldAge
                        /\ OnlySelf(n)[m].state # "DEAD"
    BY MembershipAssumption DEF OnlySelf, Self, Unknown, OldAge
  <1>3. QED
    BY <1>1, <1>2 DEF IInv, HeardInv, DeadIsOld

\* Every step of a timely cluster keeps the invariant.
LEMMA StepHeard ==
    ASSUME IInv, Timely, [Next]_vars
    PROVE  HeardInv'
  <1>1. CASE \E n \in Node : Join(n) \/ GossipRound(n) \/ Crash(n)
    BY <1>1, JoinHeard, RoundHeard, CrashHeard
  <1>2. CASE Receive
    BY <1>2, HandleHeard DEF Receive
  <1>3. CASE Tick
    BY <1>3, TickHeard
  <1>4. CASE \/ \E n \in Node : Restart(n)
             \/ Heal
             \/ \E p \in Partitions : Partition(p)
             \/ UNCHANGED vars
    <2>1. UNCHANGED <<members, heard, net>>
      BY <1>4 DEF Restart, Heal, Partition, vars
    <2>2. QED
      BY <2>1 DEF IInv, HeardInv
  <1>5. QED
    BY <1>1, <1>2, <1>3, <1>4 DEF Next

\* Who turns ALIVE or SUSPECT into DEAD: the check of the node itself, after silence.
DeadAfterSilence ==
    \A n, m \in Node :
        /\ members[n][m].state \in {"ALIVE", "SUSPECT"}
        /\ members'[n][m].state = "DEAD"
        => heard[n][m] > DeadTimeout

\* A record turns DEAD only when its node was not heard for the whole timeout.
LEMMA OwnVerdict ==
    ASSUME IInv, [Next]_vars
    PROVE  DeadAfterSilence
  <1> SUFFICES ASSUME NEW n \in Node, NEW m \in Node,
                      members[n][m].state \in {"ALIVE", "SUSPECT"},
                      members'[n][m].state = "DEAD"
               PROVE  heard[n][m] > DeadTimeout
    BY DEF DeadAfterSilence
  <1>1. /\ members[n] \in View /\ members[n][m] \in Rec /\ heard[n][m] \in Age
        /\ members[n][m].age <= heard[n][m] /\ members[n][n] = Self
    BY DEF IInv, TypeOK, View, HeardInv
  <1>2. ASSUME NEW p \in Node, Join(p) PROVE FALSE
    BY <1>1, <1>2 DEF Join, AddNode, IInv, TypeOK, View, Self
  <1>3. ASSUME NEW p \in Node, GossipRound(p) PROVE heard[n][m] > DeadTimeout
    <2>1. p = n /\ m # n
      BY <1>1, <1>3 DEF GossipRound, IInv, TypeOK, Self
    <2>2. members'[n][m] = Checked(members[n][m])
      BY <1>3, <2>1 DEF GossipRound, IInv, TypeOK
    <2>3. members[n][m].age = OldAge
      BY <1>1, <2>2, CheckedRecord
    <2>4. QED
      BY <1>1, <2>3, MembershipAssumption DEF Age, OldAge
  <1>4. ASSUME NEW msg \in net, HandleGossip(msg) PROVE FALSE
    <2>1. /\ msg.to = n
          /\ members' = [members EXCEPT ![msg.to] = Handled(msg)]
      BY <1>4 DEF HandleGossip, Handled, Merged, IInv, TypeOK
    <2>2. members'[n][m] = Handled(msg)[m]
      BY <2>1 DEF IInv, TypeOK
    <2>3. QED
      BY <2>1, <2>2, HandledView
  <1>5. ASSUME Tick PROVE FALSE
    <2>1. CASE m = n
      BY <1>5, <2>1 DEF Tick
    <2>2. CASE m # n
      BY <1>1, <1>5, <2>2 DEF Tick, Rec, Unknown
    <2>3. QED
      BY <2>1, <2>2
  <1>6. ASSUME NEW p \in Node, Crash(p) PROVE FALSE
    BY <1>1, <1>6 DEF Crash, OnlySelf, Self, Unknown, IInv, TypeOK
  <1>7. ASSUME UNCHANGED members PROVE FALSE
    BY <1>7
  <1>8. QED
    BY <1>2, <1>3, <1>4, <1>5, <1>6, <1>7
       DEF Next, Receive, Restart, Heal, Partition, vars

\* Where a message takes less than a gossip interval, a node declares another
\* DEAD (_check_node_health) only when nothing of it arrived for more than
\* dead_timeout, whatever records the others gossip, whoever crashes, restarts or
\* is cut off.
THEOREM SilenceFirst ==
    ASSUME Timely
    PROVE  Spec => DeadMeansSilent
  <1>1. Init => IInv
    BY InitTyped, InitHeard DEF IInv
  <1>2. IInv /\ [Next]_vars => IInv'
    BY StepTyped, StepHeard DEF IInv
  <1>3. IInv /\ [Next]_vars => [DeadAfterSilence]_vars
    BY OwnVerdict
  <1>4. QED
    BY <1>1, <1>2, <1>3, PTL DEF Spec, DeadMeansSilent, DeadAfterSilence
=============================================================================
