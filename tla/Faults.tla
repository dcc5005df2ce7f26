------------------------------- MODULE Faults -------------------------------
(***************************************************************************)
(* Fault injection (chaos/fault_injection.py) as the nodes use it: the     *)
(* FAULT command and the library calls change the injector of a node;      *)
(* gossip, heartbeats, vote requests and replication ask the injector of   *)
(* their sender before they are sent, a JOIN does not, and all of them ask *)
(* the one of their receiver before they are handled.  Answers return on   *)
(* the connection of the request, and messages on the client port          *)
(* (forwarded writes, remote reads, imports) ask nobody: neither is        *)
(* modelled here.                                                          *)
(*                                                                         *)
(* A probability is "sometimes": whether a drop or a delay strikes is an   *)
(* arbitrary choice.  Disk faults, pauses and clock skew have no effect on *)
(* messages; a leader kill is the StepDown of module Election.             *)
(*                                                                         *)
(* The specification is FaultSpec: ChaosProofs extends this module and     *)
(* RateLimiter, so its names are its own.                                  *)
(***************************************************************************)
EXTENDS Integers, FiniteSets

CONSTANTS
    Node,
    Durations,     \* duration_seconds of partitions in ticks; 0: until cleared
    FaultKinds,         \* the kinds of faults injected
    MaxFaults,     \* bound: faults injected
    MaxSwitches,   \* bound: ENABLE, DISABLE, CLEAR and clear_fault
    MaxTime        \* bound: ticks

ASSUME FaultsAssumption ==
    /\ Durations \subseteq Nat
    /\ FaultKinds \subseteq {"partition", "drop", "delay", "crash"}
    /\ MaxFaults \in Nat /\ MaxSwitches \in Nat /\ MaxTime \in Nat

VARIABLES
    enabled,    \* enabled[n]
    faults,     \* faults[n]: _faults of n by fault id, as a set of records
    cut,        \* cut[n]: _partitioned_from of n
    up,         \* up[n]: the servers of n run
    dead,       \* the pairs <<n, m>> such that n holds m for DEAD
    mail,       \* mail[<<n, m>>]: the message from n to m and how far it got
    now,        \* time; fault ids carry it
    wanted,     \* history: wanted[n], every fault n was given and that was not
                \* itself cleared since, overwritten or not
    lifted,     \* history: lifted[n], the peers a clear_fault let in although
                \* another wanted fault names them, and none since
    injected, switches

faultVars == <<enabled, faults, cut, up, dead, mail, now, wanted, lifted,
               injected, switches>>

Pair == {p \in Node \X Node : p[1] # p[2]}

\* A fault id is made of the kind and the time in milliseconds.
Id(f) == <<f.kind, f.start>>

Expired(f) == f.duration > 0 /\ now - f.start > f.duration

\* _targets_node; what the commands create has no targets, that is all nodes.
Targets(f, m) == f.kind \in {"drop", "delay"}

\* should_fail_network and get_network_delay.  MayFail leaves out the partition,
\* for which there is no draw.
IsCut(n, m) == enabled[n] /\ m \in cut[n]
MayFail(n, m) ==
    enabled[n] /\ \E f \in faults[n] : f.kind = "drop" /\ Targets(f, m) /\ ~Expired(f)
MayDelay(n, m) ==
    enabled[n] /\ \E f \in faults[n] : f.kind = "delay" /\ Targets(f, m) /\ ~Expired(f)

\* The partition that n was told to keep up against m.
Wants(n, m) ==
    /\ enabled[n]
    /\ \E f \in wanted[n] : m \in f.from /\ ~Expired(f)

\* One that no clear_fault of another fault has lifted.
Keeps(n, m) == Wants(n, m) /\ m \notin lifted[n]

\* A message remembers whether it is a JOIN and which of its ends should have
\* stopped it: the sender that kept the partition when it was sent, the receiver
\* that has kept it ever since.
NoMessage == [stage |-> "none", join |-> FALSE, parted |-> {}]
Remember == mail' = [p \in Pair |->
    [mail[p] EXCEPT !.parted = {n \in @ : n = p[1] \/ Keeps(p[2], p[1])'}]]

-----------------------------------------------------------------------------
FaultInit ==
    /\ enabled = [n \in Node |-> FALSE]
    /\ faults = [n \in Node |-> {}]
    /\ cut = [n \in Node |-> {}]
    /\ up = [n \in Node |-> TRUE]
    /\ dead = {}
    /\ mail = [p \in Pair |-> NoMessage]
    /\ now = 0
    /\ wanted = [n \in Node |-> {}]
    /\ lifted = [n \in Node |-> {}]
    /\ injected = 0
    /\ switches = 0

Switch == switches < MaxSwitches /\ switches' = switches + 1

\* FAULT ENABLE and FAULT DISABLE
SetEnabled(n, on) ==
    /\ Switch
    /\ up[n]
    /\ enabled' = [enabled EXCEPT ![n] = on]
    /\ UNCHANGED <<faults, cut, up, dead, now, wanted, lifted, injected>>
    /\ Remember

\* A mutant of Inject: a fault of the same id is kept.
InjectTwice(n, kind, from, d) ==
    LET f == [kind |-> kind, from |-> from, start |-> now, duration |-> d] IN
    /\ injected < MaxFaults
    /\ injected' = injected + 1
    /\ up[n] /\ enabled[n]
    /\ faults' = [faults EXCEPT ![n] = @ \cup {f}]
    /\ wanted' = [wanted EXCEPT ![n] = @ \cup {f}]
    /\ lifted' = [lifted EXCEPT ![n] = @ \ from]
    /\ cut' = [cut EXCEPT ![n] = @ \cup from]
    /\ UNCHANGED <<enabled, up, dead, now, switches>>
    /\ Remember

\* inject_fault: a fault of the same id is replaced; what a partition cuts off is
\* added to _partitioned_from; a crash, if it strikes, stops the node.
\* When injection is disabled nothing happens (and FAULT reports success).
Inject(n, kind, from, d) ==
    LET f == [kind |-> kind, from |-> from, start |-> now, duration |-> d] IN
    /\ injected < MaxFaults
    /\ injected' = injected + 1
    /\ up[n] /\ enabled[n]
    /\ faults' = [faults EXCEPT ![n] = {g \in @ : Id(g) # Id(f)} \cup {f}]
    /\ wanted' = [wanted EXCEPT ![n] = @ \cup {f}]
    /\ lifted' = [lifted EXCEPT ![n] = @ \ from]
    /\ cut' = [cut EXCEPT ![n] = @ \cup from]
    /\ up' \in IF kind = "crash" THEN {up, [up EXCEPT ![n] = FALSE]} ELSE {up}
    /\ UNCHANGED <<enabled, dead, now, switches>>
    /\ Remember

\* clear_fault takes the peers of the fault out of _partitioned_from, whichever
\* other fault names them; these are still wanted.
ClearFault(n, f) ==
    /\ Switch
    /\ up[n]
    /\ faults' = [faults EXCEPT ![n] = @ \ {f}]
    /\ wanted' = [wanted EXCEPT ![n] = @ \ {f}]
    /\ lifted' = [lifted EXCEPT ![n] =
          @ \cup {m \in f.from : \E g \in wanted[n] \ {f} : m \in g.from}]
    /\ cut' = [cut EXCEPT ![n] = @ \ f.from]
    /\ UNCHANGED <<enabled, up, dead, now, injected>>
    /\ Remember

\* A mutant of ClearAllFaults: _partitioned_from is not cleared.
ClearOnlyTheList(n) ==
    /\ Switch
    /\ up[n]
    /\ faults' = [faults EXCEPT ![n] = {}]
    /\ wanted' = [wanted EXCEPT ![n] = {}]
    /\ lifted' = [lifted EXCEPT ![n] = {}]
    /\ UNCHANGED <<enabled, cut, up, dead, now, injected>>
    /\ Remember

\* FAULT CLEAR
ClearAllFaults(n) ==
    /\ Switch
    /\ up[n]
    /\ faults' = [faults EXCEPT ![n] = {}]
    /\ cut' = [cut EXCEPT ![n] = {}]
    /\ wanted' = [wanted EXCEPT ![n] = {}]
    /\ lifted' = [lifted EXCEPT ![n] = {}]
    /\ UNCHANGED <<enabled, up, dead, now, injected>>
    /\ Remember

TimePasses ==
    /\ now < MaxTime
    /\ now' = now + 1
    /\ UNCHANGED <<enabled, faults, cut, up, dead, wanted, lifted, injected, switches>>
    /\ Remember

\* The membership of a node declares a peer DEAD after a silence, or hears of it
\* anew.  Module Membership says when; here it may happen at any time.
Judge(p) ==
    /\ up[p[1]]
    /\ dead' = IF p \in dead THEN dead \ {p} ELSE dead \cup {p}
    /\ UNCHANGED <<enabled, faults, cut, up, mail, now, wanted, lifted, injected, switches>>

-----------------------------------------------------------------------------
(* A cluster message *)

MailStep(p, stage, join, parted) ==
    /\ mail' = [mail EXCEPT ![p] = [stage |-> stage, join |-> join, parted |-> parted]]
    /\ UNCHANGED <<enabled, faults, cut, up, dead, now, wanted, lifted, injected, switches>>

\* The ends of a message that keep a partition from the other end.
Keepers(p) == {n \in Node : \E m \in Node : {n, m} = {p[1], p[2]} /\ Keeps(n, m)}

\* Gossip, heartbeat, vote request or replicate: the sender asks its injector,
\* then sends.
Send(p) ==
    /\ mail[p].stage \in {"none", "handled"}
    /\ up[p[1]]
    /\ ~IsCut(p[1], p[2])
    /\ MailStep(p, "sent", FALSE, Keepers(p))

\* The gossip among them, sent in every round to peers that are not DEAD.
Gossip(p) == p \notin dead /\ Send(p)

\* join_cluster sends the JOIN without asking.
SendJoin(p) ==
    /\ mail[p].stage \in {"none", "handled"}
    /\ up[p[1]]
    /\ MailStep(p, "sent", TRUE, Keepers(p))

PassOn(p, stage) == MailStep(p, stage, mail[p].join, mail[p].parted)

\* A mutant of Receive: the receiver does not ask its injector.
ReceiveUnasked(p) ==
    /\ mail[p].stage = "sent"
    /\ up[p[2]]
    /\ PassOn(p, "handled")

\* The injector of the receiver lets it pass, at once or after a delay.
Receive(p) ==
    /\ mail[p].stage = "sent"
    /\ up[p[2]]
    /\ ~IsCut(p[2], p[1])
    /\ \/ PassOn(p, "handled")
       \/ MayDelay(p[2], p[1]) /\ PassOn(p, "delayed")

\* After the sleep the message is handled whatever has been injected meanwhile.
HandleDelayed(p) ==
    /\ mail[p].stage = "delayed"
    /\ up[p[2]]
    /\ PassOn(p, "handled")

\* should_fail_network at the receiver is true, or a drop strikes at an end that
\* is asked, or the receiver is down.
Lose(p) ==
    /\ mail[p].stage \in {"sent", "delayed"}
    /\ \/ ~up[p[2]]
       \/ /\ mail[p].stage = "sent"
          /\ \/ IsCut(p[2], p[1]) \/ MayFail(p[2], p[1])
             \/ ~mail[p].join /\ MayFail(p[1], p[2])
    /\ MailStep(p, "none", FALSE, {})

FaultNext ==
    \/ \E n \in Node, on \in BOOLEAN : SetEnabled(n, on)
    \/ \E n \in Node, kind \in FaultKinds \ {"partition"} : Inject(n, kind, {}, 0)
    \/ \E p \in Pair, d \in Durations :
          "partition" \in FaultKinds /\ Inject(p[1], "partition", {p[2]}, d)
    \/ \E n \in Node : \E f \in faults[n] : ClearFault(n, f)
    \/ \E n \in Node : ClearAllFaults(n)
    \/ TimePasses
    \/ \E p \in Pair :
          Judge(p) \/ Send(p) \/ SendJoin(p) \/ Receive(p) \/ HandleDelayed(p) \/ Lose(p)

FaultSpec == FaultInit /\ [][FaultNext]_faultVars

\* The threads of the nodes gossip and handle; up to four nodes a round reaches
\* every peer that is not DEAD.  Nothing makes anybody inject or clear a fault,
\* join, or change its mind about a peer.
FaultFairness ==
    \A p \in Pair :
        /\ WF_faultVars(Gossip(p)) /\ WF_faultVars(HandleDelayed(p))
        /\ WF_faultVars(Receive(p) \/ Lose(p))

FairFaultSpec == FaultSpec /\ FaultFairness

-----------------------------------------------------------------------------
Fault == [kind : FaultKinds, from : SUBSET Node, start : 0 .. MaxTime,
          duration : Durations \cup {0}]

FaultTypeOK ==
    /\ enabled \in [Node -> BOOLEAN]
    /\ \A n \in Node : /\ faults[n] \subseteq Fault
                       /\ wanted[n] \subseteq Fault
                       /\ \A f, g \in faults[n] : Id(f) = Id(g) => f = g
    /\ cut \in [Node -> SUBSET Node]
    /\ lifted \in [Node -> SUBSET Node]
    /\ dead \subseteq Pair
    /\ up \in [Node -> BOOLEAN]
    /\ mail \in [Pair -> [stage : {"none", "sent", "delayed", "handled"},
                          join : BOOLEAN, parted : SUBSET Node]]
    /\ now \in 0 .. MaxTime
    /\ injected \in 0 .. MaxFaults /\ switches \in 0 .. MaxSwitches

\* A partition of which only one end is told stops the messages of both directions:
\* a message is not handled when its receiver was told to keep apart from the
\* sender before it was sent and ever since, nor, unless it is a JOIN, when its
\* sender was told so before it sent; whatever else was injected, overwritten,
\* expired, cleared, switched off and on around it.  Two holes the code has are
\* named: a JOIN does not ask its sender (join), and clear_fault of a fault that
\* names the same peer lifts the partition until a fault names the peer again
\* (lifted, see ListedHolds).
PartitionHolds ==
    \A p \in Pair :
        mail[p].stage = "handled" => mail[p].parted \subseteq {n \in {p[1]} : mail[p].join}

\* Nothing is left of a fault: of two nodes that run, and where injection is off
\* or every fault injected has been cleared for good, one hears from the other
\* again, provided the other does not hold it for DEAD.  (A partition that lasts
\* makes it do so: MCMembershipHeal.cfg.)
Quiet(n) == up[n] /\ (~enabled[n] \/ wanted[n] = {})
FlowsAgain ==
    \A p \in Pair :
        <>[](Quiet(p[1]) /\ Quiet(p[2]) /\ p \notin dead)
            => []<>(mail[p].stage = "handled")

\* "Isolate node from others" (FaultType): a node sends nothing to a peer it keeps
\* apart from.  Refuted by a JOIN.
SenderHolds ==
    [][\A p \in Pair : mail'[p].stage = "sent" /\ mail[p].stage # "sent"
                            => ~Keeps(p[1], p[2])]_faultVars

\* "Get list of active faults." (get_active_faults): a node keeps apart only from
\* the peers that an active fault of its list names.  Refuted by a partition with
\* a duration, which no one ever lifts, and by two partitions injected in the same
\* millisecond, of which the list shows one.
ListExplains ==
    \A n, m \in Node : IsCut(n, m) => \E f \in faults[n] : m \in f.from /\ ~Expired(f)

\* "Clear a specific fault." (clear_fault): a partition on the list is in force.
\* Refuted by clearing another partition from the same peer.
ListedHolds ==
    \A n \in Node : \A f \in faults[n] : ~Expired(f) => f.from \subseteq cut[n]
=============================================================================
