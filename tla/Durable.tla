------------------------------ MODULE Durable -------------------------------
(***************************************************************************)
(* What one node promises about the operations it applies, without a word  *)
(* about files, snapshots, replay and the threads between them:            *)
(*                                                                         *)
(*  - an operation takes effect at once, and is acknowledged later or      *)
(*    never, and only while the store still shows it or what replaced it;  *)
(*  - as long as the node is up only operations change its store, and      *)
(*    values whose time has passed are dropped from it;                    *)
(*  - after a failure the store shows every acknowledged operation whose   *)
(*    value is not past its time, or what replaced it.  An operation that  *)
(*    was not acknowledged is there or not.  A key has no value but one    *)
(*    that a SET of the key once gave it and whose time is not over.       *)
(*                                                                         *)
(* Module Storage implements it as long as it does not compact.            *)
(***************************************************************************)
EXTENDS Integers, Sequences

CONSTANT Key

VARIABLES
    up,       \* whether the node is up
    store,    \* store[k]: the number of the operation that set k, or 0
    ops,      \* the operations, in the order in which they took effect
    acked,    \* those that were acknowledged
    late      \* those whose value is past its time

vars == <<up, store, ops, acked, late>>


Operation == [op : {"SET", "DELETE"}, key : Key, ttl : BOOLEAN]
Empty == [k \in Key |-> 0]

Init ==
    /\ up = TRUE
    /\ store = Empty
    /\ ops = <<>>
    /\ acked = {}
    /\ late = {}

\* Data d show operation i: its value or a later one, or nothing because a later
\* operation deleted the key or its time is over.
Shows(d, i) ==
    LET k == ops[i].key
    IN  \/ d[k] >= i
        \/ /\ d[k] = 0
           /\ \E j \in i .. Len(ops) :
                 ops[j].key = k /\ (ops[j].op = "DELETE" \/ j \in late)

\* Data d have values that were set and whose time is not over.
Genuine(d) ==
    \A k \in Key : d[k] # 0 =>
        /\ d[k] \in (1 .. Len(ops)) \ late
        /\ ops[d[k]].key = k /\ ops[d[k]].op = "SET"

Apply(o) ==
    /\ up
    /\ ops' = Append(ops, o)
    /\ store' = [store EXCEPT ![o.key] = IF o.op = "SET" THEN Len(ops) + 1 ELSE 0]
    /\ UNCHANGED <<up, acked, late>>

Acknowledge(i) ==
    /\ up
    /\ i \in late \/ Shows(store, i)
    /\ acked' = acked \cup {i}
    /\ UNCHANGED <<up, store, ops, late>>

Expire(i) ==
    /\ ops[i].ttl
    /\ late' = late \cup {i}
    /\ UNCHANGED <<up, store, ops, acked>>

\* Values past their time are dropped.
Drop ==
    /\ up
    /\ store' = [k \in Key |-> IF store[k] \in late THEN 0 ELSE store[k]]
    /\ UNCHANGED <<up, ops, acked, late>>

Fail ==
    /\ up
    /\ up' = FALSE
    /\ store' = Empty
    /\ UNCHANGED <<ops, acked, late>>

Restart ==
    /\ ~up
    /\ up' = TRUE
    /\ store' \in [Key -> 0 .. Len(ops)]
    /\ Genuine(store')
    /\ \A i \in acked \ late : Shows(store', i)
    /\ UNCHANGED <<ops, acked, late>>

Next ==
    \/ \E i \in 1 .. Len(ops) : Acknowledge(i) \/ Expire(i)
    \/ Drop \/ Fail \/ Restart
    \/ \E o \in Operation : Apply(o)

Spec == Init /\ [][Next]_vars
=============================================================================
