---------------------------- MODULE ClientWrite ----------------------------
(***************************************************************************)
(* What the write path promises a client that sends SET, SETEX or DELETE   *)
(* to any node, without a word about leaders, forwarding and locks:        *)
(*                                                                         *)
(*  - a write is begun at most once;                                       *)
(*  - it is answered at most once, with "ok" only after it succeeded, with *)
(*    "failed" only after it was begun and went wrong, and with "refused"  *)
(*    only when it was not begun;                                          *)
(*  - a refused write is not begun afterwards, while one whose answer is   *)
(*    "unknown" may have been, or may still be.                            *)
(*                                                                         *)
(* Module Forwarding implements it.                                        *)
(***************************************************************************)
EXTENDS Naturals

CONSTANT Req

VARIABLES
    sent,      \* the writes clients have sent
    begun,     \* begun[r]: how often r was begun
    outcome,   \* outcome[r]: what came of it: nothing yet, "ok" or "failed"
    told       \* told[r]: what the client was told, "none" at first

vars == <<sent, begun, outcome, told>>

Init ==
    /\ sent = {}
    /\ begun = [r \in Req |-> 0]
    /\ outcome = [r \in Req |-> {}]
    /\ told = [r \in Req |-> "none"]

Send(r) ==
    /\ r \notin sent
    /\ sent' = sent \cup {r}
    /\ UNCHANGED <<begun, outcome, told>>

Begin(r) ==
    /\ r \in sent
    /\ begun[r] = 0
    /\ told[r] \in {"none", "unknown"}
    /\ begun' = [begun EXCEPT ![r] = 1]
    /\ UNCHANGED <<sent, outcome, told>>

Finish(r) ==
    /\ begun[r] = 1
    /\ outcome[r] = {}
    /\ \E res \in {"ok", "failed"} : outcome' = [outcome EXCEPT ![r] = {res}]
    /\ UNCHANGED <<sent, begun, told>>

Tell(r) ==
    /\ r \in sent
    /\ told[r] = "none"
    /\ \E a \in outcome[r] \cup {"unknown"} \cup (IF begun[r] = 0 THEN {"refused"} ELSE {}) :
          told' = [told EXCEPT ![r] = a]
    /\ UNCHANGED <<sent, begun, outcome>>

\* A node goes down: all its clients are left without an answer.
Disconnect(S) ==
    /\ \A r \in S : r \in sent /\ told[r] = "none"
    /\ told' = [r \in Req |-> IF r \in S THEN "unknown" ELSE told[r]]
    /\ UNCHANGED <<sent, begun, outcome>>

Next ==
    \/ \E r \in Req : Send(r) \/ Begin(r) \/ Finish(r) \/ Tell(r)
    \/ \E S \in SUBSET Req : Disconnect(S)

Spec == Init /\ [][Next]_vars
=============================================================================
