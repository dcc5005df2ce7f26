----------------------------- MODULE MCStorage ------------------------------
(* Instances of Storage for TLC. *)
EXTENDS Storage, TLC

CONSTANTS t1, t2, k1, k2   \* the threads and the keys

(* Each thread writes a key of its own. *)
OwnKeys == (t1 :> {k1}) @@ (t2 :> {k2})
(* All threads write all keys. *)
SharedKeys == [t \in Thread |-> Key]
(* Exchanging the threads together with their own keys. *)
Swap == {p \in Permutations(Thread \cup Key) :
            \A t \in Thread : /\ p[t] \in Thread
                              /\ {p[k] : k \in OwnKeys[t]} = OwnKeys[p[t]]}

-----------------------------------------------------------------------------
(* docs/ARCHITECTURE.md: after replay the "Database [is] fully recovered". *)
(* A value that an acknowledged SET replaced does not come back when that  *)
(* SET expires.  Replay does not keep this; the README says where.         *)
ExpiredStaysGone ==
    phase # "down" => \A i \in acked \cap late : Reflected(i)
=============================================================================
