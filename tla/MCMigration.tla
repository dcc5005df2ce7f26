---------------------------- MODULE MCMigration -----------------------------
(* Instances of Migration for TLC. *)
EXTENDS Migration, TLC

CONSTANTS a, b, c, k1, k2   \* the nodes (a leads) and the keys

(* Every key meets the leader last: it is replica of a key only as long as *)
(* the ring is small.                                                      *)
LeaderLast ==
    [k \in Key |-> SelectSeq(<<c, b, a>>, LAMBDA n : n \in Node)]

(* Every node has only itself on its ring. *)
Alone == {[n \in Node |-> {n}]}

(* a and b know each other, c has yet to come and knows only b. *)
CIsNew == {[n \in Node |-> IF n = c THEN {b, c} ELSE {a, b}]}

(* What _delete_migrated_keys says of itself, "Delete migrated keys after  *)
(* successful transfer": an acknowledged write is not lost by a move.      *)
AckedKept == \A w \in acked : Kept(w)
=============================================================================
