---------------------------- MODULE MCMembership ----------------------------
(* Instances of Membership for TLC. *)
EXTENDS Membership, TLC

CONSTANTS a, b, c   \* the nodes; a is the seed

(* Every node but a joins through a. *)
SeedA == [n \in Node |-> IF n = a THEN None ELSE a]
NoPartition == {}
(* b cannot talk to c while both talk to a. *)
RelayCut == {{{b, c}}}
PairCut == {{{a, b}}}

-----------------------------------------------------------------------------
(* A statement of the repository that the code does not keep. *)

(* "Tolerates network partitions": once a partition has healed for good,   *)
(* two nodes that knew each other see each other ALIVE again.              *)
PartitionHeals ==
    \A n, m \in Node :
        [](members[n][m].state = "DEAD" /\ {n, m} \subseteq up
             => <>(members[n][m].state = "ALIVE" \/ {n, m} \ up # {}))
=============================================================================
