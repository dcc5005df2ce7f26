----------------------------- MODULE MCElection -----------------------------
(* Instances of Election for TLC: two or three nodes, a few terms. *)
EXTENDS Election, TLC

(* Every node always sees the whole cluster alive. *)
FullViews == {Node}

(* Failure detectors may be wrong: any set of nodes may be seen alive. *)
AnyViews == SUBSET Node

Symmetry == Permutations(Node)

-----------------------------------------------------------------------------
(* A statement of the repository that the code does not keep. *)

(* docs/ARCHITECTURE.md: a LEADER becomes FOLLOWER when it "discovers      *)
(* higher term" (or steps down, which leaves no leader).                   *)
DemotedOnlyByHigherTerm ==
    [][\A n \in Node :
         role[n] = "LEADER" /\ role'[n] # "LEADER"
            => \/ currentTerm'[n] > currentTerm[n]
               \/ leaderId'[n] = None]_vars
=============================================================================
