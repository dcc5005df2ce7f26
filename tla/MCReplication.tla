--------------------------- MODULE MCReplication ----------------------------
(* Instances of Replication for TLC. *)
EXTENDS Replication, TLC

CONSTANTS l, f1, f2, k1   \* the nodes (l leads first) and the key

(* The full ring: every node is a replica of every key. *)
AllReplicas == [k \in Key |-> Node]

(* A larger cluster: the leader is not a replica of the key. *)
OffLeader == [k \in Key |-> Node \ {l}]

StableLeader == {{l}}
Handover == {{l}, {f1}}
FullView == {Node}
(* f2 is always seen alive, the other two do not see each other. *)
PairViews == {{f2}}
(* Every follower is sometimes believed dead. *)
LonelyViews == {Node, {l}}
(* The leader sees f1 alive only. *)
OnlyF1 == {{f1}}
(* The leader sees one follower alive, now one and now the other. *)
OneFollower == {{f1}, {f2}}
Followers == Node \ {l}
Nobody == {}
FollowerSymmetry == Permutations({f1, f2})

-----------------------------------------------------------------------------
(* Statements of the repository that the code does not keep in some        *)
(* instances; the README says in which.                                    *)

(* docs/consistency-models.md: QUORUM reads "from a majority of replica    *)
(* nodes and return the most recent value".                                *)
MostRecentValue ==
    ReallyAnswered /\ OnlySets(answer.key)
        => ~ Superseded(answer.rec.id, answer.key, answer.seen)

(* tests/test_quorum_raw.py: "After a successful SET under default QUORUM, *)
(* a bare GET (no level) must return the acknowledged value", also when    *)
(* the key was deleted and set again in between.                           *)
AcknowledgedSetIsRead ==
    ReallyAnswered /\ regressed = {}
        => ~ \E w \in answer.seen :
                /\ hist[w].op = "SET" /\ hist[w].key = answer.key
                /\ answer.rec.id \in hist[w].seen

(* node.py, _handle_get: "GETs never observe a half-applied write that     *)
(* will later fail and leave no client ACK".                               *)
NoFailedWriteRead == answer # NoAnswer => answer.rec.id \notin failed

(* docs/consistency-models.md: read repair updates "stale nodes"; it never *)
(* replaces a newer record.                                                *)
RepairKeepsNewest == "repair" \notin regressed
=============================================================================
