------------------------------- MODULE Repair -------------------------------
(***************************************************************************)
(* Anti-entropy repair (package repair/): the Merkle tree over the records *)
(* of a node and the cycle in which the AntiEntropyManager compares its    *)
(* tree with the one of each peer, asks the peer for its records and       *)
(* applies the newer ones.                                                 *)
(*                                                                         *)
(* The manager reaches its peers through two callbacks.  DatabaseNode sets *)
(* neither (Wired = FALSE): its cycles build a tree and change nothing.    *)
(* With Wired = TRUE they are what their signatures say: the tree of the   *)
(* peer, and those records of the peer whose keys were asked for.  Nothing *)
(* in the repository implements them, so what is checked with Wired = TRUE *)
(* is what the manager does once somebody sets them.                       *)
(*                                                                         *)
(* Writes reach a node past the manager, at any time.  A call to a peer    *)
(* may fail.  Hashes do not collide: the hash of a leaf stands for what it *)
(* hashes, the hash of a parent for the hashes of its children.            *)
(***************************************************************************)
EXTENDS Integers, Sequences, FiniteSets, FiniteSetsExt

CONSTANTS
    Node,
    Key,            \* keys, as numbers: they are sorted
    Initial,        \* the sets of keys a replica may hold at first
    BucketSizes,    \* bucket_size of the trees that are compared; the manager's
                    \* trees have one bucket
    Wired,          \* the callbacks to the peers are set
    MaxWrites,      \* bound: writes
    MaxFailures     \* bound: calls to a peer that fail

ASSUME RepairAssumption ==
    /\ IsFiniteSet(Node)
    /\ Key \subseteq Nat /\ IsFiniteSet(Key)
    /\ Initial \subseteq SUBSET Key
    /\ BucketSizes \subseteq Nat \ {0}
    /\ Wired \in BOOLEAN
    /\ MaxWrites \in Nat /\ MaxFailures \in Nat

VARIABLES
    data,        \* data[n]: the records of n, key -> (value, version)
    root,        \* root[n]: the root hash of _merkle_tree of n
    stage,       \* stage[n]: where the cycle of n is
    peers,       \* peers[n]: the peers of this cycle still to come
    seen,        \* seen[n]: local_data of _repair_with_peer
    todo,        \* todo[n]: the remote records still to be looked at
    picked,      \* picked[n]: the key about to be set, if any
    last,        \* history: last[k], the record of k with the highest version yet
    marred,      \* history: the keys written at a node that lagged behind, so that
                 \* two writes may have one version, or set back by a repair
    writes, failures

history == <<last, marred>>
vars == <<data, root, stage, peers, seen, todo, picked, history, writes, failures>>

NoRecords == [k \in {} |-> 0]
Version(d, k) == IF k \in DOMAIN d THEN d[k].version ELSE 0

-----------------------------------------------------------------------------
(* Merkle trees.  A node is its hash (the set of the buckets below it), the *)
(* first and last key below it, and its two children (none for a leaf).     *)

\* The leaves: the sorted keys in runs of bucket_size.
Bucket(keys, size, i) ==
    {k \in keys : (Cardinality({j \in keys : j < k}) \div size) + 1 = i}
Leaves(d, size) ==
    [i \in 1 .. (Cardinality(DOMAIN d) + size - 1) \div size |->
        LET keys == Bucket(DOMAIN d, size, i) IN
        [hash |-> {{<<k, d[k].value, d[k].version>> : k \in keys}},
         range |-> <<Min(keys), Max(keys)>>,
         children |-> <<>>]]

\* One level up: neighbours get a parent, a last odd one moves up.
Parent(left, right) ==
    [hash |-> left.hash \cup right.hash,
     range |-> <<left.range[1], right.range[2]>>,
     children |-> <<left, right>>]
Parents(nodes) ==
    LET pairs == Len(nodes) \div 2
    IN [i \in 1 .. pairs |-> Parent(nodes[2 * i - 1], nodes[2 * i])]
          \o SubSeq(nodes, 2 * pairs + 1, Len(nodes))

\* _build_tree: level by level; the root alone is its own next level.
Levels(nodes) ==
    LET level[h \in 0 .. Len(nodes) - 1] ==
            IF h = 0 THEN nodes ELSE Parents(level[h - 1])
    IN level
BuildTree(nodes) == Levels(nodes)[Len(nodes) - 1][1]

\* build, for records that are not empty
Build(d, size) == BuildTree(Leaves(d, size))

\* get_root_hash; None is the empty set
RootHash(d, size) == IF DOMAIN d = {} THEN {} ELSE Build(d, size).hash

\* A pair of nodes to compare: agreeing hashes stop the walk, a leaf ends it.
Stops(p) == p[1].hash = p[2].hash
Leaf(p) == <<>> \in {p[1].children, p[2].children}
Below(p, i) == <<p[1].children[i], p[2].children[i]>>

\* A mutant of Descend: the walk goes to the first child that differs only.
DescendFirst(p) ==
    IF Stops(p) THEN {}
    ELSE IF Leaf(p) THEN {p}
    ELSE {IF Stops(Below(p, 1)) THEN Below(p, 2) ELSE Below(p, 1)}

\* _compare_nodes of one pair: the pairs it calls itself with, or the pair that
\* it reports
Descend(p) ==
    IF Stops(p) THEN {}
    ELSE IF Leaf(p) THEN {p}
    ELSE {Below(p, 1), Below(p, 2)}

\* _compare_nodes: the ranges of the first tree that differ, found level by level
\* in trees of at most so many levels
WalkDown(pairs) == UNION {Descend(p) : p \in pairs}
Walk(start, levels) ==
    LET walk[i \in 0 .. levels] ==
            IF i = 0 THEN start ELSE WalkDown(walk[i - 1])
    IN walk
CompareNodes(node1, node2, levels) ==
    {p[1].range : p \in Walk({<<node1, node2>>}, levels)[levels]}

\* compare; a tree has no more levels than keys
Compare(d1, d2, size) ==
    IF DOMAIN d1 = {} \/ DOMAIN d2 = {} THEN {}
    ELSE CompareNodes(Build(d1, size), Build(d2, size), Cardinality(DOMAIN d1))

\* get_keys_in_range, get_keys_for_repair
KeysInRanges(d, ranges) == {k \in DOMAIN d : \E r \in ranges : r[1] <= k /\ k <= r[2]}

-----------------------------------------------------------------------------
(* What the callbacks answer, get_remote_merkle and get_remote_keys: nothing   *)
(* in the repository implements them.                                          *)

RemoteRoot(m) == RootHash(data[m], Cardinality(Key) + 1)
RemoteKeys(m, keys) == [k \in DOMAIN data[m] \cap keys |-> data[m][k]]

-----------------------------------------------------------------------------
(* The repair cycle *)

\* Replicas may miss keys; the copies they have are the same.
Init ==
    /\ \E has \in [Node -> Initial] :
          /\ data = [n \in Node |-> [k \in has[n] |-> [value |-> 0, version |-> 1]]]
          /\ last = [k \in Key |-> [value |-> 0,
                version |-> IF \E n \in Node : k \in has[n] THEN 1 ELSE 0]]
    /\ root = [n \in Node |-> {}]
    /\ stage = [n \in Node |-> "idle"]
    /\ peers = [n \in Node |-> {}]
    /\ seen = [n \in Node |-> NoRecords]
    /\ todo = [n \in Node |-> NoRecords]
    /\ picked = [n \in Node |-> {}]
    /\ marred = {}
    /\ writes = 0
    /\ failures = 0

\* A write is applied at n, with the version that follows the one n holds.
Write(n, k) ==
    LET record == [value |-> writes + 1, version |-> Version(data[n], k) + 1]
        newest == record.version > last[k].version IN
    /\ writes < MaxWrites
    /\ writes' = writes + 1
    /\ data' = [data EXCEPT ![n] =
          [j \in DOMAIN @ \cup {k} |-> IF j = k THEN record ELSE @[j]]]
    /\ last' = IF newest THEN [last EXCEPT ![k] = record] ELSE last
    /\ marred' = IF newest THEN marred ELSE marred \cup {k}
    /\ UNCHANGED <<root, stage, peers, seen, todo, picked, failures>>

\* A mutant of StartCycle: the node is a peer of itself.
StartCycleWithSelf(n) ==
    /\ stage[n] = "idle"
    /\ root' = [root EXCEPT ![n] = RootHash(data[n], Cardinality(Key) + 1)]
    /\ stage' = [stage EXCEPT ![n] = "compare"]
    /\ peers' = [peers EXCEPT ![n] = Node]
    /\ UNCHANGED <<data, seen, todo, picked, history, writes, failures>>

\* _run_repair_cycle: build the tree, then go through the peers.
StartCycle(n) ==
    /\ stage[n] = "idle"
    /\ root' = [root EXCEPT ![n] = RootHash(data[n], Cardinality(Key) + 1)]
    /\ stage' = [stage EXCEPT ![n] = "compare"]
    /\ peers' = [peers EXCEPT ![n] = Node \ {n}]
    /\ UNCHANGED <<data, seen, todo, picked, history, writes, failures>>

EndCycle(n) ==
    /\ stage[n] = "compare" /\ peers[n] = {}
    /\ stage' = [stage EXCEPT ![n] = "idle"]
    /\ UNCHANGED <<data, root, peers, seen, todo, picked, history, writes, failures>>

\* _repair_with_peer returns before it changes anything: a callback is missing,
\* the roots are equal, or the peer's is None (the lookup of its hash raises).
PeerDone(n, m) ==
    /\ stage[n] = "compare" /\ m \in peers[n]
    /\ ~Wired \/ RemoteRoot(m) \in {root[n], {}}
    /\ peers' = [peers EXCEPT ![n] = @ \ {m}]
    /\ UNCHANGED <<data, root, stage, seen, todo, picked, history, writes, failures>>

\* The roots differ: keep the local records and ask for the keys.
PeerDiffers(n, m) ==
    /\ stage[n] = "compare" /\ m \in peers[n]
    /\ Wired /\ RemoteRoot(m) \notin {root[n], {}}
    /\ seen' = [seen EXCEPT ![n] = data[n]]
    /\ stage' = [stage EXCEPT ![n] = "fetch"]
    /\ UNCHANGED <<data, root, peers, todo, picked, history, writes, failures>>

\* The peer answers; its records are gone through one by one.
FetchKeys(n, m) ==
    /\ stage[n] = "fetch" /\ m \in peers[n]
    /\ todo' = [todo EXCEPT ![n] = RemoteKeys(m, DOMAIN seen[n])]
    /\ peers' = [peers EXCEPT ![n] = @ \ {m}]
    /\ stage' = [stage EXCEPT ![n] = "apply"]
    /\ UNCHANGED <<data, root, seen, picked, history, writes, failures>>

\* A call to the peer raises: the repair with this peer is given up.
PeerFails(n, m) ==
    /\ failures < MaxFailures
    /\ failures' = failures + 1
    /\ Wired
    /\ stage[n] \in {"compare", "fetch"} /\ m \in peers[n]
    /\ peers' = [peers EXCEPT ![n] = @ \ {m}]
    /\ stage' = [stage EXCEPT ![n] = "compare"]
    /\ UNCHANGED <<data, root, seen, todo, picked, history, writes>>

Drop(n, k) == todo' = [todo EXCEPT ![n] = [j \in DOMAIN @ \ {k} |-> @[j]]]

\* A mutant of SkipKey: a record is skipped when its version is one newer.
SkipKeyAtNext(n, k) ==
    /\ stage[n] = "apply" /\ k \in DOMAIN todo[n]
    /\ todo[n][k].version <= Version(seen[n], k) + 1
    /\ Drop(n, k)
    /\ UNCHANGED <<data, root, stage, peers, seen, picked, history, writes, failures>>

\* The record is not newer than the kept one, or _apply_repair_data finds a
\* newer one in the store.  (It stamps the record with the present time, so
\* among equal versions the repair wins.)
SkipKey(n, k) ==
    /\ stage[n] = "apply" /\ k \in DOMAIN todo[n]
    /\ \/ todo[n][k].version <= Version(seen[n], k)
       \/ todo[n][k].version < Version(data[n], k)
    /\ Drop(n, k)
    /\ UNCHANGED <<data, root, stage, peers, seen, picked, history, writes, failures>>

\* It is newer than both; the store is set in a second step.
AcceptKey(n, k) ==
    /\ stage[n] = "apply" /\ k \in DOMAIN todo[n]
    /\ todo[n][k].version > Version(seen[n], k)
    /\ todo[n][k].version >= Version(data[n], k)
    /\ stage' = [stage EXCEPT ![n] = "set"]
    /\ picked' = [picked EXCEPT ![n] = {k}]
    /\ UNCHANGED <<data, root, peers, seen, todo, history, writes, failures>>

SetKey(n, k) ==
    /\ stage[n] = "set" /\ k \in picked[n]
    /\ data' = [data EXCEPT ![n] =
          [j \in DOMAIN @ \cup {k} |-> IF j = k THEN todo[n][k] ELSE @[j]]]
    /\ marred' = IF Version(data[n], k) > todo[n][k].version THEN marred \cup {k} ELSE marred
    /\ Drop(n, k)
    /\ picked' = [picked EXCEPT ![n] = {}]
    /\ stage' = [stage EXCEPT ![n] = "apply"]
    /\ UNCHANGED <<root, peers, seen, last, writes, failures>>

KeysDone(n) ==
    /\ stage[n] = "apply" /\ DOMAIN todo[n] = {}
    /\ stage' = [stage EXCEPT ![n] = "compare"]
    /\ seen' = [seen EXCEPT ![n] = NoRecords]
    /\ UNCHANGED <<data, root, peers, todo, picked, history, writes, failures>>

\* What the repair thread of n does by itself
RepairStep(n) ==
    \/ StartCycle(n) \/ EndCycle(n) \/ KeysDone(n)
    \/ \E m \in Node : PeerDone(n, m) \/ PeerDiffers(n, m) \/ FetchKeys(n, m)
    \/ \E k \in Key : SkipKey(n, k) \/ AcceptKey(n, k) \/ SetKey(n, k)

Next ==
    \E n \in Node :
        \/ RepairStep(n)
        \/ \E m \in Node : PeerFails(n, m)
        \/ \E k \in Key : Write(n, k)

Spec == Init /\ [][Next]_vars

\* The repair thread loops for ever and every call it makes returns or raises.
FairSpec == Spec /\ \A n \in Node : WF_vars(RepairStep(n))
-----------------------------------------------------------------------------
Record == [value : 0 .. MaxWrites, version : 1 .. MaxWrites + 1]

TypeOK ==
    /\ \A n \in Node : \A d \in {data[n], seen[n], todo[n]} :
          DOMAIN d \subseteq Key /\ \A k \in DOMAIN d : d[k] \in Record
    /\ stage \in [Node -> {"idle", "compare", "fetch", "apply", "set"}]
    /\ peers \in [Node -> SUBSET Node]
    /\ \A n \in Node : /\ n \notin peers[n]
                       /\ picked[n] \subseteq DOMAIN todo[n]
                       /\ stage[n] = "set" <=> picked[n] # {}
    /\ last \in [Key -> [value : 0 .. MaxWrites, version : 0 .. MaxWrites + 1]]
    /\ marred \subseteq Key
    /\ writes \in 0 .. MaxWrites /\ failures \in 0 .. MaxFailures

\* MerkleTree.compare finds the divergent keys of two replicas that hold the same
\* keys: every record that differs lies in a range it returns, and every range
\* holds one that differs, for trees with an odd number of leaves too.
Differs(d1, d2) == {k \in DOMAIN d1 : d1[k] # d2[k]}
MerkleFinds ==
    \A n, m \in Node : \A size \in BucketSizes :
        n # m /\ DOMAIN data[n] = DOMAIN data[m] =>
            LET ranges == Compare(data[n], data[m], size) IN
            /\ Differs(data[n], data[m]) \subseteq KeysInRanges(data[n], ranges)
            /\ \A r \in ranges :
                  KeysInRanges(data[n], {r}) \cap Differs(data[n], data[m]) # {}

\* Once the callbacks are set and the writes have stopped, the repair cycles bring
\* the copies of a key together, however writes, failed calls and the cycles of
\* other nodes fell between comparing, fetching, checking and setting, and although
\* the tree of a cycle is not rebuilt after the repair with a peer: if every write
\* of the key was made where its newest record was, and none fell between the check
\* and the set of a repair (NeverOlder), all copies become the last one written;
\* otherwise they agree on a version, and no more (ValuesConverge).
Repaired ==
    <>[](\A n, m \in Node : \A k \in DOMAIN data[n] \cap DOMAIN data[m] :
            IF k \in marred THEN data[n][k].version = data[m][k].version
                            ELSE data[n][k] = last[k])

\* "Detects and fixes data inconsistencies using Merkle trees." (ARCHITECTURE.md):
\* the copies of a key end up equal.  Refuted by one write at each of two nodes:
\* the versions are equal, and the cycles compare nothing else.
ValuesConverge ==
    <>[](\A n, m \in Node : \A k \in DOMAIN data[n] \cap DOMAIN data[m] :
            data[n][k] = data[m][k])

\* "Apply repaired data from another node." (_apply_repair_data): a repair replaces
\* no record by an older one.  Refuted by a write between its check and its set.
NeverOlder ==
    [][\A n \in Node : \A k \in DOMAIN data[n] :
          data'[n][k].version >= data[n][k].version]_vars

\* "Request keys we might be missing" (_repair_with_peer): what one replica has,
\* every replica gets.  Refuted: the keys asked for are those it has.
MissingFetched == <>[](\A n, m \in Node : DOMAIN data[n] = DOMAIN data[m])

\* "Used for anti-entropy repair to find divergent keys." (MerkleTree): whatever
\* the replicas hold, a divergent key lies in a range.  Refuted as soon as their
\* keys differ: the buckets are shifted, or one tree is empty.
MerkleFindsAll ==
    \A n, m \in Node : \A size \in BucketSizes :
        {k \in DOMAIN data[n] : k \notin DOMAIN data[m] \/ data[n][k] # data[m][k]}
            \subseteq KeysInRanges(data[n], Compare(data[n], data[m], size))
=============================================================================
