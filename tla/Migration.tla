------------------------------ MODULE Migration -----------------------------
(***************************************************************************)
(* Shard migration: the hash ring (sharding/consistent_hash.py), the       *)
(* migration tasks (sharding/migration.py), and the handlers of node.py    *)
(* that import, fan out and delete the keys that move.                     *)
(*                                                                         *)
(* Every node has a ring of its own, which _sync_topology makes follow the *)
(* membership.  A node that comes to the ring, or REBALANCE, makes a task  *)
(* of the keys that belong elsewhere; the migration thread sends what it   *)
(* captured of them to the owner, in batches, and then deletes the keys    *)
(* whose replica it is not.  Commits of client writes, other imports and   *)
(* changes of the ring come in between.                                    *)
(*                                                                         *)
(* Of the ring only the order in which a key meets the nodes matters: with *)
(* some nodes absent the others are met in the same order.  Of a client    *)
(* write there is the choice of its version under the write lock, the      *)
(* commits at followers, and the end at the leader, which stays the same   *)
(* (the module Replication has the messages).  As there, a record is the   *)
(* write it came from, whose number stands for updated_at, and its version.*)
(***************************************************************************)
EXTENDS Integers, FiniteSets, Sequences

CONSTANTS
    Node, Key,
    Walk,                \* Walk[k]: the nodes in the order k meets them
    Leader,              \* the node that coordinates writes
    StartRings,          \* the rings the nodes may have at first
    Factors,             \* the values of config.replication_factor
    BatchSize,           \* batch_size of _execute_migration
    MayCancel,           \* whether cancel_migration is called
    MaxWrites, MaxTasks, MaxSecond, MaxRingChanges   \* bounds

ASSUME MigrationAssumption ==
    /\ IsFiniteSet(Node) /\ Leader \in Node
    /\ Walk \in [Key -> Seq(Node)]
    /\ \A k \in Key :
          /\ Node = {Walk[k][i] : i \in 1 .. Len(Walk[k])}
          /\ \A i, j \in 1 .. Len(Walk[k]) : Walk[k][i] = Walk[k][j] => i = j
    /\ \A r \in StartRings : r \in [Node -> SUBSET Node]
                             /\ \A n \in Node : n \in r[n]
    /\ Factors \subseteq Nat \ {0} /\ BatchSize \in Nat \ {0}
    /\ MayCancel \in BOOLEAN
    /\ {MaxWrites, MaxTasks, MaxSecond, MaxRingChanges} \subseteq Nat

VARIABLES
    factor,    \* config.replication_factor, the same at every node
    ring,      \* ring[n]: the nodes on the ring of n
    store,     \* store[n][k]: the record of k in the KVStore of n
    active,    \* active[n]: _active_migrations of n
    worker,    \* worker[n]: the migration thread of n
    imports,   \* __IMPORT_KEYS requests being handled
    sets,      \* __REPLICA_SET requests of the fan-out
    created,   \* number of tasks made so far
    second,    \* int(time.time())
    writing,   \* the write that holds the _write_lock of the leader
    hist,      \* history: hist[w] is the key of write w
    acked,     \* history: the writes answered with OK
    mishaps,   \* history: writes that lost a copy, and how
    changes    \* number of ring changes so far

requests == <<imports, sets>>
counters == <<factor, created, second, changes>>
writes == <<writing, hist, acked>>
vars == <<ring, store, active, worker, requests, counters, writes, mishaps>>

Absent == [id |-> 0, ver |-> 0]
Record == [id : 0 .. MaxWrites, ver : 0 .. MaxWrites]
Data == [Key -> Record]
TaskId == {"migrate", "rebalance"} \X Node \X (0 .. MaxSecond)
Task == [no : 1 .. MaxTasks, id : TaskId, to : Node, keys : SUBSET Key,
         state : {"PENDING", "IN_PROGRESS", "CANCELLED"}]
NoWrite == [id |-> 0]
NoTask == [pc |-> "idle", todo |-> {}]

-----------------------------------------------------------------------------
(* The ring. *)

(* add_node and remove_node: all points of a node come or go at once. *)
WithNode(r, m) == r \cup {m}
WithoutNode(r, m) == r \ {m}

(* The walk of k meets m before it meets n. *)
Before(k, m, n) ==
    \E i, j \in 1 .. Len(Walk[k]) : i < j /\ Walk[k][i] = m /\ Walk[k][j] = n

(* get_node: the first node of ring r; a ring always holds its own node. *)
GetNode(r, k) == CHOOSE n \in r : \A m \in r \ {n} : Before(k, n, m)

(* get_nodes(key, replication_factor): the nodes of r until they are enough. *)
GetNodes(r, k) == {n \in r : Cardinality({m \in r : Before(k, m, n)}) < factor}

SortsBefore(x, y) == x.ver < y.ver \/ (x.ver = y.ver /\ x.id < y.id)

(* __init__: the ring holds the node itself; as long as there is no key,   *)
(* other nodes come to it without any further effect.                      *)
Init ==
    /\ factor \in Factors /\ ring \in StartRings
    /\ store = [n \in Node |-> [k \in Key |-> Absent]]
    /\ active = [n \in Node |-> {}]
    /\ worker = [n \in Node |-> NoTask]
    /\ imports = {} /\ sets = {}
    /\ created = 0 /\ second = 0 /\ changes = 0
    /\ writing = NoWrite /\ hist = <<>> /\ acked = {}
    /\ mishaps = {}

-----------------------------------------------------------------------------
(* Tasks. *)

LocalKeys(n) == {k \in Key : store[n][k] # Absent}

(* Mutant: a task is added beside the one that has its id. *)
AddTasksBeside(n, kind, keysFor) ==
    LET targets == {m \in Node : keysFor[m] # {}} IN
    /\ created + Cardinality(targets) <= MaxTasks
    /\ created' = created + Cardinality(targets)
    /\ active' = [active EXCEPT ![n] = @ \cup
          {[no |-> created', id |-> <<kind, m, second>>, to |-> m,
            keys |-> keysFor[m], state |-> "PENDING"] : m \in targets}]
    /\ UNCHANGED second

(* self._active_migrations[task_id] = task, for every target that has      *)
(* keys.  The id carries the second, so a task may replace another one.    *)
AddTasks(n, kind, keysFor) ==
    LET targets == {m \in Node : keysFor[m] # {}} IN
    IF targets = {} THEN UNCHANGED <<active, created, second>>
    ELSE /\ created + Cardinality(targets) <= MaxTasks
         /\ second' \in {second, second + 1} \cap (0 .. MaxSecond)
         /\ created' = created + Cardinality(targets)
         /\ \E no \in [targets -> created + 1 .. created'] :
              LET new == {[no |-> no[m], id |-> <<kind, m, second'>>, to |-> m,
                           keys |-> keysFor[m], state |-> "PENDING"] :
                             m \in targets}
              IN /\ \A m1, m2 \in targets : no[m1] = no[m2] => m1 = m2
                 /\ active' = [active EXCEPT ![n] = new \cup
                       {t \in @ : \A u \in new : t.id # u.id}]

(* _sync_topology, a node that is new: the ring takes it in, then          *)
(* on_node_join looks for local keys it now owns.                          *)
AddToRing(n, m) ==
    /\ m \notin ring[n] /\ changes < MaxRingChanges
    /\ changes' = changes + 1
    /\ ring' = [ring EXCEPT ![n] = WithNode(@, m)]
    /\ AddTasks(n, "migrate", [x \in Node |->
          {k \in LocalKeys(n) : x = m /\ GetNode(ring'[n], k) = m}])
    /\ UNCHANGED <<factor, store, worker, requests, writes, mishaps>>

(* _sync_topology, a node that is DEAD or gone; on_node_leave does nothing. *)
RemoveFromRing(n, m) ==
    /\ m \in ring[n] \ {n} /\ changes < MaxRingChanges
    /\ changes' = changes + 1
    /\ ring' = [ring EXCEPT ![n] = WithoutNode(@, m)]
    /\ UNCHANGED <<factor, store, active, worker, requests, created, second,
                   writes, mishaps>>

(* REBALANCE: calculate_rebalance_migrations. *)
Rebalance(n) ==
    LET gone == {k \in LocalKeys(n) : n \notin GetNodes(ring[n], k)} IN
    /\ gone # {}
    /\ AddTasks(n, "rebalance", [m \in Node |->
          {k \in gone : GetNode(ring[n], k) = m}])
    /\ UNCHANGED <<factor, ring, store, worker, requests, changes, writes,
                   mishaps>>

(* cancel_migration marks the task and nothing else. *)
CancelMigration(n, t) ==
    /\ MayCancel
    /\ t \in active[n] /\ t.state \in {"PENDING", "IN_PROGRESS"}
    /\ active' = [active EXCEPT ![n] =
          (@ \ {t}) \cup {[t EXCEPT !.state = "CANCELLED"]}]
    /\ UNCHANGED <<ring, store, worker, requests, counters, writes, mishaps>>

-----------------------------------------------------------------------------
(* The migration thread. *)

(* _migration_loop lists the pending tasks and works through the list. *)
ListPending(n) ==
    LET pending == {t \in active[n] : t.state = "PENDING"} IN
    /\ worker[n] = NoTask /\ pending # {}
    /\ worker' = [worker EXCEPT ![n].todo = pending]
    /\ UNCHANGED <<ring, store, active, requests, counters, writes, mishaps>>

(* _execute_migration begins with one capture of the local data. *)
StartTask(n) ==
    /\ worker[n].pc = "idle"
    /\ \E t \in worker[n].todo :
         /\ \A u \in worker[n].todo : t.no <= u.no
         /\ worker' = [worker EXCEPT ![n] =
               [pc |-> "sending", todo |-> @.todo \ {t}, task |-> t,
                data |-> store[n], left |-> t.keys \cap LocalKeys(n),
                batch |-> {}]]
         /\ active' = [active EXCEPT ![n] =
               {IF u.no = t.no THEN [u EXCEPT !.state = "IN_PROGRESS"] ELSE u :
                  u \in @}]
    /\ UNCHANGED <<ring, store, requests, counters, writes, mishaps>>

(* _send_keys with the next batch: an __IMPORT_KEYS request to the target. *)
SendBatch(n) ==
    /\ worker[n].pc = "sending" /\ worker[n].left # {}
    /\ \E batch \in SUBSET worker[n].left :
         /\ \/ Cardinality(batch) = BatchSize
            \/ batch = worker[n].left /\ Cardinality(batch) < BatchSize
         /\ worker' = [worker EXCEPT ![n].pc = "waiting", ![n].batch = batch]
         /\ imports' = imports \cup
               {[from |-> n, to |-> worker[n].task.to,
                 no |-> worker[n].task.no,
                 keys |-> batch, todo |-> batch, data |-> worker[n].data,
                 checked |-> {}, owned |-> {}, fanned |-> FALSE]}
    /\ UNCHANGED <<ring, store, active, sets, counters, writes, mishaps>>

(* The end of _execute_migration, whatever became of the task: what is     *)
(* active under its id is removed.                                         *)
EndTask(n) ==
    /\ worker' = [worker EXCEPT ![n] = [NoTask EXCEPT !.todo = worker[n].todo]]
    /\ active' = [active EXCEPT ![n] =
          {t \in @ : t.id # worker[n].task.id}]

(* Mutant: a send without a timeout. *)
SendNeverFails(n) == worker[n].pc = "waiting" /\ FALSE /\ UNCHANGED vars

(* Mutant: the result of _send_keys is not looked at. *)
SendFailsUnseen(n) ==
    /\ worker[n].pc = "waiting"
    /\ worker' = [worker EXCEPT ![n].pc = "sending",
                                ![n].left = @ \ worker[n].batch]
    /\ UNCHANGED <<ring, store, active, requests, counters, writes, mishaps>>

(* The target cannot be reached or the answer does not come in time:       *)
(* FAILED.  The request may still be handled.                              *)
SendFails(n) ==
    /\ worker[n].pc = "waiting"
    /\ EndTask(n)
    /\ UNCHANGED <<ring, store, requests, counters, writes, mishaps>>

(* After the last batch: which keys this node is no replica of. *)
DecideDelete(n) ==
    /\ worker[n].pc = "sending" /\ worker[n].left = {}
    /\ worker' = [worker EXCEPT ![n].pc = "deleting", ![n].left =
          {k \in worker[n].task.keys : n \notin GetNodes(ring[n], k)}]
    /\ UNCHANGED <<ring, store, active, requests, counters, writes, mishaps>>

Mishap(rec, cause) == [id |-> rec.id, cause |-> cause]

(* _delete_migrated_keys, one key: whatever the store holds by now. *)
DeleteKey(n, k) ==
    /\ worker[n].pc = "deleting" /\ k \in worker[n].left
    /\ worker' = [worker EXCEPT ![n].left = @ \ {k}]
    /\ store' = [store EXCEPT ![n][k] = Absent]
    /\ mishaps' = IF store[n][k] \in {Absent, worker[n].data[k]} THEN mishaps
                  ELSE mishaps \cup {Mishap(store[n][k], "unsent")}
    /\ UNCHANGED <<ring, active, requests, counters, writes>>

(* COMPLETED *)
FinishTask(n) ==
    /\ worker[n].pc = "deleting" /\ worker[n].left = {}
    /\ EndTask(n)
    /\ UNCHANGED <<ring, store, requests, counters, writes, mishaps>>

-----------------------------------------------------------------------------
(* The target of a migration: _handle_import_keys. *)

Overwrite(n, k, rec) ==
    /\ store' = [store EXCEPT ![n][k] = rec]
    /\ mishaps' = IF rec.id >= store[n][k].id THEN mishaps
                  ELSE mishaps \cup {Mishap(store[n][k], "overwritten")}

(* An entry that sorts before the record of the target is skipped. *)
ImportCheck(i, k) ==
    LET mine == store[i.to][k] IN
    /\ i \in imports /\ k \in i.todo /\ i.checked = {}
    /\ IF SortsBefore(i.data[k], mine)
         THEN /\ imports' = (imports \ {i}) \cup {[i EXCEPT !.todo = @ \ {k}]}
              /\ mishaps' = IF i.data[k].id < mine.id THEN mishaps
                            ELSE mishaps \cup {Mishap(i.data[k], "outranked")}
         ELSE /\ imports' = (imports \ {i}) \cup {[i EXCEPT !.checked = {k}]}
              /\ UNCHANGED mishaps
    /\ UNCHANGED <<ring, store, active, worker, sets, counters, writes>>

(* Otherwise it is set, and fanned out later if the target is the owner. *)
ImportSet(i, k) ==
    /\ i \in imports /\ i.checked = {k}
    /\ Overwrite(i.to, k, i.data[k])
    /\ imports' = (imports \ {i}) \cup
          {[i EXCEPT !.checked = {}, !.todo = @ \ {k},
                     !.owned = IF GetNode(ring[i.to], k) = i.to
                                 THEN @ \cup {k} ELSE @]}
    /\ UNCHANGED <<ring, active, worker, sets, counters, writes>>

(* _replicate_value_to_nodes: any of the requests may be lost. *)
ImportFanOut(i) ==
    /\ i \in imports /\ i.todo = {} /\ ~ i.fanned
    /\ imports' = (imports \ {i}) \cup {[i EXCEPT !.fanned = TRUE]}
    /\ \E sent \in SUBSET {[to |-> m, key |-> k, rec |-> i.data[k],
                            checked |-> FALSE] : m \in Node, k \in i.owned} :
         /\ \A s \in sent : s.to \in GetNodes(ring[i.to], s.key) \ {i.to}
         /\ sets' = sets \cup sent
    /\ UNCHANGED <<ring, store, active, worker, counters, writes, mishaps>>

(* The answer goes back; it counts if the sender still waits for it. *)
ImportAnswer(i) ==
    /\ i \in imports /\ i.fanned
    /\ imports' = imports \ {i}
    /\ \/ /\ worker[i.from].pc = "waiting" /\ worker[i.from].task.no = i.no
          /\ worker[i.from].batch = i.keys
          /\ worker' = [worker EXCEPT ![i.from].pc = "sending",
                                      ![i.from].left = @ \ i.keys]
       \/ UNCHANGED worker
    /\ UNCHANGED <<ring, store, active, sets, counters, writes, mishaps>>

(* _handle_replica_set at a replica: compare, then set. *)
ReplicaSetCheck(s) ==
    /\ s \in sets /\ ~ s.checked
    /\ sets' = (sets \ {s}) \cup
          (IF SortsBefore(s.rec, store[s.to][s.key]) THEN {}
           ELSE {[s EXCEPT !.checked = TRUE]})
    /\ UNCHANGED <<ring, store, active, worker, imports, counters, writes,
                   mishaps>>

ReplicaSet(s) ==
    /\ s \in sets /\ s.checked
    /\ sets' = sets \ {s}
    /\ Overwrite(s.to, s.key, s.rec)
    /\ UNCHANGED <<ring, active, worker, imports, counters, writes>>

(* _apply_partition_write: refused until the ring is large enough; the     *)
(* version follows the one the leader holds.                               *)
WriteBegin(k) ==
    /\ writing = NoWrite /\ Len(hist) < MaxWrites
    /\ Cardinality(ring[Leader]) >= factor
    /\ hist' = Append(hist, k)
    /\ writing' = [id |-> Len(hist'), done |-> {}, key |-> k,
                   rec |-> [id |-> Len(hist'),
                            ver |-> store[Leader][k].ver + 1]]
    /\ UNCHANGED <<ring, store, active, worker, requests, counters, acked,
                   mishaps>>

(* A follower applies the committed entry. *)
WriteCommit(n) ==
    /\ writing # NoWrite /\ n \notin writing.done \cup {Leader}
    /\ store' = [store EXCEPT ![n][writing.key] = writing.rec]
    /\ writing' = [writing EXCEPT !.done = @ \cup {n}]
    /\ UNCHANGED <<ring, active, worker, requests, counters, hist, acked,
                   mishaps>>

(* With a quorum of commits, its own included, the leader applies the      *)
(* entry and answers OK.                                                   *)
WriteEnd ==
    /\ writing # NoWrite
    /\ Cardinality(writing.done) + 1 >= factor \div 2 + 1
    /\ store' = [store EXCEPT ![Leader][writing.key] = writing.rec]
    /\ acked' = acked \cup {writing.id}
    /\ writing' = NoWrite
    /\ UNCHANGED <<ring, active, worker, requests, counters, hist, mishaps>>

(* Too few commits were answered: an error, whatever was applied. *)
WriteFails ==
    /\ writing # NoWrite /\ factor \div 2 + 1 > 1
    /\ writing' = NoWrite
    /\ UNCHANGED <<ring, store, active, worker, requests, counters, hist,
                   acked, mishaps>>

-----------------------------------------------------------------------------
WorkerStep(n) ==
    \/ ListPending(n) \/ StartTask(n) \/ SendBatch(n) \/ SendFails(n)
    \/ DecideDelete(n) \/ FinishTask(n)
    \/ \E k \in Key : DeleteKey(n, k)

ImportStep ==
    \E i \in imports : \/ ImportFanOut(i) \/ ImportAnswer(i)
                       \/ \E k \in Key : ImportCheck(i, k) \/ ImportSet(i, k)

Next ==
    \/ \E n \in Node :
         \/ \E m \in Node : AddToRing(n, m) \/ RemoveFromRing(n, m)
         \/ Rebalance(n)
         \/ \E t \in active[n] : CancelMigration(n, t)
         \/ WorkerStep(n)
    \/ ImportStep
    \/ \E s \in sets : ReplicaSetCheck(s) \/ ReplicaSet(s)
    \/ \E k \in Key : WriteBegin(k)
    \/ \E n \in Node : WriteCommit(n)
    \/ WriteEnd \/ WriteFails

Spec == Init /\ [][Next]_vars

(* The migration threads keep running; their calls time out. *)
FairSpec == Spec /\ \A n \in Node : WF_vars(WorkerStep(n))

-----------------------------------------------------------------------------
WorkerType ==
    [pc : {"idle"}, todo : SUBSET Task] \cup
    [pc : {"sending", "waiting", "deleting"}, todo : SUBSET Task, task : Task,
     data : Data, left : SUBSET Key, batch : SUBSET Key]

(* Type invariant: rings, stores, tasks and requests have the shape        *)
(* consistent_hash.py, kv_store.py and migration.py give them, task ids    *)
(* are unique within _active_migrations, a node is on its own ring, and    *)
(* the keys a thread has left to send or delete belong to its task.        *)
TypeOK ==
    /\ factor \in Factors
    /\ ring \in [Node -> SUBSET Node] /\ \A n \in Node : n \in ring[n]
    /\ store \in [Node -> Data]
    /\ active \in [Node -> SUBSET Task]
    /\ \A n \in Node : \A t, u \in active[n] : t.id = u.id => t = u
    /\ worker \in [Node -> WorkerType]
    /\ \A n \in Node : worker[n].pc # "idle" =>
          worker[n].left \subseteq worker[n].task.keys
    /\ imports \subseteq
          [from : Node, to : Node, no : 1 .. MaxTasks, keys : SUBSET Key,
           todo : SUBSET Key, data : Data, checked : SUBSET Key,
           owned : SUBSET Key, fanned : BOOLEAN]
    /\ sets \subseteq [to : Node, key : Key, rec : Record, checked : BOOLEAN]
    /\ created \in 0 .. MaxTasks /\ second \in 0 .. MaxSecond
    /\ changes \in 0 .. MaxRingChanges
    /\ hist \in Seq(Key) /\ Len(hist) <= MaxWrites
    /\ acked \subseteq 1 .. Len(hist)
    /\ writing \in {NoWrite} \cup [id : 1 .. MaxWrites, key : Key,
                                   rec : Record, done : SUBSET Node]
    /\ mishaps \subseteq [id : 1 .. MaxWrites,
                          cause : {"unsent", "outranked", "overwritten"}]

(* Write w, or a later one of its key, is in some store. *)
Kept(w) == \E n \in Node : store[n][hist[w]].id >= w

(* What moving a key can lose is bounded: whatever tasks, cancellations,   *)
(* lost answers and changes of the ring do, the last copy of an            *)
(* acknowledged write goes only when _delete_migrated_keys deletes a       *)
(* record that came after the capture, when the target skipped it for a    *)
(* record of a higher version, or when a check-then-set overwrote it.      *)
LostOnlyByMishap ==
    \A w \in acked :
        Kept(w) \/ \E x \in mishaps : x.id >= w /\ hist[x.id] = hist[w]

(* Every task ends: one that is PENDING or IN_PROGRESS is completed,       *)
(* fails, is replaced or cancelled, whatever its target does.              *)
TaskEnds ==
    \A n \in Node, i \in 1 .. MaxTasks :
        LET open == \E t \in active[n] : t.no = i /\ t.state # "CANCELLED"
        IN  open ~> ~ open
=============================================================================
