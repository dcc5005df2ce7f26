---------------------------- MODULE Replication -----------------------------
(***************************************************************************)
(* The replicated write and read paths of minidb.                          *)
(*                                                                         *)
(* A write is coordinated by a node that believes it is the leader         *)
(* (node.py, _apply_partition_write): under its write lock it numbers the  *)
(* entry, sends a PREPARE to every member it sees alive, then a COMMIT,    *)
(* and applies the entry locally when enough commits were confirmed.       *)
(* A follower stages a prepared entry by its index and applies what it     *)
(* staged when the commit for that index arrives (coordinator.py,          *)
(* handle_cluster_message).  A GET at any node collects answers from the   *)
(* replicas of the key on the ring, returns the greatest (version,         *)
(* timestamp), and repairs the older answers (read_coordinator.py).        *)
(*                                                                         *)
(* Every call is synchronous with a timeout, on its own connection: it may *)
(* be lost, its response may be lost, and it may still be handled after    *)
(* the caller gave up.  Who leads is any succession of LeaderSets (the     *)
(* module Election says which are possible), what a node sees alive is any *)
(* of Views.  Clocks agree: the timestamp of a write is its number in the  *)
(* order in which writes start, so it also identifies the write.  The      *)
(* store of a node survives a restart (the module Storage); staged entries *)
(* and the write sequence do not.                                          *)
(***************************************************************************)
EXTENDS Integers, FiniteSets, Sequences

CONSTANTS
    Node, Key, None,
    Replicas,            \* Replicas[k]: the RF nodes of key k on the ring
    ReplicationFactor,   \* config.replication_factor
    WriteLevels,         \* values of config.default_consistency
    ReadLevels,          \* consistency levels GET is used with
    Ops,                 \* operations clients use: SET, DELETE
    LeaderSets,          \* sets of nodes that may lead at the same time
    Views,               \* sets of members a node may see alive
    MayRestart,          \* nodes whose process may restart
    MaxWrites, MaxReads, MaxRestarts, MaxInFlight   \* bounds

ASSUME ReplicationAssumption ==
    /\ IsFiniteSet(Node) /\ None \notin Node
    /\ ReplicationFactor \in 1 .. Cardinality(Node)
    /\ Replicas \in [Key -> SUBSET Node]
    /\ \A k \in Key : Cardinality(Replicas[k]) = ReplicationFactor
    /\ WriteLevels \subseteq {"ONE", "QUORUM", "ALL"}
    /\ ReadLevels \subseteq {"QUORUM", "ALL"}
    /\ Ops \subseteq {"SET", "DELETE"}
    /\ LeaderSets \subseteq SUBSET Node /\ Views \subseteq SUBSET Node
    /\ MayRestart \subseteq Node
    /\ {MaxWrites, MaxReads, MaxRestarts, MaxInFlight} \subseteq Nat

VARIABLES
    consistency, \* config.default_consistency, the level of every write
    leaders,     \* nodes whose election manager says they lead
    store,       \* store[n][k]: the record of k in the KVStore of n
    staged,      \* staged[n]: the entries of _staged_replicates
    seq,         \* _write_sequence
    writer,      \* the coordinated write that holds _write_lock of n
    reader,      \* the GET that holds _write_lock of n
    net,         \* REPLICATE messages in flight
    repairs,     \* repair writes in flight
    queue,       \* _async_queue
    hist,        \* history: hist[i] is the i-th write started
    acked,       \* history: writes answered OK
    failed,      \* history: writes answered with an error
    committing,  \* history: writes whose commit phase started
    regressed,   \* history: what replaced a record by an older one
    answer,      \* history: the last GET answered
    reads, restarts

nodeState == <<leaders, store, staged, seq>>
messages == <<net, repairs, queue>>
outcome == <<acked, failed>>
vars == <<consistency, nodeState, writer, reader, messages, hist, outcome,
          committing, regressed, answer, reads, restarts>>

(* A record is the write that put it there and its version; 0 is no key. *)
Absent == [id |-> 0, ver |-> 0]
WriteId == 1 .. MaxWrites
Record == [id : 0 .. MaxWrites, ver : 0 .. MaxWrites]
Entry == [id : WriteId, op : {"SET", "DELETE"}, key : Key,
          ver : 1 .. MaxWrites, index : 1 .. MaxWrites, coord : Node]
Message == [phase : {"prepare", "commit"}, to : Node, entry : Entry]
Repair == [to : Node, key : Key, rec : Record, checked : BOOLEAN]
Answer == [node : Node, rec : Record, real : BOOLEAN]

NoWrite == [pc |-> "idle"]
NoRead == [pc |-> "idle"]
NoAnswer == [key |-> None]

(* _metadata_sort_key and _result_sort_key; the coordinator id never       *)
(* decides because timestamps differ.                                      *)
SortsBefore(a, b) == a.ver < b.ver \/ (a.ver = b.ver /\ a.id < b.id)

(* required_total of replicate and _apply_partition_write, and the number  *)
(* of answers _read_quorum and _read_all ask for.                          *)
Required(level) ==
    CASE level = "QUORUM" -> ReplicationFactor \div 2 + 1
      [] level = "ALL" -> ReplicationFactor
      [] OTHER -> 1

View(n) == {v \cup {n} : v \in Views}

Init ==
    /\ consistency \in WriteLevels
    /\ leaders \in LeaderSets
    /\ store = [n \in Node |-> [k \in Key |-> Absent]]
    /\ staged = [n \in Node |-> {}]
    /\ seq = [n \in Node |-> 0]
    /\ writer = [n \in Node |-> NoWrite]
    /\ reader = [n \in Node |-> NoRead]
    /\ net = {} /\ repairs = {}
    /\ queue = [n \in Node |-> <<>>]
    /\ hist = <<>>
    /\ acked = {} /\ failed = {} /\ committing = {} /\ regressed = {}
    /\ answer = NoAnswer
    /\ reads = 0 /\ restarts = 0

(* _write_lock is held by one write or one read of the node. *)
LockFree(n) == writer[n] = NoWrite /\ reader[n] = NoRead

(***************************************************************************)
(* Applying.  _apply_log_entry replaces the record whatever its version.   *)
(***************************************************************************)
EntryRecord(e) == IF e.op = "SET" THEN [id |-> e.id, ver |-> e.ver] ELSE Absent

Put(n, k, rec, cause) ==
    /\ store' = [store EXCEPT ![n][k] = rec]
    /\ regressed' = IF rec # Absent /\ rec.id < store[n][k].id
                      THEN regressed \cup {cause} ELSE regressed

ApplyEntry(n, e) == Put(n, e.key, EntryRecord(e), "commit")

(***************************************************************************)
(* _apply_partition_write, up to the first message.  The entry takes the   *)
(* next index of this node and the version after the local one.            *)
(***************************************************************************)
NextVersion(n, k) == store[n][k].ver + 1

Started(n, op, k) ==
    /\ n \in leaders
    /\ LockFree(n)
    /\ Len(hist) < MaxWrites
    /\ seq' = [seq EXCEPT ![n] = @ + 1]
    /\ hist' = Append(hist, [op |-> op, key |-> k, seen |-> acked])

(* Targets seen alive a moment ago are not all alive any more, or there    *)
(* are fewer of them than acknowledgements needed: nothing is sent.        *)
RefuseWrite(n, op, k) ==
    /\ Started(n, op, k)
    /\ \E v1, v2 \in View(n) :
         \/ ~ (v1 \subseteq v2)
         \/ /\ consistency # "ONE"
            /\ Cardinality(v1) < Required(consistency)
    /\ failed' = failed \cup {Len(hist) + 1}
    /\ UNCHANGED <<consistency, leaders, store, staged, writer, reader,
                   messages, acked, committing, regressed, answer, reads,
                   restarts>>

BeginWrite(n, op, k) ==
    /\ Started(n, op, k)
    /\ \E view \in View(n) :
         LET targets == view \ {n}
             e == [id |-> Len(hist) + 1, op |-> op, key |-> k,
                   ver |-> NextVersion(n, k), index |-> seq[n] + 1, coord |-> n]
             sync == Required(consistency) > 1
         IN /\ sync => Cardinality(view) >= Required(consistency)
            /\ writer' = [writer EXCEPT ![n] =
                   [pc |-> IF sync THEN "prepare" ELSE "commit", entry |-> e,
                    targets |-> targets, todo |-> targets, wait |-> None,
                    acks |-> 0]]
            /\ committing' = IF sync THEN committing ELSE committing \cup {e.id}
            /\ queue' = IF consistency = "ONE" /\ targets # {}
                          THEN [queue EXCEPT ![n] =
                                  Append(@, [entry |-> e, targets |-> targets])]
                          ELSE queue
    /\ UNCHANGED <<consistency, leaders, store, staged, reader, net, repairs,
                   outcome, regressed, answer, reads, restarts>>

(***************************************************************************)
(* _replicate_to_followers and commit_to_followers: one call after another.*)
(***************************************************************************)
Message0(n, m) == [phase |-> writer[n].pc, to |-> m, entry |-> writer[n].entry]

RoomInFlight == Cardinality(net) < MaxInFlight

SendReplicate(n, m) ==
    /\ writer[n] # NoWrite
    /\ writer[n].wait = None
    /\ m \in writer[n].todo
    /\ \/ /\ RoomInFlight
          /\ net' = net \cup {Message0(n, m)}
          /\ writer' = [writer EXCEPT ![n].todo = @ \ {m}, ![n].wait = m]
       \/ /\ writer' = [writer EXCEPT ![n].todo = @ \ {m}]
          /\ UNCHANGED net
    /\ UNCHANGED <<consistency, nodeState, reader, repairs, queue, hist,
                   outcome, committing, regressed, answer, reads, restarts>>

(* Mutant: a call without a timeout. *)
NoReplicateTimeout(n) == writer[n] # NoWrite /\ FALSE /\ UNCHANGED vars

ReplicateTimeout(n) ==
    /\ writer[n] # NoWrite
    /\ writer[n].wait # None
    /\ writer' = [writer EXCEPT ![n].wait = None]
    /\ UNCHANGED <<consistency, nodeState, reader, messages, hist, outcome,
                   committing, regressed, answer, reads, restarts>>

(* The response counts if the coordinator still waits for this call. *)
ReplicateResponse(msg) ==
    LET n == msg.entry.coord IN
    \/ /\ writer[n] # NoWrite
       /\ writer[n].wait = msg.to /\ Message0(n, msg.to) = msg
       /\ writer' = [writer EXCEPT ![n].wait = None, ![n].acks = @ + 1]
    \/ UNCHANGED writer

(* Mutant: the entry is applied when it is prepared. *)
EagerPrepare(msg) ==
    /\ msg \in net /\ msg.phase = "prepare"
    /\ net' = net \ {msg}
    /\ ApplyEntry(msg.to, msg.entry)
    /\ ReplicateResponse(msg)
    /\ UNCHANGED <<consistency, leaders, staged, seq, reader, repairs, queue,
                   hist, outcome, committing, answer, reads, restarts>>

(* REPLICATE, phase prepare: stage under the index, replacing what was     *)
(* staged under it.                                                        *)
HandlePrepare(msg) ==
    /\ msg \in net /\ msg.phase = "prepare"
    /\ net' = net \ {msg}
    /\ staged' = [staged EXCEPT ![msg.to] =
           {e \in @ : e.index # msg.entry.index} \cup {msg.entry}]
    /\ ReplicateResponse(msg)
    /\ UNCHANGED <<consistency, leaders, store, seq, reader, repairs, queue,
                   hist, outcome, committing, regressed, answer, reads,
                   restarts>>

(* REPLICATE, phase commit: pop what is staged under the index and apply   *)
(* it, or the entry of the message when nothing is staged.                 *)
ToApply(msg) ==
    LET found == {e \in staged[msg.to] : e.index = msg.entry.index}
    IN IF found = {} THEN msg.entry ELSE CHOOSE e \in found : TRUE

HandleCommit(msg) ==
    /\ msg \in net /\ msg.phase = "commit"
    /\ net' = net \ {msg}
    /\ ApplyEntry(msg.to, ToApply(msg))
    /\ staged' = [staged EXCEPT ![msg.to] =
           {e \in @ : e.index # msg.entry.index}]
    /\ ReplicateResponse(msg)
    /\ UNCHANGED <<consistency, leaders, seq, reader, repairs, queue, hist,
                   outcome, committing, answer, reads, restarts>>

(* The end of replicate. *)
CallsDone(n, phase) ==
    /\ writer[n].pc = phase
    /\ writer[n].todo = {} /\ writer[n].wait = None

(* Mutant: the acknowledgements of the prepares count as commits. *)
PrepareAcksKept(w) == [w EXCEPT !.pc = "commit", !.todo = w.targets]

(* commit_to_followers starts with all targets and no confirmation. *)
EnterCommit(w) == [w EXCEPT !.pc = "commit", !.acks = 0, !.todo = w.targets]

PrepareDone(n) ==
    /\ CallsDone(n, "prepare")
    /\ IF writer[n].acks >= Required(consistency) - 1
         THEN /\ writer' = [writer EXCEPT ![n] = EnterCommit(@)]
              /\ committing' = committing \cup {writer[n].entry.id}
              /\ UNCHANGED failed
         ELSE /\ writer' = [writer EXCEPT ![n] = NoWrite]
              /\ failed' = failed \cup {writer[n].entry.id}
              /\ UNCHANGED committing
    /\ UNCHANGED <<consistency, nodeState, reader, messages, hist, acked,
                   regressed, answer, reads, restarts>>

(* Mutant: one confirmed commit too few. *)
TooFewCommits(n) == writer[n].acks + 2 >= Required(consistency)

(* The end of _apply_partition_write. *)
EnoughCommits(n) == writer[n].acks + 1 >= Required(consistency)

(* The leader applies the entry last; when its AOF cannot be written that  *)
(* raises after the store has changed, and the write is reported as failed *)
(* (module Storage says when).                                             *)
CommitDone(n) ==
    /\ CallsDone(n, "commit")
    /\ writer' = [writer EXCEPT ![n] = NoWrite]
    /\ IF EnoughCommits(n)
         THEN /\ ApplyEntry(n, writer[n].entry)
              /\ \/ /\ acked' = acked \cup {writer[n].entry.id}
                    /\ UNCHANGED failed
                 \/ /\ failed' = failed \cup {writer[n].entry.id}
                    /\ UNCHANGED acked
         ELSE /\ failed' = failed \cup {writer[n].entry.id}
              /\ UNCHANGED <<store, regressed, acked>>
    /\ UNCHANGED <<consistency, leaders, staged, seq, reader, messages, hist,
                   committing, answer, reads, restarts>>

(* _async_replication_loop: the prepares of a level ONE write, sent after  *)
(* the write was answered; any of them may be lost.                        *)
AsyncReplicate(n) ==
    /\ queue[n] # <<>>
    /\ RoomInFlight
    /\ LET w == Head(queue[n]) IN
       \E reached \in SUBSET w.targets :
         net' = net \cup {[phase |-> "prepare", to |-> m, entry |-> w.entry] :
                            m \in reached}
    /\ queue' = [queue EXCEPT ![n] = Tail(@)]
    /\ UNCHANGED <<consistency, nodeState, writer, reader, repairs, hist,
                   outcome, committing, regressed, answer, reads, restarts>>

(***************************************************************************)
(* _handle_get and _read_from_replicas.  The local answer is taken at      *)
(* once, the remote ones arrive in any order until there are enough.       *)
(***************************************************************************)
LocalRead(c, k) == [node |-> c, rec |-> store[c][k], real |-> TRUE]

StartRead(c, k, level) ==
    /\ LockFree(c)
    /\ reads < MaxReads
    /\ reads' = reads + 1
    /\ reader' = [reader EXCEPT ![c] =
           [pc |-> "reading", key |-> k, level |-> level, seen |-> acked,
            todo |-> Replicas[k] \ {c},
            got |-> IF c \in Replicas[k] THEN {LocalRead(c, k)} ELSE {}]]
    /\ UNCHANGED <<consistency, nodeState, writer, messages, hist, outcome,
                   committing, regressed, answer, restarts>>

(* _get_remote_value_for_read: a replica that cannot be reached yields the *)
(* same answer as one that does not have the key.                          *)
RemoteRead(c, m) ==
    /\ reader[c] # NoRead
    /\ m \in reader[c].todo
    /\ Cardinality(reader[c].got) < Required(reader[c].level)
    /\ \E real \in BOOLEAN :
         LET rec == IF real THEN store[m][reader[c].key] ELSE Absent IN
         reader' = [reader EXCEPT
             ![c].todo = @ \ {m},
             ![c].got = @ \cup {[node |-> m, rec |-> rec, real |-> real]}]
    /\ UNCHANGED <<consistency, nodeState, writer, messages, hist, outcome,
                   committing, regressed, answer, reads, restarts>>

(* read_timeout expires before enough answers came: quorum_failed. *)
ReadFails(c) ==
    /\ reader[c] # NoRead
    /\ Cardinality(reader[c].got) < Required(reader[c].level)
    /\ reader' = [reader EXCEPT ![c] = NoRead]
    /\ UNCHANGED <<consistency, nodeState, writer, messages, hist, outcome,
                   committing, regressed, answer, reads, restarts>>

Present(got) == {a \in got : a.rec # Absent}

(* Mutant: the answers are sorted the other way round. *)
BestOldest(got) ==
    IF Present(got) = {} THEN Absent
    ELSE (CHOOSE a \in Present(got) :
            \A b \in Present(got) : ~ SortsBefore(b.rec, a.rec)).rec

Best(got) ==
    IF Present(got) = {} THEN Absent
    ELSE (CHOOSE a \in Present(got) :
            \A b \in Present(got) : ~ SortsBefore(a.rec, b.rec)).rec

(* Repair starts only when versions differ or an answer is missing. *)
Inconsistent(got) ==
    \/ Cardinality({a.rec.ver : a \in Present(got)}) > 1
    \/ Present(got) # got

(* _trigger_read_repair; the repair write of a replica may be lost. *)
RepairsFor(k, got) ==
    IF Present(got) # {} /\ Inconsistent(got)
      THEN {[to |-> a.node, key |-> k, rec |-> Best(got), checked |-> FALSE] :
              a \in {b \in got : SortsBefore(b.rec, Best(got))}}
      ELSE {}

FinishRead(c) ==
    /\ reader[c] # NoRead
    /\ LET r == reader[c] IN
       /\ Cardinality(r.got) >= Required(r.level)
       /\ answer' = [key |-> r.key, rec |-> Best(r.got), seen |-> r.seen,
                     level |-> r.level,
                     real |-> Cardinality({a \in r.got : a.real})]
       /\ \E sent \in SUBSET RepairsFor(r.key, r.got) :
            repairs' = repairs \cup sent
    /\ reader' = [reader EXCEPT ![c] = NoRead]
    /\ UNCHANGED <<consistency, nodeState, writer, net, queue, hist, outcome,
                   committing, regressed, reads, restarts>>

(***************************************************************************)
(* _handle_replica_set and _apply_repair_data: compare with the current    *)
(* record, then write, with no lock held across the two.                   *)
(***************************************************************************)
RepairCheck(r) ==
    /\ r \in repairs /\ ~ r.checked
    /\ repairs' = (repairs \ {r}) \cup
           (IF SortsBefore(r.rec, store[r.to][r.key]) THEN {}
            ELSE {[r EXCEPT !.checked = TRUE]})
    /\ UNCHANGED <<consistency, nodeState, writer, reader, net, queue, hist,
                   outcome, committing, regressed, answer, reads, restarts>>

RepairSet(r) ==
    /\ r \in repairs /\ r.checked
    /\ repairs' = repairs \ {r}
    /\ Put(r.to, r.key, r.rec, "repair")
    /\ UNCHANGED <<consistency, leaders, staged, seq, writer, reader, net,
                   queue, hist, outcome, committing, answer, reads, restarts>>

(***************************************************************************)
(* The environment: leadership moves, processes restart.                   *)
(***************************************************************************)
LeaderChange ==
    /\ leaders' \in LeaderSets \ {leaders}
    /\ UNCHANGED <<consistency, store, staged, seq, writer, reader, messages,
                   hist, outcome, committing, regressed, answer, reads,
                   restarts>>

Restart(n) ==
    /\ n \in MayRestart
    /\ restarts < MaxRestarts
    /\ restarts' = restarts + 1
    /\ staged' = [staged EXCEPT ![n] = {}]
    /\ seq' = [seq EXCEPT ![n] = 0]
    /\ writer' = [writer EXCEPT ![n] = NoWrite]
    /\ reader' = [reader EXCEPT ![n] = NoRead]
    /\ queue' = [queue EXCEPT ![n] = <<>>]
    /\ net' = {msg \in net : msg.to # n}
    /\ repairs' = {r \in repairs : r.to # n}
    /\ UNCHANGED <<consistency, leaders, store, hist, outcome, committing,
                   regressed, answer, reads>>

WriterStep(n) ==
    \/ ReplicateTimeout(n)
    \/ PrepareDone(n)
    \/ CommitDone(n)
    \/ \E m \in Node : SendReplicate(n, m)

ReaderStep(c) ==
    \/ ReadFails(c)
    \/ FinishRead(c)
    \/ \E m \in Node : RemoteRead(c, m)

Next ==
    \/ \E n \in Node :
         \/ \E op \in Ops, k \in Key : RefuseWrite(n, op, k) \/ BeginWrite(n, op, k)
         \/ WriterStep(n)
         \/ AsyncReplicate(n)
         \/ \E k \in Key, level \in ReadLevels : StartRead(n, k, level)
         \/ ReaderStep(n)
         \/ Restart(n)
    \/ \E msg \in net : HandlePrepare(msg) \/ HandleCommit(msg)
    \/ \E r \in repairs : RepairCheck(r) \/ RepairSet(r)
    \/ LeaderChange

Spec == Init /\ [][Next]_vars

(* The thread that serves a client keeps running: its loops are finite and *)
(* every call it makes times out.                                          *)
FairSpec == Spec /\ \A n \in Node : WF_vars(WriterStep(n)) /\ WF_vars(ReaderStep(n))

(***************************************************************************)
(* Properties                                                              *)
(***************************************************************************)

WriterType ==
    [pc : {"prepare", "commit"}, entry : Entry, targets : SUBSET Node,
     todo : SUBSET Node, wait : Node \cup {None}, acks : 0 .. Cardinality(Node)]

ReaderType ==
    [pc : {"reading"}, key : Key, level : ReadLevels, seen : SUBSET WriteId,
     todo : SUBSET Node, got : SUBSET Answer]

(* Types, and: one entry at most is staged under an index, and a phase     *)
(* counts at most one acknowledgement per target.                          *)
TypeOK ==
    /\ consistency \in WriteLevels
    /\ leaders \in LeaderSets
    /\ store \in [Node -> [Key -> Record]]
    /\ \A n \in Node :
         /\ staged[n] \subseteq Entry
         /\ \A d, e \in staged[n] : d.index = e.index => d = e
         /\ writer[n] \in WriterType \cup {NoWrite}
         /\ writer[n] # NoWrite =>
                writer[n].acks <= Cardinality(writer[n].targets)
         /\ reader[n] \in ReaderType \cup {NoRead}
         /\ \A i \in DOMAIN queue[n] : queue[n][i].entry \in Entry
    /\ seq \in [Node -> 0 .. MaxWrites]
    /\ net \subseteq Message
    /\ repairs \subseteq Repair
    /\ acked \subseteq WriteId /\ failed \subseteq WriteId
    /\ committing \subseteq WriteId
    /\ reads \in 0 .. MaxReads /\ restarts \in 0 .. MaxRestarts

(* The writes of key k that were started. *)
WritesOf(k) == {w \in 1 .. Len(hist) : hist[w].key = k}

(* Nobody has deleted k. *)
OnlySets(k) == \A w \in WritesOf(k) : hist[w].op = "SET"

(* An acknowledged SET of a key nobody deletes is where it was counted:    *)
(* committed + 1 of _apply_partition_write nodes really applied it, and    *)
(* nothing short of an older record overwriting a newer one (regressed)    *)
(* takes it away again.                                                    *)
AckedIsStored ==
    regressed = {} =>
        \A k \in Key :
            OnlySets(k) =>
                \A w \in WritesOf(k) \cap acked :
                    Cardinality({n \in Replicas[k] : store[n][k].id >= w})
                        >= Required(consistency)

(* x is superseded for a reader that had seen the writes in seen           *)
(* acknowledged: one of them started after x was acknowledged.             *)
Superseded(x, k, seen) ==
    \E w \in seen : hist[w].key = k /\ (x = 0 \/ x \in hist[w].seen)

(* A GET that enough replicas really answered. *)
ReallyAnswered ==
    answer # NoAnswer /\ answer.real >= Required(answer.level)

(* Whenever the levels of writes and reads overlap, QUORUM with QUORUM or  *)
(* ONE with ALL, a GET that enough replicas answered does not return a     *)
(* value that a write acknowledged before the GET began had replaced, as   *)
(* long as nobody has deleted the key (no tombstone is left) and no        *)
(* replica put an older record in the place of a newer one.                *)
FreshRead ==
    /\ ReallyAnswered /\ regressed = {} /\ OnlySets(answer.key)
    /\ Required(answer.level) + Required(consistency) > ReplicationFactor
    => ~ Superseded(answer.rec.id, answer.key, answer.seen)

(* coordinator.py, REPLICATE: "Stage only - do not make the value visible  *)
(* until commit".  Every record in a store belongs to a write whose        *)
(* prepare phase succeeded.                                                *)
VisibleWasCommitted ==
    \A n \in Node, k \in Key :
        store[n][k] # Absent => store[n][k].id \in committing

(* node.py, _handle_get: "unreachable majority is an error, not a null     *)
(* hit".  A GET that is answered had answers from enough replicas.         *)
AnsweredByEnough == answer # NoAnswer => ReallyAnswered

(* Every write and every GET is answered: no loop of the client thread     *)
(* waits forever and _write_lock is always released.                       *)
EveryRequestEnds == \A n \in Node : []<> LockFree(n)
=============================================================================
