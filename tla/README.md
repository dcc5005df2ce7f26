# A TLA+ verification of minidb

minidb (`src/minidb`) is a small distributed key-value store in Python: a
Redis-like command interface, an elected write leader, quorum replication with
read repair, gossip membership, shard migration over a hash ring, and
persistence by an append-only file (AOF) and snapshots, with rate limiting,
fault injection and anti-entropy repair around them. This directory holds TLA+
models of these parts, the TLC configurations that check them on small
instances, and TLAPS proofs about the election, replicated writes and reads, the
forwarding of writes, the storage of a node, membership, shard migration, the rate
limiters, fault injection, Merkle trees and the version vectors. `PROJECT.json` lists the runs, the source lines each definition stands
for, the mutants that show each property can fail, and the hazards the properties
are for.

## 1. Inventory

| Component | State it keeps | Operations | Interacts with | What makes it correct |
|---|---|---|---|---|
| Election (`cluster/election.py`) | role, term, vote, leader id, per process, volatile | election timeout, vote request, heartbeat, FAILOVER | peers through `coordinator.py`; membership for the cluster size | one winner per term; a leader won its term; elections end |
| Replicated write (`node.py` `_apply_partition_write`, `cluster/replication.py`) | pending acknowledgements, staged entries, write sequence, async queue | prepare, commit, apply | election (who leads), membership (targets), store | acknowledged writes are on a quorum; nothing uncommitted is visible |
| Reads and repair (`cluster/read_coordinator.py`, `node.py`) | none between requests | QUORUM, ALL, ANY, STRONG reads; background repair | stores of the replicas on the ring | reads are not older than what was acknowledged; repair does not regress |
| Store (`storage/kv_store.py`) | key to value, version, expiry | set, delete, get, expiry, capture, load | everything | – |
| AOF and snapshot (`storage/`) | the two files, their backups, the open handle | append, fsync, replay, compact; save, load | store, maintenance thread, `stop()` | acknowledged operations survive |
| Membership (`cluster/membership.py`) | record per known node | JOIN, gossip round, gossip receipt | connection pool; feeds election, writes and ring | failures are found, live nodes are not declared dead, nodes that join are seen |
| Migration (`sharding/migration.py`) | tasks | rebalance, execute, cancel | store, ring, remote import | no key is lost or set back while it moves |
| Ring, partitions, router (`sharding/`) | virtual nodes, addresses, health | add, remove, lookup | membership via `_sync_topology` | lookups agree with the members |
| Write forwarding (`node.py` `_coordinate_or_forward_write`, `_forward_write`) | none but the handlers' own | SET, SETEX, DELETE, `__LEADER_WRITE` | election (who leads, by each node's own belief), replicated write, admission | a write is begun at most once; a refusal is final; every client is answered |
| Anti-entropy and Merkle trees (`repair/`) | tree of the last cycle | build, compare; one repair cycle over the peers | store; peers through callbacks the node leaves unset | differences are found; copies become the last write, or at least agree on a version |
| Version vectors (`repair/version_vector.py`) | a counter per node | increment, merge, compare | nothing in the node | compare decides causality |
| Rate limiting (`chaos/rate_limiter.py`) | buckets, windows, rate, latencies, queue depth | `try_acquire` of three limiters, adjust, backpressure | every client message | admitted requests were paid for; no key is locked out |
| Fault injection (`chaos/fault_injection.py`) | faults, peers cut off, switch | inject, clear, enable; asked for every cluster message | FAULT command, cluster messages, process | a partition holds where it is asked for; what is cleared for good leaves no trace |
| CLI, main, config, framing | – | – | – | – |

Hard behaviours: every cluster call is a blocking request with a timeout that
may be handled after the caller gave up; every connection has a thread, and the
locks are per node and per object; terms, staged entries and the write sequence
are lost in a restart; persistence is a chain of renames that a crash may cut;
membership, which decides majorities and targets, is each node's own opinion.

## 2. Modules

| Module | Models | Checked by |
|---|---|---|
| `Election` | term-based election, message by message | `MCElection` |
| `ElectionProofs` | theorems about `Election` | tlapm |
| `Replication` | writes, reads and read repair over unreliable calls | `MCReplication` |
| `ReplicationProofs` | theorems about `Replication` | tlapm |
| `Durable` | abstract: what a node promises about the operations it applied | – |
| `Storage` | store, AOF, snapshot, compaction, crash and recovery of one node; implements `Durable` below the compaction threshold | `MCStorage` |
| `StorageProofs` | theorems about `Storage`, the refinement among them | tlapm |
| `Membership` | gossip, failure detection, JOIN, pooled connections | `MCMembership` |
| `MembershipProofs` | theorems about `Membership` | tlapm |
| `ClientWrite` | abstract: what a client is promised about a write | – |
| `Forwarding` | the way of a write to the leader and back; implements `ClientWrite` | `MCForwarding` |
| `ForwardingProofs` | theorems about `Forwarding`, the refinement among them | tlapm |
| `RateLimiter` | the three limiters and backpressure | `RateLimiter.cfg` |
| `Faults` | the fault injectors of all nodes and the cluster messages between them | `Faults.cfg` |
| `ChaosProofs` | theorems about `RateLimiter` and `Faults` | tlapm |
| `Repair` | Merkle trees and the anti-entropy cycle | `Repair.cfg` |
| `VersionVectors` | increment, merge, compare among replicas | `RepairProofs` |
| `RepairProofs` | theorems about `Repair` and `VersionVectors` | tlapm |
| `Migration` | ring, migration tasks and thread, import and fan-out, beside client writes | `MCMigration` |
| `MigrationProofs` | theorems about `Migration` | tlapm |

**Election.** One election thread per node (`pc` idle, asking, beating).
`StartElection` is the locked first half of `_start_election`; `AskPeer`,
`VoteTimeout` and `VoteResponse` are the loop of `_request_votes`, one peer at a
time; `BecomeLeader` and `LoseElection` are its locked second half.
`HandleVoteRequest` and `ReceiveHeartbeat` are the handlers. A heartbeat carries
the term the node is in when it is sent, as the code does, and not the one in
which the thread found itself leader. `Views` is what a node may see alive. The
ghosts `cast` and `wins` record votes and elections decided. The log of
`election.py` is left out: nothing in the node appends to it, so it is empty.

**Replication.** `writer[n]` is the write that holds `_write_lock` of `n`,
`reader[n]` the GET that holds it. A message stays in `net` after the caller
timed out and may be handled later. An entry is staged by its index and applied
without comparing versions, as in the code. Repairs compare and set in two
steps. Who leads is any sequence of `LeaderSets`; timestamps agree with the
order in which writes start. The leader applies an entry last; if its own append raises there, the write is
applied and reported as failed. `regressed` records what replaced a newer record by
an older one, so that a property can say what holds as long as that does not
happen. The level of the writes is chosen at the start from `WriteLevels`.

**Storage.** An operation is named by the order in which the store applied it;
that number stands for its value everywhere. `ApplyToStore` and `AppendLine` /
`AppendSync` are the two critical sections of `_apply_log_entry`. `saver` is the
progress of the maintenance thread and of `stop()` through
capture, renames and compaction. `Crash` keeps the fsynced lines and any prefix of
the others, possibly with a torn line; a power loss may spoil a snapshot that
was never fsynced. Only writing a file can fail (disk full), renames do not. `stop()`
waits for no handler, so operations may still be applied while it saves and closes,
and their appends raise once the AOF is closed.
`late` records the operations whose value expired, `exposed` those that no file is
bound to keep: the lines compaction drops because they came after its capture,
and what a crash within `compact` left to the snapshot alone (`bare`) once the next
`save` renames that snapshot away. A second kill at that moment finds neither
file, so two kills lose more than the window of one compaction.

**Membership.** Timestamps are kept as ages capped past the last timeout, so
time is unbounded and liveness can be checked. Two stamps of one tick are not
ordered. `Timely` says a round and its messages fit in one tick (the gossip
interval is 1 s, the timeouts 5 s and 15 s). A round goes to a sample of at most
three peers that are not DEAD (`Samples`). `conn` is the pooled connection of
the gossip thread: once the peer's process ends it stays broken, because
`send_message_no_response` leaves `_connected` true. Incarnations are left out:
nothing increments them.

**Migration.** A ring is a set of nodes, one per node of the cluster, and
`Walk[k]` the order in which key `k` meets the nodes (`Before`); `GetNode` and
`GetNodes` are the lookups of `consistent_hash.py`. `AddToRing`,
`RemoveFromRing` and `Rebalance` make tasks as `on_node_join` and
`calculate_rebalance_migrations` do, with ids that carry only the second.
`worker[n]` is the migration thread inside `_execute_migration`: the data it
captured, what is left to send, and then to delete. `ImportCheck`, `ImportSet`
and `ImportFanOut` are `_handle_import_keys`, which takes no lock; `sets` are the
`__REPLICA_SET` calls of its fan-out. A request is handled even if its sender
gave up. `WriteBegin`, `WriteCommit`, `WriteEnd` and `WriteFails` are a client
write as `Replication` has it, without the messages. `mishaps` records a record
deleted that was not the captured one, skipped for an older record of higher
version, or replaced by an older one. A thread may start a task that has been
cancelled, and the end of a task removes whatever has its id, as in the code.

**Forwarding and ClientWrite.** `handler[r]` is the thread of the node the client
of write `r` talks to, `hops[r]` the attempts it made, one after the other: at
the node itself when it leads, else a `__LEADER_WRITE` to whom it takes for the
leader. An attempt goes through the two checks for the leader
(`HandleLeaderWrite`, `CheckWrite`), waits for the write lock (`StartWrite`) and
ends (`FinishWrite`), also when nobody waits for it any more. `Retry` is the
recursion of `_forward_write` after "Leader mismatch". `ForwardTimeout` is
`send_command` returning None. Beliefs about the leader change at any time
(`LeaderChange`). What happens under the write lock is `Replication`'s and has
an arbitrary outcome here. `ClientWrite` states the promise without leaders,
hops and locks: begun at most once, told at most once, OK only after success,
refused only if never begun. Its `sent`, `begun`, `outcome` and `told` are
`entry`, `starts`, the results among the `hops`, and `answer`.

**RateLimiter.** `kind` is the limiter the node was built with. Stamps are kept
as ages capped at `Horizon`, so behaviours are unbounded in time; a token is
`Unit` and a rate what one tick adds, so that a refill may be a fraction of a
token. `UpdateRate` replaces all buckets, as `_update_rate` does. Latencies are
kept as what their average calls for. `UpdateQueueDepth` is the report of the
maintenance loop, `Shed` the random refusal under pressure. The ghosts
`admitted` and `changes` count, for every stretch that ends now, the requests let through and the changes of rate.

**Faults.** Each node's injector (`enabled`, `faults`, `cut`), whom it holds for
DEAD (`dead`, which changes at any time: `Membership` says when), one message per
ordered pair of nodes, and time. A partition is kept twice, as the code does: on
the list of faults and in `cut` (`_partitioned_from`). The sender asks its
injector in `Send`; `SendJoin` is the JOIN, for which `join_cluster` asks nobody.
The receiver asks its own in `Receive`; a delayed message is handled without
asking again. Probabilities are choices. Two ghosts keep what was injected:
`wanted` loses a fault only when that very fault is cleared or all are (one that
has expired counts no more); `lifted` names the peers that `clear_fault` let in although another wanted fault
names them. `PartitionHolds` excepts JOINs at their sender and the peers in
`lifted`, and nothing else; both exceptions are refuted as promises in section 4.

**Repair.** The tree is built level by level as in `merkle.py`, with hashes that
stand for what they hash; the recursion of `_compare_nodes` is a walk that goes down
one level of both trees at a time. `StartCycle`, `PeerDone`, `PeerDiffers`, `FetchKeys`, `SkipKey`,
`AcceptKey`, `SetKey`, `KeysDone` and `EndCycle` are one cycle of a node's repair
thread; writes are applied and calls fail in between. `Wired` says whether the
callbacks to the peers are set. `DatabaseNode` sets neither, so its own cycles
change nothing (`RepairNode.cfg`); with `Wired` the module is about the class
`AntiEntropyManager` with callbacks that do what their signatures say
(`RemoteRoot`, `RemoteKeys`), which nothing in the repository implements. The
cycle compares versions and nothing else, and checks and sets in two steps. The
ghosts `last` and `marred` tell which keys it can still repair in full: `last[k]` is
the record with the highest version written so far, `marred` the keys written at a
node that lagged behind it (two writes may then have one version) or set back by a
repair. `Repaired` asks for `last[k]` everywhere for all other keys, and for these
for one version only; that they need not have one value is shown in section 4.

**VersionVectors.** Replicas increment their own entry, send their vector and
merge what they receive, late, twice or never. `known` records the updates a
replica made or heard of. Nothing in the node uses the class; the module is about
the class.

The modules meet at their constants: `Views` of `Election` and `Replication` is
what `Membership` may produce, `LeaderSets` and the beliefs of `Forwarding` what
`Election` may produce, and the store that survives a restart in `Replication` is
what `Storage` is about. The writes of `Migration` are those of `Replication` with
a stable leader; a `Forwarding` attempt from the write lock on is a write of
`Replication`; its `Reject` is the refusal of `RateLimiter`. Lost and late
messages in `Election`, `Replication` and `Membership` include those `Faults` loses.

## 3. Runs

The twelve runs of `PROJECT.json`; all pass.

| Run | Instance | Shows |
|---|---|---|
| `election` | 2 nodes, any and changing views, 2 terms, 1 restart, fair threads | one winner per term among elections of the whole cluster, a leader won its term, votes are final, elections end |
| `replication_stable` | 1 leader of 3 replicas, QUORUM, 2 writes (SET and DELETE), 1 read, 2 calls in flight, follower restart, leader that sees too few | acknowledged writes are stored and reads are fresh until somebody deletes the key, nothing uncommitted is visible |
| `replication_live` | 2 nodes, ONE and QUORUM, hand-over, SET and DELETE, fair threads | every request is answered |
| `storage_log` | 2 threads with a key each, 2 operations, 2 ends of the process, 2 snapshots (the second leaves a backup), below the compaction threshold | acknowledged operations survive power losses and stops, and the node implements `Durable` |
| `storage_compact` | the same with compaction, 2 operations, 3 snapshots, 2 kills, no `stop()`, fair threads | only what the window between capture and swap and a kill within `compact` expose is lost; no operation waits for the AOF for ever |
| `membership_views` | 3 nodes, 1 crash and restart, 1 partial partition, timely | DEAD means silent for `dead_timeout` |
| `membership_boot` | 3 nodes, JOIN through a seed, 1 crash, fair | discovery and failure detection |
| `migration_move` | 3 nodes with different rings, replication factors 1 and 2, 1 key, 2 writes, 2 tasks, 1 change of a ring, cancellation, fair threads | a move loses an acknowledged write only in the three ways of `mishaps`; tasks end |
| `forwarding` | 2 nodes with any beliefs about the leader, 2 writes, 2 changes of belief, 1 crash, fair threads | a write is begun at most once, answers are true, every write is answered, and the write path implements `ClientWrite` |
| `ratelimit` | all three limiters, 2 keys, refill of 0.7 tokens a tick, pressure and adjustment, unbounded time, keys whose requests keep coming | what is admitted was paid for, a sliding window is never exceeded, no key is locked out (clients that give no id share one key) |
| `faults` | 2 nodes, 2 faults of any kind, 3 switches or clears, partitions with and without duration, fair threads | no message passes a partition, unless it is a JOIN that only its sender would have stopped, or a `clear_fault` of another fault has lifted the partition; once all is cleared for good, messages to peers that are not held for DEAD are handled again |
| `repair` | 2 replicas with callbacks, 3 keys of which one may be missing, trees with 2 and 3 leaves, 2 writes, 1 failed call, fair threads | `compare` finds exactly the differing ranges of replicas with the same keys; copies become the last write, or those of marred keys agree on the version |

**Bounds.** They are the smallest at which each mutant is caught and each
finding appears: two writes to overtake each other (three where a version has to
fall behind), two terms to depose a leader, three snapshots and two kills to
compact, be killed within `compact` and be killed again within the next `save`,
timeouts of one and two ticks to tell SUSPECT from DEAD, two tasks for one to
replace the other, three nodes for an import to fan out to a third. `MaxInFlight`
bounds the calls that are abandoned but still to be handled, `MaxSecond` the
seconds that task ids tell apart (none in `migration_move`, so that tasks of one
kind and target always share their id). `Forwarding` needs two changes of belief
to be refused by one leader and sent to the next; a refill that is no whole token
and a window of one tick are enough to be wrong by a fraction or by one;
three keys in buckets of one are the first tree with an odd leaf. Deadlock
checking is on in `Membership`, `RateLimiter` and `Repair`; the
operations of the other modules are bounded and then stop.

**Fairness.** Election and request threads: weak fairness of the thread's own
steps, which are finite loops of calls that time out; nothing is assumed of the
network. Migration: the same of the migration threads, whose sends have a timeout
of 30 s. Storage: weak fairness of threads, of the maintenance thread and of
`stop()`, and a stopped node is started again. Membership: weak fairness of the
gossip loops, of message handling (TCP delivers or breaks), of time, of starting
nodes joining, and of healing. Forwarding: weak fairness of each attempt's and
each handler's steps; calls have a timeout of 10 s, and a free lock goes to a
thread that waits. RateLimiter: time passes and a refused client tries again; the
draw of `Shed` passes with probability at least one half, so a client that keeps
trying is drawn for. Faults: gossip is sent to peers that are not DEAD and messages are
handled; nobody has to clear a fault, join, or change its mind about a peer. (A
round of gossip reaches three peers, so up to four nodes it reaches all of them;
`Membership` has no more than three.)
Repair: the repair thread loops and each call returns or raises.

## 4. Further configurations

These are in the directory and checked by hand with `tlc -config <file> <module>`,
where the module is the `MC` module of the component if it has one, and else the
component's own; they are not among the runs. TLC stops at the first violation,
so a file that names several properties is run with one of them at a time.

Statements of comments, documents or tests that the code does not keep; the
comment of the property quotes or names the statement:

| File | Property | What happens |
|---|---|---|
| `MCElectionDemote.cfg` | `DemotedOnlyByHigherTerm` | a deposed leader's late heartbeats carry the new term and demote its winner |
| `MCForwardingStated.cfg` | `RetriesOnce` | `node.py:484` says "retry once"; two stale leaders in a row make it retry twice |
| `MCForwardingStated.cfg` | `StartedByLeader` | `node.py:443` routes "every write through the current election leader"; the check is made before waiting for the lock |
| `RateLimiterPressure.cfg` | `PressureReduces` | `rate_limiter.py:264` says "Apply backpressure by reducing rate."; each change hands out a new burst |
| `FaultsStated.cfg` | `ListedHolds` | `fault_injection.py:138` says "Clear a specific fault."; another fault's partition is lifted with it |
| `FaultsStated.cfg` | `ListExplains` | a partition with a duration stays after it; the list does not show it |
| `FaultsStated.cfg` | `SenderHolds` | `fault_injection.py:17` says "Isolate node from others"; a JOIN is sent without asking the injector |
| `RepairKeys.cfg` | `ValuesConverge` | `docs/ARCHITECTURE.md:185` says "Detects and fixes data inconsistencies using Merkle trees."; two records of one version and different values stay |
| `RepairKeys.cfg` | `NeverOlder` | `node.py:1159` says "Apply repaired data from another node."; a write that falls between its check and its set is replaced by an older record |
| `RepairNode.cfg` | `Repaired` | `docs/ARCHITECTURE.md:185` says "Detects and fixes data inconsistencies using Merkle trees."; the node sets no callback to its peers |
| `RepairKeys.cfg` | `MissingFetched` | `anti_entropy.py:112` says "Request keys we might be missing"; the keys asked for are those it has |
| `RepairKeys.cfg` | `MerkleFindsAll` | `merkle.py:29` says "to find divergent keys"; with different key sets the buckets shift, or one tree is empty |
| `MCReplicationStated.cfg` | `AnsweredByEnough` | `node.py:421` says "unreachable majority is an error, not a null hit"; unreachable replicas count towards a read quorum |
| `MCReplicationStaged.cfg` | `VisibleWasCommitted` | `coordinator.py:400` says "do not make the value visible until commit"; a commit applies another leader's staged entry of the same index |
| `MCStorageWindow.cfg` | `AckedSurvives` | `aof.py:3` says "Ensures no committed write is lost"; one acknowledged during the snapshot is dropped by compaction |
| `MCMembershipRejoin.cfg` | `JoinedLearns` | `coordinator.py:128` says "True if joined successfully"; a DEAD node's JOIN is accepted and changes nothing |
| `MCReplicationStated.cfg` | `NoFailedWriteRead` | a follower shows a write that is then reported failed |
| `MCReplicationStated.cfg` | `MostRecentValue` | a late commit puts back an older value |
| `MCReplicationStated.cfg` | `RepairKeepsNewest` | a repair overwrites a commit that came between its check and its set |
| `MCReplicationHandover.cfg` | `FreshRead` | a lagging leader numbers its write below an acknowledged one |
| `MCReplicationDelete.cfg` | `AcknowledgedSetIsRead` | versions restart after DELETE and a stale replica wins |
| `MCReplicationRing.cfg` | `FreshRead` | write acknowledgements from nodes that reads never ask |
| `MCStorageTorn.cfg` | `AckedSurvives` | the first record after a torn line is lost |
| `MCStorageExpiry.cfg` | `ExpiredStaysGone` | an expired SET is skipped by replay and the older value returns |
| `MCStorageOrder.cfg` | `AckedSurvives` | store and AOF disagree on the order of two writes |
| `MCStorageStop.cfg` | `OnlyWindowLost` | one kill while `stop()` and compaction overlap finds neither file and loses everything |
| `MCStoragePower.cfg` | `OnlyWindowLost` | a snapshot that was not fsynced is replaced by an older backup |
| `MCMembershipHeal.cfg` | `PartitionHeals` | after a long partition both sides hold each other for DEAD and stay apart: the premise of `FlowsAgain` is needed |
| `MCMigrationLost.cfg` | `AckedKept` | a write acknowledged after the capture is deleted with the key that moved |

The README of the repository disclaims part of this (failed writes are
indeterminate, elections do not fence, deletes have no tombstones, no
certification against physical storage failures); the configurations make
precise where.

## 5. Proofs

`ElectionProofs` proves for every finite set of nodes, every set of views and
every bound:

- `TypeCorrect`: `Spec => []TypeOK`.
- `LeaderSafety`: `Spec => []LeaderWonItsTerm`. It is inductive with `TypeOK`:
  the handlers that change the term of a node also take the role away.
- `VoteFinality`: `Spec => VoteIsFinal`, an action property, from `TypeOK`.
- `ElectionSafety`: `Spec => []OneWinnerPerTerm`. Uniqueness of the winner is
  not inductive: votes are counted long after they were cast. The invariant
  `VoteInv` says that every vote a candidate holds was cast for it in its
  ballot's term, that a win carries a majority of such votes, and, as long as
  nobody restarted, that a vote cast in the current term of a node is the one it
  remembers and no node cast two votes in a term. Two majorities of the whole
  cluster share a member (from the cardinality theorems of the library), so two
  winners of a term would have one voter's two votes.

The assumptions are those of `Election`: a finite set of nodes, `None` outside
it, views that are sets of nodes, natural bounds.

`ForwardingProofs` proves for any nodes, writes, first beliefs about the leader,
changes of belief and crashes:

- `ForwardingTypes`: `Spec => []TypeOK`.
- `BegunOnce`: `Spec => []AtMostOnce`, and `TruthfulAnswers`:
  `Spec => []AnswersAreTrue`.
- `Refinement`: `Spec => KeepsPromise`, that is, `Forwarding` implements
  `ClientWrite`.

All four rest on one invariant, `IInv`, about each write by itself
(`Consistent`). `Tracked`: every attempt before the last was refused with "Leader
mismatch", which is said before the write is begun; the write was begun exactly
when the last attempt got past the write lock, and was begun once. `Answered`:
the entry node's handler and its answer agree with the attempts, in particular a
refusal leaves no attempt that could still begin the write. An attempt that goes
on is then always the last (`OnlyTheLast`), and so the only one that can begin
it. For the refinement each action has a lemma: an attempt that gets past the
lock is `Begin`, its end `Finish`, an answer `Tell`, a crash `Disconnect`, and
forwarding, retries and changes of leader leave what the client sees alone. The
assumptions are those of `Forwarding`: `None` is no node, the first beliefs name
nodes or `None`, the bounds are natural numbers. The retry is safe because only
"Leader mismatch" is retried: `RetriesOnFailure`, which also retries a write
that failed, is the mutant TLC refutes.

`ChaosProofs` proves, for any keys, rates, bursts, windows, thresholds and
horizon that satisfy the assumptions of `RateLimiter`, `RateTypes`
(`Spec => []TypeOK`), `RateSafety` (`Spec => []RateBound`) and `WindowSafety`
(`Spec => []WindowBound`). `RateBound` alone is not inductive: it says nothing of what the
buckets still hold. `IInv` adds up both: for every key and every stretch, the
requests admitted in it and the tokens its bucket would hold after a refill
are covered by one burst, one more per change of rate in the stretch, and what
its ticks refilled (`PaidFor`); and the limiter's rate and burst never exceed
the largest ones (`Sound`). An acquisition moves a token from one term to the
other, a tick adds at most one rate to both sides, a change of rate adds a burst
to both sides. Each of these is a lemma; the arithmetic of the scaled rates
(`FractionShrinks`, `WholeTokensMonotone`) is separate. For the window the
invariant (`Agrees`) relates the deque to the history: for every stretch within
the window, the last entries of the deque, as many as were admitted in it, and no
others, are as young as the stretch. `_cleanup_window` pops from the front while
entries are too old; since the ages fall along the deque, what it leaves is
exactly what the history counts (`CleanedWindow`).

About `Faults` it proves, for any nodes, durations and kinds of faults,
`FaultsTypes` (`FaultSpec => []FaultTypeOK`) and `PartitionSafety`
(`FaultSpec => []PartitionHolds`, which needs no assumption on the bounds). What
is claimed: no message is handled whose receiver kept the partition since before it
was sent, and none but a JOIN whose sender kept it then. To keep a partition
(`Keeps`) is to be asked for it and not let in by a `clear_fault` of another
fault; that such a `clear_fault` opens a partition which is still wanted is the
code's behaviour, not excluded by the theorem but excepted in it (`ListedHolds` is the
promise it breaks). The invariant has two parts. `WantedIsCut`: every peer a wanted
fault names is either refused or in `lifted`; overwriting a fault of the same id,
`clear_fault` and `clear_all_faults` each have their step. `MailRemembers`: only a JOIN
was sent past a sender that kept the partition, and a message is remembered as parted
by its receiver only as long as that keeps the partition and has not let it pass; the check
the receiver makes refuses it (`KeepsMeansCut`).

`ReplicationProofs` proves, for any nodes, keys, replication factor, views, read
levels and bounds:

- `ReplicationTypes`: `Spec => []TypeOK`, for any succession of leaders.
- `StagedIsInvisible`: `Spec => []VisibleWasCommitted` under `StableLeader(l)`: no
  other node ever leads and the process of `l` does not restart.
- `AcknowledgedIsStored`: `Spec => []AckedIsStored` if, besides, everyone `l` may see
  is a replica of the key (`WithinReplicas`; with as many replicas as nodes it is
  true of any views).
- `ReadsAreFresh`: `Spec => []FreshRead` under the same conditions, for reads of keys that
  nobody has deleted; other keys may be deleted.

Each hypothesis is needed: `MCReplicationStaged.cfg` and `MCReplicationHandover.cfg`
drop the stable leader, `MCReplicationRing.cfg` the replicas, and TLC finds the property violated; that keys
which were deleted have no part in it is needed too: `MCReplicationDelete.cfg` has a
read that misses an acknowledged SET after a DELETE. Followers may restart, calls and answers may be lost, and a message may
be handled long after its caller gave up.

The invariants are stated over everything that has an entry (threads, staged
entries, messages, the async queue: `HasEntry`) or a record (stores, answers of
GETs under way, repairs: `HasCopy`); `StepShape` and `CopySource` say, action by
action, where those of the next state come from. `StableInv`: entries with one index
are one entry, so a commit always applies the entry it carries, and what is sent as a
commit is being committed. `AcksInv`: the acknowledgements of a commit phase are at
most the targets that were called, are not waited for and have the write or a later
one (`Holders`); it is not inductive without `StoresGrow`, that records only get
newer unless `regressed` says otherwise. For reads three invariants are needed.
`VersionInv`: among all records of a key in the system later writes have no smaller
version, none is above the leader's by more than one, and a write has a greater
version than those acknowledged before it started. `ReaderInv`: answers come from
different replicas. `WitnessInv`: for every write a GET must see there are still as many
replicas as the write level asks for that have it and have not answered with
something older, so whatever answers come last, the read quorum meets one of them
(`FinishIsFresh`, with two majorities intersecting from the library). The greatest
(version, timestamp) of the answers exists because both are bounded (`BestAnswer`).

`StorageProofs` proves four theorems about one node, for any threads, keys,
bounds and thresholds:

- `StorageTypes`: `Spec => []TypeOK`.
- `AckedSurvivesCrashes`: `[]AckedSurvives` if writers of one key follow each other
  (`OwnKeys`), lines are not torn (`~Tear`) and the node stays below the
  compaction threshold. `BaseInv` says that values everywhere (store, snapshot,
  backup, captures) are those of SETs of their key; `LogInv` that every
  acknowledged operation has a fsynced line, that lines are in the order of the
  operations of a key, and that the store covers every line. Replay takes the last
  line of a key, whatever snapshot it starts from.
- `DurabilityRefined`: `Spec => KeepsAcked` under the same conditions, that is,
  `Storage` implements `Durable`. The store, the operations, the acknowledged and
  the expired ones are mapped to themselves; files, locks, threads and captures do
  not appear. `ApplyToStore` is `Apply`, the fsync of a synced append is
  `Acknowledge`, `cleanup_expired_keys` and a capture are `Drop`, the end of the process
  is `Fail`, `Recover` is `Restart`; all others do not show (`StepKeeps`). `Restart`
  needs the invariant: what replay makes of snapshot and AOF shows all that was
  acknowledged (`RecoveredShows`, from `LogInv`) and consists of values of SETs that have
  not expired (`RecoveredGenuine`, from `BaseInv`).
- `WindowOnly`: `[]OnlyWindowLost` with compaction, for any number of kills, under
  `OwnKeys`, `~Tear`, without `stop()` and power losses. `WinInv` has four parts:
  which file exists in which step of the maintenance thread (`FilesInv`); every
  acknowledged operation that is not exposed is held by the AOF, or no older line
  would hide the snapshot that has it (`DiskInv`); the store covers it while the
  process runs (`StoreInv`); and the captured data covers what was there at the
  capture, the rest having its line in the AOF (`CaptureInv`). The attempt to
  prove it with `exposed` as the window alone failed for the second kill described
  above: hence `bare`.

The hypotheses are the ones under which the runs pass; section 4 has the
configurations in which each of them is dropped and the property fails.

`MembershipProofs` proves `MembershipTypes` (`Spec => []TypeOK`) and `SilenceFirst`:
`Spec => DeadMeansSilent` where messages take less than a tick (`Timely`). The
invariant `HeardInv` compares each record with what was really heard: a record is
never older than the last sign of life, records that are DEAD are older than
`dead_timeout`, in the tables and in the messages, and a message carries its
sender as ALIVE and of age 0. So the merge of a gossiped table cannot make a
record older than the silence it stands for.

`MigrationProofs` proves `MigrationTypes` (`Spec => []TypeOK`) and
`MovesLoseByMishap`: `Spec => []LostOnlyByMishap`, for any nodes, keys, rings (also
different ones at different nodes), replication factors, batch sizes and numbers of
writes, tasks and cancellations. A task always sends a key to a node its walk
meets earlier (`Forward`; `FirstNode` and `LaterNode` derive it from the lookups),
and this is what makes the argument work: `Safe(n, k, x)` says that a node met
before `n` has a record of `k` as new as `x`, or a mishap is on record, so a chain
of moves cannot lead back to `n`, and a copy that is deleted after it was sent is
safe at an earlier node, which may in turn delete its own only when it is safe at a
node earlier still (`SafeKeeps`). `MoveInv` adds that a request of a task carries
what the thread captured and its number is not used again (`TaskOK`, `RequestOK`),
so that a late answer to an abandoned batch is never taken for one of another
task; that keys handled by a target are safe (`HandledSafe`); and that keys the
thread has an answer for are safe (`SentSafe`), which `DeleteKey` needs.

`RepairProofs` proves three theorems about the package repair/:

- `RepairTypes`: `Spec => []TypeOK` of `Repair`, its ghosts included.
- `MerkleSafety`: `Spec => []MerkleFinds`. The invariant needed of the cycle is
  only that stores hold finitely many integer keys; what is hard is the algorithm.
  Two trees over the same keys are built level by level from as many leaves, so at
  every level their nodes correspond (`LevelsOK`): a pair at the same place is a pair
  of leaves or has two such pairs below it, whose hashes it combines, and each level
  is shorter than the one below. A bucket that differs has a content found nowhere
  else in either tree (`Separate`), so a pair above it never agrees. The walk goes on
  only to pairs further down and leaves no differing leaf behind (`DescendKeeps`); after as many
  levels as there are keys only leaves are left (`CompareFinds`). `BucketCount` and
  `OneBucket` show that the sorted keys in runs of `bucket_size` fall into the number
  of buckets the code computes, the last one short. The levels are a recursive
  function on an interval; the induction is on the least level at which a claim
  fails (`Least`, `Induction`), over a set, which the provers can instantiate.
- `Causality`: `V!Spec => []V!ComparesCausally` of `VersionVectors`, for any replicas
  and any number of updates. The invariant is that every vector, held or on its
  way, stands for exactly the updates at or below its entries (`StandsFor`):
  `Increment` adds one update, `Merge` is their union, and two vectors compare as
  those sets do.

Every invariant and every action property of a passing run, and both refinements, are
theorems. Only model-checked: liveness, which is beyond the prover.

## 6. Not modelled, and the plan

Not modelled: ANY and STRONG reads; `__OWNER_WRITE` and `_revert_partition_write`, which
nothing in the program sends or calls; the unused log of `election.py`; the router; client deletes and
expiry during a move; `RebalanceCoordinator`; disk faults, pauses and clock skew
of the fault injector; the rounding of floats and clocks that are set back;
command parsing, framing, the CLI, the entry point and configuration (no state
of their own, or pure I/O); the demonstration scripts.

Next: ANY and STRONG reads in `Replication`, and the router as a function of
membership.
