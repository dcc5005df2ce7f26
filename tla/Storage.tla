------------------------------ MODULE Storage -------------------------------
(***************************************************************************)
(* The persistence of one minidb node: the in-memory KVStore, the          *)
(* append-only file (storage/aof.py), the snapshot (storage/snapshot.py),  *)
(* and the recovery and maintenance of node.py.                            *)
(*                                                                         *)
(* Applying an operation is two critical sections: the store changes under *)
(* the store's lock, then a line is appended under the lock of the AOF.    *)
(* The maintenance thread captures the store, saves the snapshot and       *)
(* compacts the AOF from what it captured.  The process may end at any     *)
(* point and recovers from the files.                                      *)
(*                                                                         *)
(* An operation is named by its number in the order in which the store     *)
(* applied it, so the number stands for its key, value, version and        *)
(* expiry.  A value of the store, of a snapshot or of the AOF is such a    *)
(* number; 0 is no key in the store, and a line no parser accepts in the   *)
(* AOF.                                                                    *)
(***************************************************************************)
EXTENDS Integers, FiniteSets, Sequences, SequencesExt

CONSTANTS
    Key, Thread, None,
    KeysOf,            \* KeysOf[t]: the keys thread t writes
    Ops,               \* operations used: SET, DELETE
    Syncs,             \* values of append's sync parameter
    TTLs,              \* whether values may expire
    Crashes,           \* how the process ends: kill, power
    Tear,              \* whether a crash may leave part of a line
    MayStop,           \* whether stop() is called
    CompactThreshold,  \* _compact_threshold
    MaxOps, MaxRestarts, MaxSaves     \* bounds

ASSUME StorageAssumption ==
    /\ KeysOf \in [Thread -> SUBSET Key]
    /\ Ops \subseteq {"SET", "DELETE"}
    /\ Syncs \subseteq BOOLEAN /\ TTLs \subseteq BOOLEAN
    /\ Tear \in BOOLEAN /\ MayStop \in BOOLEAN
    /\ Crashes \subseteq {"kill", "power"}
    /\ None \notin Thread /\ "maintenance" \notin Thread \cup {None}
    /\ {CompactThreshold, MaxOps, MaxRestarts, MaxSaves} \subseteq Nat

VARIABLES
    phase,     \* "running", "stopping" (in stop()) or "down"
    mem,       \* mem[k]: the operation whose value KVStore holds
    thr,       \* the operation each thread is applying
    aof,       \* the lines of appendonly.aof
    synced,    \* how many of them are known to be on disk
    torn,      \* the file ends in the middle of a line
    file,      \* _file: "open", "closed", or "none"
    lock,      \* who holds the lock of AOFPersistence
    entries,   \* _entries_since_compact
    snap,      \* snapshot.db.gz
    bak,       \* snapshot.db.gz.bak
    fresh,     \* snap may still be in the page cache only
    saver,     \* progress of the maintenance thread and of stop()
    hist,      \* history: the operations applied
    acked,     \* history: operations _apply_log_entry returned from
    late,      \* history: values whose expiry time has passed
    exposed,   \* history: operations no file was bound to keep, see OnlyWindowLost
    bare,      \* history: what a crash within compact left to the snapshot alone
    restarts, saves

log == <<aof, synced, torn, file, lock, entries>>
snapshot == <<snap, bak, fresh>>
history == <<hist, acked, late, exposed, bare>>
vars == <<phase, mem, thr, log, snapshot, saver, history, restarts, saves>>

OpId == 1 .. MaxOps
Data == [Key -> 0 .. MaxOps]
Saver == {"maintenance", "stop"}
Idle == [pc |-> "idle"]
NoFile == [kind |-> "none"]
Corrupt == [kind |-> "corrupt"]
Saved(d) == [kind |-> "data", data |-> d]
NoData == [k \in Key |-> 0]

(* An expired value is skipped by cleanup, load and load_data. *)
Unexpired(d) == [k \in Key |-> IF d[k] \in late THEN 0 ELSE d[k]]

Init ==
    /\ phase = "running"
    /\ mem = NoData
    /\ thr = [t \in Thread |-> Idle]
    /\ aof = <<>> /\ synced = 0 /\ torn = FALSE
    /\ file = "open" /\ lock = None /\ entries = 0
    /\ snap = NoFile /\ bak = NoFile /\ fresh = FALSE
    /\ saver = [p \in Saver |-> Idle]
    /\ hist = <<>> /\ acked = {} /\ late = {}
    /\ exposed = {} /\ bare = {}
    /\ restarts = 0 /\ saves = 0

-----------------------------------------------------------------------------
(* Applying an operation. *)

(* First half of _apply_log_entry (sync), _apply_repair_data, the replica  *)
(* handlers and the shard import and delete (not sync): store.set or       *)
(* store.delete.  stop() waits for no handler, so one may still come while *)
(* it saves and closes.                                                    *)
ApplyToStore(t, op, k, ttl, sync) ==
    /\ phase # "down" /\ thr[t] = Idle
    /\ Len(hist) < MaxOps
    /\ hist' = Append(hist, [op |-> op, key |-> k, ttl |-> ttl /\ op = "SET"])
    /\ mem' = [mem EXCEPT ![k] = IF op = "SET" THEN Len(hist) + 1 ELSE 0]
    /\ thr' = [thr EXCEPT ![t] = [pc |-> "append", id |-> Len(hist) + 1,
                                  sync |-> sync]]
    /\ UNCHANGED <<phase, log, snapshot, saver, acked, late, exposed, bare,
                   restarts, saves>>

(* Mutant: the answer is sent before the line is on disk. *)
AppendUnsynced(t) ==
    /\ thr[t].pc = "append" /\ lock = None /\ file = "open"
    /\ aof' = Append(aof, IF torn THEN 0 ELSE thr[t].id)
    /\ torn' = FALSE
    /\ entries' = entries + 1
    /\ acked' = IF thr[t].sync THEN acked \cup {thr[t].id} ELSE acked
    /\ thr' = [thr EXCEPT ![t] = Idle]
    /\ UNCHANGED <<phase, mem, synced, file, lock, snapshot, saver, hist,
                   late, exposed, bare, restarts, saves>>

(* append writes the line; with sync it keeps the lock until the fsync.    *)
(* The file was opened for appending, so the line continues a torn one.    *)
AppendLine(t) ==
    /\ thr[t].pc = "append" /\ lock = None /\ file = "open"
    /\ aof' = Append(aof, IF torn THEN 0 ELSE thr[t].id)
    /\ torn' = FALSE
    /\ entries' = entries + 1
    /\ IF thr[t].sync
         THEN /\ lock' = t
              /\ thr' = [thr EXCEPT ![t].pc = "sync"]
         ELSE /\ thr' = [thr EXCEPT ![t] = Idle]
              /\ UNCHANGED lock
    /\ UNCHANGED <<phase, mem, synced, file, snapshot, saver, history,
                   restarts, saves>>

(* The file is closed: write raises after the store has changed, and the   *)
(* operation is answered with an error.                                    *)
AppendRaises(t) ==
    /\ thr[t].pc = "append" /\ lock = None /\ file # "open"
    /\ thr' = [thr EXCEPT ![t] = Idle]
    /\ UNCHANGED <<phase, mem, log, snapshot, saver, history, restarts, saves>>

(* Mutant: the lock of the AOF is not released after the fsync. *)
AppendSyncKeepsLock(t) ==
    /\ thr[t].pc = "sync"
    /\ synced' = Len(aof)
    /\ acked' = acked \cup {thr[t].id}
    /\ thr' = [thr EXCEPT ![t] = Idle]
    /\ UNCHANGED <<phase, mem, aof, torn, file, lock, entries, snapshot, saver,
                   hist, late, exposed, bare, restarts, saves>>

(* _do_fsync of append(sync=True), then _apply_log_entry returns. *)
AppendSync(t) ==
    /\ thr[t].pc = "sync"
    /\ synced' = Len(aof)
    /\ lock' = None
    /\ acked' = acked \cup {thr[t].id}
    /\ thr' = [thr EXCEPT ![t] = Idle]
    /\ UNCHANGED <<phase, mem, aof, torn, file, entries, snapshot, saver, hist,
                   late, exposed, bare, restarts, saves>>

(* _fsync_loop, and the append that finds the interval elapsed. *)
FsyncTick ==
    /\ phase # "down" /\ lock = None /\ file = "open"
    /\ synced < Len(aof)
    /\ synced' = Len(aof)
    /\ UNCHANGED <<phase, mem, thr, aof, torn, file, lock, entries, snapshot,
                   saver, history, restarts, saves>>

(* The expiry time of a value passes. *)
TimePasses(i) ==
    /\ i \in 1 .. Len(hist) /\ hist[i].ttl /\ i \notin late
    /\ late' = late \cup {i}
    /\ UNCHANGED <<phase, mem, thr, log, snapshot, saver, hist, acked, exposed,
                   bare, restarts, saves>>

(* cleanup_expired_keys, and the reads that drop an expired key. *)
CleanupExpired ==
    /\ phase # "down" /\ mem # Unexpired(mem)
    /\ mem' = Unexpired(mem)
    /\ UNCHANGED <<phase, thr, log, snapshot, saver, history, restarts, saves>>

-----------------------------------------------------------------------------
(* Snapshot and compaction. *)

(* data = self.store.get_all_data(), in _maintenance_loop or in stop(). *)
Capture(p) ==
    /\ saver[p] = Idle /\ saves < MaxSaves
    /\ phase = IF p = "stop" THEN "stopping" ELSE "running"
    /\ mem' = Unexpired(mem)
    /\ saver' = [saver EXCEPT ![p] = [pc |-> "captured", data |-> Unexpired(mem),
                                      mark |-> Len(hist)]]
    /\ saves' = saves + 1
    /\ UNCHANGED <<phase, thr, log, snapshot, history, restarts>>

(* save holds the lock of SnapshotPersistence from its first rename on. *)
SnapshotLockFree == \A p \in Saver : saver[p].pc # "renaming"

(* save: the temporary file is written, the snapshot becomes the backup.   *)
(* What only the snapshot held is now in no file that recovery reads.      *)
SaveBackup(p) ==
    /\ saver[p].pc = "captured" /\ SnapshotLockFree
    /\ bak' = IF snap = NoFile THEN bak ELSE snap
    /\ snap' = NoFile /\ fresh' = FALSE
    /\ saver' = [saver EXCEPT ![p].pc = "renaming"]
    /\ exposed' = exposed \cup bare /\ bare' = {}
    /\ UNCHANGED <<phase, mem, thr, log, hist, acked, late, restarts, saves>>

(* save: the temporary file becomes the snapshot.  It was not fsynced.     *)
(* save answers False when the metadata cannot be written after that.      *)
SaveRename(p) ==
    /\ saver[p].pc = "renaming"
    /\ snap' = Saved(saver[p].data) /\ fresh' = TRUE
    /\ \E ok \in BOOLEAN :
          saver' = [saver EXCEPT ![p].pc = IF ok THEN "saved" ELSE "failed"]
    /\ UNCHANGED <<phase, mem, thr, log, bak, history, restarts, saves>>

(* save: the temporary file cannot be written. *)
SaveFails(p) ==
    /\ saver[p].pc = "captured" /\ SnapshotLockFree
    /\ saver' = [saver EXCEPT ![p].pc = "failed"]
    /\ UNCHANGED <<phase, mem, thr, log, snapshot, history, restarts, saves>>

(* _maintenance_loop goes on without compaction: save failed, the AOF is   *)
(* short, or compact raises because a compaction before it left _file      *)
(* closed.                                                                 *)
EndMaintenance ==
    /\ \/ saver["maintenance"].pc = "failed"
       \/ /\ saver["maintenance"].pc = "saved"
          /\ \/ entries < CompactThreshold
             \/ lock = None /\ file = "closed"
    /\ saver' = [saver EXCEPT !["maintenance"] = Idle]
    /\ UNCHANGED <<phase, mem, thr, log, snapshot, history, restarts, saves>>

(* compact: fsync and close the file, under the lock. *)
CompactBegin ==
    /\ saver["maintenance"].pc = "saved"
    /\ entries >= CompactThreshold
    /\ lock = None /\ file # "closed"
    /\ synced' = IF file = "open" THEN Len(aof) ELSE synced
    /\ file' = IF file = "open" THEN "closed" ELSE file
    /\ lock' = "maintenance"
    /\ saver' = [saver EXCEPT !["maintenance"].pc = "rewriting"]
    /\ UNCHANGED <<phase, mem, thr, aof, torn, entries, snapshot, history,
                   restarts, saves>>

(* compact: the temporary file cannot be written; _file stays closed. *)
CompactFails ==
    /\ saver["maintenance"].pc = "rewriting"
    /\ lock' = None
    /\ saver' = [saver EXCEPT !["maintenance"] = Idle]
    /\ UNCHANGED <<phase, mem, thr, aof, synced, torn, file, entries, snapshot,
                   history, restarts, saves>>

(* compact: the new file is written and fsynced without the keys that      *)
(* expired since, and the AOF is renamed to the backup nothing reads.      *)
CompactUnlink ==
    /\ saver["maintenance"].pc = "rewriting"
    /\ aof' = <<>> /\ synced' = 0 /\ torn' = FALSE
    /\ exposed' = exposed \cup
                    {i \in ToSet(aof) : i > saver["maintenance"].mark}
    /\ saver' = [saver EXCEPT !["maintenance"].pc = "gap",
                              !["maintenance"].data = Unexpired(@)]
    /\ UNCHANGED <<phase, mem, thr, file, lock, entries, snapshot, hist, acked,
                   late, bare, restarts, saves>>

(* The lines of the compacted file: a SET for each captured key. *)
CompactedLines(d) == SetToSeq({d[k] : k \in Key} \ {0})

(* Mutant: the lock of the AOF is not released. *)
CompactKeepsLock ==
    /\ saver["maintenance"].pc = "gap"
    /\ aof' = CompactedLines(saver["maintenance"].data)
    /\ synced' = Len(aof')
    /\ file' = "open" /\ entries' = 0
    /\ saver' = [saver EXCEPT !["maintenance"] = Idle]
    /\ bare' = {}
    /\ UNCHANGED <<phase, mem, thr, torn, lock, snapshot, hist, acked, late,
                   exposed, restarts, saves>>

(* compact: the new file becomes the AOF and is opened. *)
CompactRename ==
    /\ saver["maintenance"].pc = "gap"
    /\ aof' = CompactedLines(saver["maintenance"].data)
    /\ synced' = Len(aof')
    /\ file' = "open" /\ lock' = None /\ entries' = 0
    /\ saver' = [saver EXCEPT !["maintenance"] = Idle]
    /\ bare' = {}
    /\ UNCHANGED <<phase, mem, thr, torn, snapshot, hist, acked, late, exposed,
                   restarts, saves>>

-----------------------------------------------------------------------------
(* Stop, crash and recovery. *)

(* stop() begins: the servers accept nothing more; its snapshot follows. *)
StopBegin ==
    /\ MayStop /\ phase = "running"
    /\ restarts < MaxRestarts /\ saves < MaxSaves
    /\ phase' = "stopping"
    /\ UNCHANGED <<mem, thr, log, snapshot, saver, history, restarts, saves>>

(* aof.close(): a last fsync; a file left closed makes it raise. *)
CloseAof ==
    /\ saver["stop"].pc \in {"saved", "failed"} /\ lock = None
    /\ synced' = IF file = "open" THEN Len(aof) ELSE synced
    /\ file' = IF file = "open" THEN "none" ELSE file
    /\ saver' = [saver EXCEPT !["stop"].pc = "closed"]
    /\ UNCHANGED <<phase, mem, thr, aof, torn, lock, entries, snapshot, history,
                   restarts, saves>>

(* The process is gone: what it held in memory and its locks with it.      *)
(* Between the renames of compact there is no AOF, only the snapshot.      *)
ProcessEnds ==
    /\ phase' = "down"
    /\ mem' = NoData
    /\ thr' = [t \in Thread |-> Idle]
    /\ saver' = [p \in Saver |-> Idle]
    /\ file' = "none" /\ lock' = None /\ entries' = 0
    /\ restarts' = restarts + 1
    /\ bare' = IF saver["maintenance"].pc = "gap" THEN acked ELSE bare
    /\ UNCHANGED <<bak, hist, acked, late, exposed, saves>>

(* stop() returns and the process exits, background threads with it. *)
Exit ==
    /\ saver["stop"].pc = "closed"
    /\ synced' = Len(aof)
    /\ ProcessEnds
    /\ UNCHANGED <<aof, torn, snap, fresh>>

(* The process dies.  Of the lines that were not fsynced any prefix is     *)
(* left, possibly with part of the next line; a power loss also spoils a   *)
(* snapshot that is only in the page cache.                                *)
Crash(kind) ==
    /\ phase # "down" /\ restarts < MaxRestarts
    /\ \E n \in synced .. Len(aof) :
          /\ aof' = SubSeq(aof, 1, n)
          /\ synced' = n
          /\ torn' \in IF n = Len(aof) THEN {torn} ELSE {FALSE, Tear}
    /\ snap' \in IF kind = "power" /\ fresh THEN {snap, Corrupt} ELSE {snap}
    /\ fresh' = FALSE
    /\ ProcessEnds

(* load: no snapshot file means no data, the backup is tried only when the *)
(* snapshot cannot be parsed.                                              *)
Loaded ==
    CASE snap.kind = "data" -> Unexpired(snap.data)
      [] snap.kind = "corrupt" /\ bak.kind = "data" -> Unexpired(bak.data)
      [] OTHER -> NoData

(* Mutant: an operation of the AOF replaces nothing the snapshot holds. *)
ReplayMissing(d) ==
    [k \in Key |->
        LET at == {i \in 1 .. Len(aof) : /\ aof[i] # 0
                                         /\ hist[aof[i]].key = k
                                         /\ aof[i] \notin late}
            last == CHOOSE i \in at : \A j \in at : j <= i
        IN  IF at = {} \/ d[k] # 0 THEN d[k]
            ELSE IF hist[aof[last]].op = "SET" THEN aof[last] ELSE 0]

(* Mutant: replay does not skip a SET that has expired. *)
ReplayExpired(d) ==
    [k \in Key |->
        LET at == {i \in 1 .. Len(aof) : aof[i] # 0 /\ hist[aof[i]].key = k}
            last == CHOOSE i \in at : \A j \in at : j <= i
        IN  IF at = {} THEN d[k]
            ELSE IF hist[aof[last]].op = "SET" THEN aof[last] ELSE 0]

(* _recover_data: apply_aof_entry on every line that parses, in order; a   *)
(* SET that has expired is skipped.                                        *)
Replay(d) ==
    [k \in Key |->
        LET at == {i \in 1 .. Len(aof) : /\ aof[i] # 0
                                         /\ hist[aof[i]].key = k
                                         /\ aof[i] \notin late}
            last == CHOOSE i \in at : \A j \in at : j <= i
        IN  IF at = {} THEN d[k]
            ELSE IF hist[aof[last]].op = "SET" THEN aof[last] ELSE 0]

(* A new process: the AOF is opened for appending, then _recover_data. *)
Recover ==
    /\ phase = "down"
    /\ phase' = "running"
    /\ mem' = Replay(Loaded)
    /\ file' = "open"
    /\ snap' = IF snap = Corrupt /\ bak # NoFile THEN bak ELSE snap
    /\ UNCHANGED <<thr, aof, synced, torn, lock, entries, bak, fresh, saver,
                   history, restarts, saves>>

-----------------------------------------------------------------------------
Apply == \E t \in Thread, op \in Ops, ttl \in TTLs, sync \in Syncs :
            \E k \in KeysOf[t] : ApplyToStore(t, op, k, ttl, sync)
ThreadStep(t) == AppendLine(t) \/ AppendRaises(t) \/ AppendSync(t)
SaveStep(p) == SaveBackup(p) \/ SaveRename(p) \/ SaveFails(p)
MaintenanceStep == \/ EndMaintenance \/ CompactBegin \/ CompactFails
                   \/ CompactUnlink \/ CompactRename

Next ==
    \/ Apply
    \/ \E t \in Thread : ThreadStep(t)
    \/ FsyncTick \/ CleanupExpired
    \/ \E i \in OpId : TimePasses(i)
    \/ \E p \in Saver : Capture(p) \/ SaveStep(p)
    \/ MaintenanceStep
    \/ StopBegin \/ CloseAof \/ Exit
    \/ \E kind \in Crashes : Crash(kind)
    \/ Recover

Spec == Init /\ [][Next]_vars

(* Every thread and the maintenance thread keep running, and a stopped     *)
(* node is started again.                                                  *)
Fairness ==
    /\ \A t \in Thread : WF_vars(ThreadStep(t))
    /\ \A p \in Saver : WF_vars(SaveStep(p))
    /\ WF_vars(MaintenanceStep) /\ WF_vars(Capture("stop"))
    /\ WF_vars(CloseAof) /\ WF_vars(Exit) /\ WF_vars(Recover)

FairSpec == Spec /\ Fairness

-----------------------------------------------------------------------------
SnapshotFile == {NoFile, Corrupt} \cup [kind : {"data"}, data : Data]

(* Type invariant: the files and the store have the shape aof.py,          *)
(* snapshot.py and kv_store.py give them, and the lock of the AOF is held  *)
(* by exactly who is between its acquisition and release.                  *)
TypeOK ==
    /\ phase \in {"running", "stopping", "down"}
    /\ mem \in Data
    /\ thr \in [Thread -> {Idle} \cup [pc : {"append", "sync"}, id : OpId,
                                       sync : BOOLEAN]]
    /\ aof \in Seq(0 .. MaxOps)
    /\ synced \in 0 .. Len(aof)
    /\ torn \in BOOLEAN
    /\ file \in {"open", "closed", "none"}
    /\ lock \in Thread \cup {"maintenance", None}
    /\ \A t \in Thread : lock = t <=> thr[t].pc = "sync"
    /\ lock = "maintenance" <=> saver["maintenance"].pc \in {"rewriting", "gap"}
    /\ entries \in Nat
    /\ snap \in SnapshotFile /\ bak \in SnapshotFile /\ fresh \in BOOLEAN
    /\ saver \in [Saver -> {Idle} \cup
         [pc : {"captured", "renaming", "saved", "failed", "rewriting", "gap",
                "closed"}, data : Data, mark : 0 .. MaxOps]]
    /\ hist \in Seq([op : {"SET", "DELETE"}, key : Key, ttl : BOOLEAN])
    /\ Len(hist) <= MaxOps
    /\ {acked, late, exposed, bare} \subseteq SUBSET (0 .. MaxOps)
    /\ restarts \in 0 .. MaxRestarts /\ saves \in 0 .. MaxSaves

(* The store reflects operation i: it holds i or a later one of its key,   *)
(* or nothing because that one deleted the key or has expired.             *)
Reflected(i) ==
    LET k == hist[i].key
    IN  \/ mem[k] >= i
        \/ /\ mem[k] = 0
           /\ \E j \in i .. Len(hist) :
                 hist[j].key = k /\ (hist[j].op = "DELETE" \/ j \in late)

(* "no committed write is lost": whatever crashes, stops, snapshots and    *)
(* failures happened, a running node reflects every operation it           *)
(* acknowledged, unless its own value has expired.                         *)
AckedSurvives == phase # "down" => \A i \in acked \ late : Reflected(i)

(* What a node promises about its operations, see module Durable: what is  *)
(* on the disk, and what the threads are about to write, shows only after  *)
(* a restart, and then never as a loss of what was acknowledged or as a    *)
(* value that was not set or is past its time.                             *)
Promise == INSTANCE Durable WITH up <- phase # "down", store <- mem, ops <- hist
KeepsAcked == Promise!Spec

(* What compaction can lose is bounded: an acknowledged operation is       *)
(* missing after recovery only if its line was appended after              *)
(* _maintenance_loop captured the data compact then wrote, or if a crash   *)
(* within compact left it to the snapshot alone and save has renamed that  *)
(* snapshot since.                                                         *)
OnlyWindowLost ==
    phase # "down" => \A i \in acked \ (late \cup exposed) : Reflected(i)

(* Every operation that reached the store is answered: no thread waits for *)
(* the AOF's lock forever, compaction, fsync and failures included.        *)
OpEnds == \A t \in Thread : thr[t] # Idle ~> thr[t] = Idle
=============================================================================
