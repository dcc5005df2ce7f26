--------------------------- MODULE StorageProofs ---------------------------
(***************************************************************************)
(* What a node keeps through crashes and restarts, for any number of       *)
(* threads, keys, operations, snapshots and restarts: TypeOK; AckedSurvives *)
(* as long as the AOF is not compacted; OnlyWindowLost with compaction.    *)
(***************************************************************************)
EXTENDS Storage, FiniteSetTheorems, SequenceTheorems, WellFoundedInduction, TLAPS

\* A set of naturals that is not empty has a least element.
LEMMA LeastNatural ==
    ASSUME NEW T, T \subseteq Nat, T # {}
    PROVE  \E x \in T : \A y \in T : x <= y
  <1>1. PICK x \in T : \A y \in T : ~(<<y, x>> \in OpToRel(<, Nat))
    BY NatLessThanWellFounded, WFMin
  <1>2. \A y \in T : ~(y < x)
    BY <1>1 DEF OpToRel
  <1>3. QED
    BY <1>2

\* A set of positions of the AOF has a last one.
LEMMA LastPosition ==
    ASSUME NEW n \in Nat, NEW at, at \subseteq 1 .. n, at # {}
    PROVE  \E i \in at : \A j \in at : j <= i
  <1> DEFINE rest == {n - i : i \in at}
  <1>1. rest \subseteq Nat /\ rest # {}
    <2>1. \A i \in at : n - i \in Nat
      OBVIOUS
    <2>2. QED
      BY <2>1
  <1>2. PICK x \in rest : \A y \in rest : x <= y
    BY <1>1, LeastNatural
  <1>3. PICK i \in at : x = n - i
    OBVIOUS
  <1>4. \A j \in at : n - i <= n - j
    BY <1>2, <1>3
  <1>5. QED
    BY <1>4

\* What a crash leaves of the AOF.
LEMMA KeptPrefix ==
    ASSUME NEW S, NEW s \in Seq(S), NEW n \in 0 .. Len(s)
    PROVE  /\ SubSeq(s, 1, n) \in Seq(S) /\ Len(SubSeq(s, 1, n)) = n
           /\ \A i \in 1 .. n : SubSeq(s, 1, n)[i] = s[i]
  <1>1. Len(s) \in Nat /\ 1 \in 1 .. Len(s) + 1 /\ n \in 1 - 1 .. Len(s)
    BY LenProperties
  <1>2. /\ SubSeq(s, 1, n) \in Seq(S) /\ Len(SubSeq(s, 1, n)) = n - 1 + 1
        /\ \A i \in 1 .. n - 1 + 1 : SubSeq(s, 1, n)[i] = s[1 + i - 1]
    BY <1>1, SubSeqProperties
  <1>3. QED
    BY <1>1, <1>2

-----------------------------------------------------------------------------
(* Types. *)

Steps == {"captured", "renaming", "saved", "failed", "rewriting", "gap", "closed"}
Progress == [pc : Steps, data : Data, mark : 0 .. MaxOps]
ThreadOp == [pc : {"append", "sync"}, id : OpId, sync : BOOLEAN]

\* stop() runs once the node is stopping, and a process ends at most once more
\* than it may be restarted.
StopInv ==
    /\ saver["stop"] # Idle => phase = "stopping"
    /\ phase = "stopping" => restarts < MaxRestarts

TypeInv == TypeOK /\ StopInv

\* Values of the store that expire are no others.
LEMMA UnexpiredData ==
    ASSUME NEW d \in Data
    PROVE  Unexpired(d) \in Data
  <1>1. 0 \in 0 .. MaxOps
    BY StorageAssumption
  <1>2. QED
    BY <1>1 DEF Data, Unexpired

\* What recovery puts into the store.
LEMMA RecoveredData ==
    ASSUME TypeOK
    PROVE  NoData \in Data /\ Loaded \in Data /\ Replay(Loaded) \in Data
  <1>1. 0 \in 0 .. MaxOps /\ NoData \in Data
    BY StorageAssumption DEF NoData, Data
  <1>2. ASSUME NEW f \in SnapshotFile, f.kind = "data" PROVE f.data \in Data
    BY <1>2 DEF SnapshotFile, NoFile, Corrupt
  <1>3. Loaded \in Data
    BY <1>1, <1>2, UnexpiredData DEF Loaded, TypeOK
  <1>4. ASSUME NEW k \in Key PROVE Replay(Loaded)[k] \in 0 .. MaxOps
    <2> DEFINE at == {i \in 1 .. Len(aof) : /\ aof[i] # 0
                                            /\ hist[aof[i]].key = k
                                            /\ aof[i] \notin late}
               last == CHOOSE i \in at : \A j \in at : j <= i
    <2>1. Replay(Loaded)[k] = IF at = {} THEN Loaded[k]
                              ELSE IF hist[aof[last]].op = "SET" THEN aof[last] ELSE 0
      BY DEF Replay
    <2>2. ASSUME at # {} PROVE last \in 1 .. Len(aof)
      <3>1. Len(aof) \in Nat /\ at \subseteq 1 .. Len(aof)
        BY LenProperties DEF TypeOK
      <3>2. \E i \in at : \A j \in at : j <= i
        BY <2>2, <3>1, LastPosition
      <3>3. QED
        BY <3>2
    <2> HIDE DEF at, last
    <2>3. \A i \in 1 .. Len(aof) : aof[i] \in 0 .. MaxOps
      BY ElementOfSeq DEF TypeOK
    <2>4. QED
      BY <1>1, <1>3, <2>1, <2>2, <2>3 DEF Data
  <1>5. QED
    BY <1>1, <1>3, <1>4 DEF Data, Replay

\* A saver moves on.
LEMMA SaverMoves ==
    ASSUME TypeOK, NEW p \in Saver, saver[p] # Idle,
           NEW x \in Steps
    PROVE  /\ [saver EXCEPT ![p].pc = x] \in [Saver -> {Idle} \cup Progress]
           /\ [saver EXCEPT ![p].pc = x][p].pc = x
           /\ \A q \in Saver \ {p} : [saver EXCEPT ![p].pc = x][q] = saver[q]
  <1>1. saver[p] \in Progress /\ saver \in [Saver -> {Idle} \cup Progress]
    BY DEF TypeOK, Progress, Steps
  <1>2. [saver[p] EXCEPT !.pc = x] \in Progress /\ [saver[p] EXCEPT !.pc = x].pc = x
    BY <1>1 DEF Progress, Steps
  <1>3. [saver EXCEPT ![p].pc = x] = [saver EXCEPT ![p] = [saver[p] EXCEPT !.pc = x]]
    BY <1>1
  <1>4. QED
    BY <1>1, <1>2, <1>3

-----------------------------------------------------------------------------
(* The types after each action. *)

\* The store.
LEMMA ApplyTypes ==
    ASSUME TypeInv, Apply
    PROVE  TypeInv'
  <1>1. PICK t \in Thread, op \in Ops, ttl \in TTLs, sync \in Syncs :
            \E k \in KeysOf[t] : ApplyToStore(t, op, k, ttl, sync)
    BY DEF Apply
  <1>2. PICK k \in KeysOf[t] : ApplyToStore(t, op, k, ttl, sync)
    BY <1>1
  <1>3. /\ k \in Key /\ op \in {"SET", "DELETE"} /\ sync \in BOOLEAN
        /\ (ttl /\ op = "SET") \in BOOLEAN /\ MaxOps \in Nat
    BY StorageAssumption
  <1>4. /\ Len(hist) \in Nat /\ Len(hist) + 1 \in OpId /\ Len(hist) + 1 \in 0 .. MaxOps
        /\ 0 \in 0 .. MaxOps
    BY <1>2, <1>3, LenProperties DEF ApplyToStore, TypeInv, TypeOK, OpId
  <1>5. /\ hist' \in Seq([op : {"SET", "DELETE"}, key : Key, ttl : BOOLEAN])
        /\ Len(hist') <= MaxOps
    <2>1. [op |-> op, key |-> k, ttl |-> ttl /\ op = "SET"]
            \in [op : {"SET", "DELETE"}, key : Key, ttl : BOOLEAN]
      BY <1>3
    <2>2. QED
      BY <1>2, <1>3, <1>4, <2>1, AppendProperties DEF ApplyToStore, TypeInv, TypeOK
  <1>6. mem' \in Data
    BY <1>2, <1>3, <1>4 DEF ApplyToStore, TypeInv, TypeOK, Data
  <1>7. thr' \in [Thread -> {Idle} \cup ThreadOp]
    BY <1>2, <1>3, <1>4 DEF ApplyToStore, TypeInv, TypeOK, ThreadOp
  <1>8. \A u \in Thread : lock' = u <=> thr'[u].pc = "sync"
    BY <1>2, <1>7 DEF ApplyToStore, TypeInv, TypeOK, Idle, log
  <1>9. QED
    BY <1>2, <1>5, <1>6, <1>7, <1>8
       DEF ApplyToStore, TypeInv, TypeOK, StopInv, ThreadOp, log, snapshot
\* The threads at the AOF.
LEMMA ThreadTypes ==
    ASSUME TypeInv, NEW t \in Thread, ThreadStep(t)
    PROVE  TypeInv'
  <1>1. /\ thr \in [Thread -> {Idle} \cup ThreadOp]
        /\ Idle.pc = "idle" /\ MaxOps \in Nat /\ OpId \subseteq 0 .. MaxOps
        /\ "maintenance" # t /\ None # t /\ None # "maintenance"
    BY StorageAssumption DEF TypeInv, TypeOK, ThreadOp, Idle, OpId
  <1>2. /\ thr[t] \in ThreadOp /\ thr[t].id \in OpId /\ thr[t].sync \in BOOLEAN
    BY <1>1 DEF ThreadStep, AppendLine, AppendRaises, AppendSync, ThreadOp
  <1>3. aof \in Seq(0 .. MaxOps) /\ Len(aof) \in Nat
    BY LenProperties DEF TypeInv, TypeOK
  <1>4. CASE AppendLine(t)
    <2>1. (IF torn THEN 0 ELSE thr[t].id) \in 0 .. MaxOps
      <3>1. 0 \in 0 .. MaxOps /\ thr[t].id \in 0 .. MaxOps
        BY <1>2, StorageAssumption DEF OpId
      <3>2. QED
        BY <3>1
    <2>2. aof' \in Seq(0 .. MaxOps) /\ Len(aof') = Len(aof) + 1
      BY <1>3, <1>4, <2>1, AppendProperties DEF AppendLine
    <2>3. synced' \in 0 .. Len(aof') /\ entries' \in Nat
      BY <1>3, <1>4, <2>2 DEF AppendLine, TypeInv, TypeOK
    <2>4. CASE thr[t].sync
      <3>1. lock' = t /\ thr' = [thr EXCEPT ![t] = [thr[t] EXCEPT !.pc = "sync"]] /\ lock = None
        BY <1>1, <1>4, <2>4 DEF AppendLine
      <3>2. [thr[t] EXCEPT !.pc = "sync"] \in ThreadOp /\ [thr[t] EXCEPT !.pc = "sync"].pc = "sync"
        BY <1>2 DEF ThreadOp
      <3>3. thr' \in [Thread -> {Idle} \cup ThreadOp]
        BY <1>1, <3>1, <3>2
      <3>4. \A u \in Thread : lock' = u <=> thr'[u].pc = "sync"
        BY <1>1, <3>1, <3>2, StorageAssumption DEF TypeInv, TypeOK
      <3>5. QED
        BY <1>1, <1>4, <2>2, <2>3, <3>1, <3>3, <3>4
           DEF AppendLine, TypeInv, TypeOK, StopInv, ThreadOp, snapshot, history
    <2>5. CASE ~thr[t].sync
      <3>1. thr' = [thr EXCEPT ![t] = Idle] /\ lock' = lock
        BY <1>4, <2>5 DEF AppendLine
      <3>2. \A u \in Thread : lock' = u <=> thr'[u].pc = "sync"
        BY <1>1, <1>4, <3>1, StorageAssumption DEF TypeInv, TypeOK, AppendLine
      <3>3. QED
        BY <1>1, <1>4, <2>2, <2>3, <3>1, <3>2
           DEF AppendLine, TypeInv, TypeOK, StopInv, ThreadOp, snapshot, history
    <2>6. QED
      BY <2>4, <2>5
  <1>5. CASE AppendRaises(t)
    <2>1. thr' \in [Thread -> {Idle} \cup ThreadOp]
      BY <1>1, <1>5 DEF AppendRaises
    <2>2. \A u \in Thread : lock' = u <=> thr'[u].pc = "sync"
      BY <1>1, <1>5, StorageAssumption DEF TypeInv, TypeOK, AppendRaises, log
    <2>3. QED
      BY <1>5, <2>1, <2>2
         DEF AppendRaises, TypeInv, TypeOK, StopInv, ThreadOp, log, snapshot, history
  <1>6. CASE AppendSync(t)
    <2>1. thr' \in [Thread -> {Idle} \cup ThreadOp]
      BY <1>1, <1>6 DEF AppendSync
    <2>2. lock = t /\ lock' = None
      BY <1>6 DEF AppendSync, TypeInv, TypeOK
    <2>3. \A u \in Thread : lock' = u <=> thr'[u].pc = "sync"
      BY <1>1, <1>6, <2>2, StorageAssumption DEF TypeInv, TypeOK, AppendSync
    <2>4. synced' \in 0 .. Len(aof') /\ acked' \in SUBSET (0 .. MaxOps)
      <3>1. synced' = Len(aof) /\ aof' = aof /\ acked' = acked \cup {thr[t].id}
        BY <1>6 DEF AppendSync
      <3>2. acked \in SUBSET (0 .. MaxOps) /\ thr[t].id \in 0 .. MaxOps
        BY <1>1, <1>2 DEF TypeInv, TypeOK
      <3>3. acked' \in SUBSET (0 .. MaxOps)
        BY <3>1, <3>2
      <3>4. Len(aof) \in 0 .. Len(aof)
        BY <1>3
      <3>5. QED
        BY <3>1, <3>3, <3>4
    <2>5. QED
      BY <1>1, <1>6, <2>1, <2>2, <2>3, <2>4
         DEF AppendSync, TypeInv, TypeOK, StopInv, ThreadOp, snapshot
  <1>7. QED
    BY <1>4, <1>5, <1>6 DEF ThreadStep

\* Fsync, time and expiry.
LEMMA TimeTypes ==
    ASSUME TypeInv, FsyncTick \/ CleanupExpired \/ \E i \in OpId : TimePasses(i)
    PROVE  TypeInv'
  <1>1. Len(aof) \in Nat /\ OpId \subseteq 0 .. MaxOps
    BY LenProperties, StorageAssumption DEF TypeInv, TypeOK, OpId
  <1>2. CASE FsyncTick
    BY <1>1, <1>2 DEF FsyncTick, TypeInv, TypeOK, StopInv, snapshot, history
  <1>3. CASE CleanupExpired
    BY <1>3, UnexpiredData DEF CleanupExpired, TypeInv, TypeOK, StopInv, log, snapshot, history
  <1>4. ASSUME NEW i \in OpId, TimePasses(i) PROVE TypeInv'
    BY <1>1, <1>4 DEF TimePasses, TypeInv, TypeOK, StopInv, log, snapshot
  <1>5. QED
    BY <1>2, <1>3, <1>4

\* The snapshot.
LEMMA SaveTypes ==
    ASSUME TypeInv, NEW p \in Saver, Capture(p) \/ SaveStep(p)
    PROVE  TypeInv'
  <1> USE DEF TypeInv, StopInv
  <1>1. /\ saver \in [Saver -> {Idle} \cup Progress] /\ "maintenance" \in Saver
        /\ "stop" \in Saver /\ Idle.pc = "idle" /\ Len(hist) \in Nat
        /\ MaxOps \in Nat /\ MaxSaves \in Nat
    BY LenProperties, StorageAssumption DEF TypeOK, Progress, Steps, Saver, Idle
  <1>2. CASE Capture(p)
    <2> DEFINE r == [pc |-> "captured", data |-> Unexpired(mem), mark |-> Len(hist)]
    <2>1. Unexpired(mem) \in Data /\ r \in Progress /\ r.pc = "captured"
      BY <1>1, UnexpiredData DEF TypeOK, Progress, Steps
    <2>2. /\ saver' = [saver EXCEPT ![p] = r] /\ mem' = Unexpired(mem) /\ saves' = saves + 1
          /\ saves < MaxSaves /\ saver[p] = Idle
          /\ phase = IF p = "stop" THEN "stopping" ELSE "running"
      BY <1>2 DEF Capture
    <2> HIDE DEF r
    <2>3. saver' \in [Saver -> {Idle} \cup Progress]
      BY <1>1, <2>1, <2>2
    <2>4. /\ saver'["maintenance"].pc \in {"rewriting", "gap"}
                <=> saver["maintenance"].pc \in {"rewriting", "gap"}
          /\ saver'["stop"] # Idle => phase = "stopping"
      BY <1>1, <2>1, <2>2
    <2>5. saves' \in 0 .. MaxSaves
      BY <1>1, <2>2 DEF TypeOK
    <2>6. QED
      BY <1>2, <2>1, <2>2, <2>3, <2>4, <2>5
         DEF Capture, TypeOK, Progress, Steps, log, snapshot, history
  <1>3. ASSUME NEW x \in {"renaming", "saved", "failed"},
               saver[p].pc \in {"captured", "renaming"},
               saver' = [saver EXCEPT ![p].pc = x]
        PROVE  /\ saver' \in [Saver -> {Idle} \cup Progress]
               /\ saver'["maintenance"].pc \in {"rewriting", "gap"}
                    <=> saver["maintenance"].pc \in {"rewriting", "gap"}
               /\ saver'["stop"] # Idle => phase = "stopping"
    <2>1. saver[p] # Idle
      BY <1>1, <1>3
    <2>2. x \in Steps /\ TypeOK
      BY DEF Steps
    <2> DEFINE moved == [saver EXCEPT ![p].pc = x]
    <2>3. /\ moved \in [Saver -> {Idle} \cup Progress]
          /\ moved[p].pc = x
          /\ \A q \in Saver \ {p} : moved[q] = saver[q]
      BY <2>1, <2>2, SaverMoves
    <2>4. saver' = moved
      BY <1>3
    <2> HIDE DEF moved
    <2>5. CASE p = "maintenance"
      BY <1>1, <1>3, <2>3, <2>4, <2>5
    <2>6. CASE p # "maintenance"
      BY <1>1, <2>1, <2>3, <2>4, <2>6 DEF Saver
    <2>7. QED
      BY <2>3, <2>4, <2>5, <2>6
  <1>4. CASE SaveBackup(p)
    <2>1. snap' \in SnapshotFile /\ bak' \in SnapshotFile /\ fresh' \in BOOLEAN
      BY <1>4 DEF SaveBackup, TypeOK, SnapshotFile
    <2>2. exposed' \in SUBSET (0 .. MaxOps) /\ bare' \in SUBSET (0 .. MaxOps)
      BY <1>4 DEF SaveBackup, TypeOK
    <2>3. QED
      BY <1>3, <1>4, <2>1, <2>2 DEF SaveBackup, TypeOK, Progress, Steps, log
  <1>5. CASE SaveRename(p)
    <2>1. saver[p] \in Progress
      BY <1>1, <1>5 DEF SaveRename
    <2>2. snap' \in SnapshotFile /\ fresh' \in BOOLEAN
      BY <1>5, <2>1 DEF SaveRename, SnapshotFile, Saved, Progress, Steps
    <2>3. PICK x \in {"saved", "failed"} : saver' = [saver EXCEPT ![p].pc = x]
      BY <1>5 DEF SaveRename
    <2>4. QED
      BY <1>3, <1>5, <2>2, <2>3 DEF SaveRename, TypeOK, Progress, Steps, log, history
  <1>6. CASE SaveFails(p)
    BY <1>3, <1>6 DEF SaveFails, TypeOK, Progress, Steps, log, snapshot, history
  <1>7. QED
    BY <1>2, <1>4, <1>5, <1>6 DEF SaveStep
\* The lines of the compacted file are the captured values, each once.
LEMMA CompactedFile ==
    ASSUME NEW d \in Data
    PROVE  /\ CompactedLines(d) \in Seq(OpId)
           /\ \A i \in 1 .. Len(CompactedLines(d)) : \E k \in Key : CompactedLines(d)[i] = d[k]
           /\ \A k \in Key : d[k] # 0 =>
                 \E i \in 1 .. Len(CompactedLines(d)) : CompactedLines(d)[i] = d[k]
  <1> DEFINE S == {d[k] : k \in Key} \ {0}
             n == Cardinality(S)
  <1>1. S \subseteq OpId /\ MaxOps \in Nat
    BY StorageAssumption DEF Data, OpId
  <1>2. IsFiniteSet(S)
    <2>1. IsFiniteSet(1 .. MaxOps)
      BY <1>1, FS_Interval
    <2>2. QED
      BY <1>1, <2>1, FS_Subset DEF OpId
  <1> HIDE DEF S
  <1>3. n \in Nat /\ ExistsBijection(1 .. n, S)
    BY <1>2, FS_CardinalityType
  <1>4. PICK g \in [1 .. n -> S] : IsInjective(g)
    BY <1>3 DEF ExistsBijection, Bijection, Injection
  <1> DEFINE f == CHOOSE f \in [1 .. n -> S] : IsInjective(f)
  <1>5. f \in [1 .. n -> S] /\ IsInjective(f)
    BY <1>4
  <1>6. CompactedLines(d) = f
    BY DEF CompactedLines, SetToSeq, S
  <1> HIDE DEF f, n
  <1>7. f \in Surjection(1 .. n, S)
    <2>1. f \in Injection(1 .. n, S)
      BY <1>5 DEF Injection
    <2>2. Cardinality(1 .. n) = Cardinality(S)
      BY <1>3, FS_Interval DEF n
    <2>3. QED
      BY <1>2, <2>1, <2>2, FS_Injection
  <1>8. f \in Seq(OpId) /\ Len(f) = n
    BY <1>1, <1>3, <1>5
  <1>9. \A i \in 1 .. n : f[i] \in S
    BY <1>5
  <1>10. \A x \in S : \E i \in 1 .. n : f[i] = x
    BY <1>7 DEF Surjection
  <1>11. QED
    BY <1>6, <1>8, <1>9, <1>10 DEF S

\* Compaction.
LEMMA MaintenanceTypes ==
    ASSUME TypeInv, MaintenanceStep
    PROVE  TypeInv'
  <1> USE DEF TypeInv, StopInv
  <1>1. /\ saver \in [Saver -> {Idle} \cup Progress] /\ "maintenance" \in Saver
        /\ "stop" \in Saver /\ Idle.pc = "idle" /\ Len(aof) \in Nat
        /\ "maintenance" \notin Thread /\ None \notin Thread /\ None # "maintenance"
        /\ "stop" # "maintenance"
    BY LenProperties, StorageAssumption DEF TypeOK, Progress, Steps, Saver, Idle
  <1>2. /\ saver["maintenance"] # Idle /\ saver["maintenance"] \in Progress
        /\ saver'["stop"] = saver["stop"]
    BY <1>1 DEF MaintenanceStep, EndMaintenance, CompactBegin, CompactFails,
                CompactUnlink, CompactRename
  <1>3. [saver EXCEPT !["maintenance"] = Idle] \in [Saver -> {Idle} \cup Progress]
    BY <1>1
  <1>4. CASE EndMaintenance
    <2>1. saver' \in [Saver -> {Idle} \cup Progress] /\ saver'["maintenance"].pc = "idle"
      BY <1>1, <1>3, <1>4 DEF EndMaintenance
    <2>2. lock # "maintenance"
      BY <1>1, <1>4 DEF EndMaintenance, TypeOK
    <2>3. QED
      BY <1>2, <1>4, <2>1, <2>2 DEF EndMaintenance, TypeOK, Progress, Steps, log, snapshot, history
  <1>5. CASE CompactBegin
    <2>1. /\ saver' \in [Saver -> {Idle} \cup Progress]
          /\ saver'["maintenance"].pc = "rewriting"
      BY <1>1, <1>2, <1>5, SaverMoves DEF CompactBegin, Steps
    <2>2. \A t \in Thread : thr[t].pc # "sync"
      BY <1>1, <1>5 DEF CompactBegin, TypeOK
    <2>3. synced' \in 0 .. Len(aof) /\ file' \in {"open", "closed", "none"} /\ lock' = "maintenance"
      BY <1>1, <1>5 DEF CompactBegin, TypeOK
    <2>4. QED
      BY <1>1, <1>2, <1>5, <2>1, <2>2, <2>3 DEF CompactBegin, TypeOK, Progress, Steps, snapshot, history
  <1>6. CASE CompactFails
    <2>1. saver' \in [Saver -> {Idle} \cup Progress] /\ saver'["maintenance"].pc = "idle"
      BY <1>1, <1>3, <1>6 DEF CompactFails
    <2>2. lock = "maintenance" /\ lock' = None
      BY <1>6 DEF CompactFails, TypeOK
    <2>3. QED
      BY <1>1, <1>2, <1>6, <2>1, <2>2 DEF CompactFails, TypeOK, Progress, Steps, snapshot, history
  <1>7. CASE CompactUnlink
    <2> DEFINE d == Unexpired(saver["maintenance"].data)
               r == [saver["maintenance"] EXCEPT !.pc = "gap", !.data = d]
    <2>1. d \in Data
      BY <1>2, UnexpiredData DEF Progress, Steps
    <2> HIDE DEF d
    <2>2. r \in Progress /\ r.pc = "gap"
      BY <1>2, <2>1 DEF Progress, Steps
    <2>3. saver' = [saver EXCEPT !["maintenance"] = r]
      BY <1>1, <1>7 DEF CompactUnlink, d
    <2> HIDE DEF r
    <2>4. saver' \in [Saver -> {Idle} \cup Progress] /\ saver'["maintenance"].pc = "gap"
      BY <1>1, <2>2, <2>3
    <2>5. exposed' \in SUBSET (0 .. MaxOps)
      <3>1. ToSet(aof) \subseteq 0 .. MaxOps
        <4>1. DOMAIN aof = 1 .. Len(aof) /\ \A i \in 1 .. Len(aof) : aof[i] \in 0 .. MaxOps
          BY ElementOfSeq, LenProperties DEF TypeOK
        <4>2. QED
          BY <4>1 DEF ToSet
      <3>2. QED
        BY <1>7, <3>1 DEF CompactUnlink, TypeOK
    <2>6. aof' \in Seq(0 .. MaxOps) /\ synced' \in 0 .. Len(aof') /\ torn' \in BOOLEAN
      <3>1. <<>> \in Seq(0 .. MaxOps) /\ 0 \in 0 .. Len(<<>>)
        BY EmptySeq
      <3>2. QED
        BY <1>7, <3>1 DEF CompactUnlink
    <2>7. lock = "maintenance"
      BY <1>7 DEF CompactUnlink, TypeOK
    <2>8. QED
      BY <1>1, <1>2, <1>7, <2>4, <2>5, <2>6, <2>7 DEF CompactUnlink, TypeOK, Progress, Steps, snapshot
  <1>8. CASE CompactRename
    <2>1. saver' \in [Saver -> {Idle} \cup Progress] /\ saver'["maintenance"].pc = "idle"
      BY <1>1, <1>3, <1>8 DEF CompactRename
    <2>2. lock = "maintenance" /\ lock' = None
      BY <1>8 DEF CompactRename, TypeOK
    <2>3. OpId \subseteq 0 .. MaxOps
      BY StorageAssumption DEF OpId
    <2>4. saver["maintenance"].data \in Data
      BY <1>2 DEF Progress, Steps
    <2>5. CompactedLines(saver["maintenance"].data) \in Seq(0 .. MaxOps)
      BY <2>3, <2>4, CompactedFile, SeqMonotonic
    <2>6. aof' \in Seq(0 .. MaxOps) /\ synced' = Len(aof')
      BY <1>8, <2>5 DEF CompactRename
    <2>7. synced' \in 0 .. Len(aof')
      BY <2>6, LenProperties
    <2>8. bare' \in SUBSET (0 .. MaxOps)
      BY <1>8 DEF CompactRename
    <2>9. QED
      BY <1>1, <1>2, <1>8, <2>1, <2>2, <2>6, <2>7, <2>8 DEF CompactRename, TypeOK, Progress, Steps, snapshot
  <1>9. QED
    BY <1>4, <1>5, <1>6, <1>7, <1>8 DEF MaintenanceStep
\* The end of a process: nothing is left of what it held in memory.
LEMMA EndTypes ==
    ASSUME TypeInv, ProcessEnds, restarts < MaxRestarts,
           aof' \in Seq(0 .. MaxOps), synced' \in 0 .. Len(aof'), torn' \in BOOLEAN,
           snap' \in SnapshotFile, fresh' \in BOOLEAN
    PROVE  TypeInv'
  <1>1. mem' \in Data
    BY RecoveredData DEF ProcessEnds, TypeInv
  <1>2. /\ saver' = [p \in Saver |-> Idle] /\ thr' = [t \in Thread |-> Idle]
        /\ Idle.pc = "idle" /\ lock' = None /\ phase' = "down"
        /\ "maintenance" \in Saver /\ "stop" \in Saver
    BY DEF ProcessEnds, Idle, Saver
  <1>3. restarts' \in 0 .. MaxRestarts
    BY StorageAssumption DEF ProcessEnds, TypeInv, TypeOK
  <1>4. bare' \in SUBSET (0 .. MaxOps)
    BY DEF ProcessEnds, TypeInv, TypeOK
  <1>5. None \notin Thread /\ None # "maintenance"
    BY StorageAssumption
  <1>6. QED
    BY <1>1, <1>2, <1>3, <1>4, <1>5 DEF ProcessEnds, TypeInv, TypeOK, StopInv

\* Stop, crash and recovery.
LEMMA StopTypes ==
    ASSUME TypeInv,
           StopBegin \/ CloseAof \/ Exit \/ Recover \/ \E kind \in Crashes : Crash(kind)
    PROVE  TypeInv'
  <1>1. /\ saver \in [Saver -> {Idle} \cup Progress] /\ "maintenance" \in Saver
        /\ "stop" \in Saver /\ Idle.pc = "idle" /\ Len(aof) \in Nat
        /\ "stop" # "maintenance"
    BY LenProperties DEF TypeInv, TypeOK, Progress, Steps, Saver, Idle
  <1>2. CASE StopBegin
    BY <1>2 DEF StopBegin, TypeInv, TypeOK, StopInv, log, snapshot, history
  <1>3. CASE CloseAof
    <2>1. saver["stop"] # Idle
      BY <1>1, <1>3 DEF CloseAof
    <2>2. /\ saver' \in [Saver -> {Idle} \cup Progress]
          /\ saver'["maintenance"] = saver["maintenance"]
      BY <1>1, <1>3, <2>1, SaverMoves DEF CloseAof, Steps, TypeInv
    <2>3. synced' \in 0 .. Len(aof) /\ file' \in {"open", "closed", "none"}
      BY <1>1, <1>3 DEF CloseAof, TypeInv, TypeOK
    <2>4. QED
      BY <1>3, <2>1, <2>2, <2>3
         DEF CloseAof, TypeInv, TypeOK, StopInv, Progress, Steps, snapshot, history
  <1>4. CASE Exit
    <2>1. restarts < MaxRestarts
      BY <1>1, <1>4 DEF Exit, TypeInv, StopInv
    <2>2. Len(aof) \in 0 .. Len(aof)
      BY <1>1
    <2>3. QED
      BY <1>4, <2>1, <2>2, EndTypes DEF Exit, TypeInv, TypeOK
  <1>5. ASSUME NEW kind \in Crashes, Crash(kind) PROVE TypeInv'
    <2>1. PICK n \in synced .. Len(aof) :
              /\ aof' = SubSeq(aof, 1, n) /\ synced' = n
              /\ torn' \in IF n = Len(aof) THEN {torn} ELSE {FALSE, Tear}
      BY <1>5 DEF Crash
    <2>2. n \in 0 .. Len(aof)
      BY <1>1 DEF TypeInv, TypeOK
    <2>3. aof' \in Seq(0 .. MaxOps) /\ Len(aof') = n
      <3>1. aof \in Seq(0 .. MaxOps)
        BY DEF TypeInv, TypeOK
      <3>2. QED
        BY <2>1, <2>2, <3>1, KeptPrefix
    <2>4. synced' \in 0 .. Len(aof')
      BY <2>1, <2>2, <2>3
    <2>5. torn' \in BOOLEAN
      BY <2>1, StorageAssumption DEF TypeInv, TypeOK
    <2>6. snap' \in SnapshotFile /\ fresh' \in BOOLEAN
      BY <1>5 DEF Crash, SnapshotFile, TypeInv, TypeOK
    <2>7. QED
      BY <1>5, <2>3, <2>4, <2>5, <2>6, EndTypes DEF Crash
  <1>6. CASE Recover
    <2>1. mem' \in Data
      BY <1>6, RecoveredData DEF Recover, TypeInv
    <2>2. snap' \in SnapshotFile
      BY <1>6 DEF Recover, TypeInv, TypeOK
    <2>3. saver["stop"] = Idle
      BY <1>6 DEF Recover, TypeInv, StopInv
    <2>4. QED
      BY <1>6, <2>1, <2>2, <2>3 DEF Recover, TypeInv, TypeOK, StopInv, history
  <1>7. QED
    BY <1>2, <1>3, <1>4, <1>5, <1>6

\* A node that starts.
LEMMA InitTypes == Init => TypeInv
  <1> SUFFICES ASSUME Init PROVE TypeInv
    OBVIOUS
  <1>1. NoData \in Data /\ <<>> \in Seq(0 .. MaxOps) /\ Len(<<>>) = 0
        /\ <<>> \in Seq([op : {"SET", "DELETE"}, key : Key, ttl : BOOLEAN])
        /\ 0 \in 0 .. MaxRestarts /\ 0 \in 0 .. MaxSaves /\ 0 \in 0 .. 0 /\ 0 <= MaxOps
    BY StorageAssumption, EmptySeq DEF NoData, Data
  <1>2. /\ Idle.pc = "idle" /\ NoFile \in SnapshotFile /\ "maintenance" \in Saver /\ "stop" \in Saver
        /\ None \notin Thread /\ None # "maintenance"
    BY StorageAssumption DEF Idle, SnapshotFile, Saver
  <1>3. QED
    BY <1>1, <1>2 DEF Init, TypeInv, TypeOK, StopInv

\* Every step keeps the types.
LEMMA StepTypes == TypeInv /\ [Next]_vars => TypeInv'
  <1> SUFFICES ASSUME TypeInv, [Next]_vars PROVE TypeInv'
    OBVIOUS
  <1>1. CASE UNCHANGED vars
    BY <1>1 DEF vars, log, snapshot, history, TypeInv, TypeOK, StopInv
  <1>2. QED
    BY <1>1, ApplyTypes, ThreadTypes, TimeTypes, SaveTypes, MaintenanceTypes, StopTypes
       DEF Next

\* The files, the store and the threads of a node keep their shape through every
\* crash, stop and recovery, and the lock of the AOF is held by exactly the thread
\* that fsyncs its line or the compaction that rewrites the file.
THEOREM StorageTypes == Spec => []TypeOK
  <1>1. TypeInv => TypeOK
    BY DEF TypeInv
  <1>2. QED
    BY <1>1, InitTypes, StepTypes, PTL DEF Spec
-----------------------------------------------------------------------------
(* What the files, the store and the threads have in common, with or       *)
(* without compaction, for threads that write keys of their own.           *)

OwnKeys == \A t, u \in Thread : t # u => KeysOf[t] \cap KeysOf[u] = {}

\* v is no value of k or that of a SET of k.
Value(h, k, v) == v # 0 => v \in 1 .. Len(h) /\ h[v].key = k /\ h[v].op = "SET"
Values(h, d) == \A k \in Key : Value(h, k, d[k])

\* The lines of a are operations, those on one key in the order of the store.
LinesOK(h, a) ==
    /\ \A p \in 1 .. Len(a) : a[p] \in 1 .. Len(h)
    /\ \A p, q \in 1 .. Len(a) :
          p < q /\ h[a[p]].key = h[a[q]].key => a[p] <= a[q]

\* The operation that t is applying is the newest one on its key.
PendingOK(t) ==
    LET id == thr[t].id
        k == hist[id].key
    IN  /\ id \in 1 .. Len(hist) /\ k \in KeysOf[t]
        /\ \A i \in acked : hist[i].key = k => i < id
        /\ \A p \in 1 .. Len(aof) : hist[aof[p]].key = k => aof[p] <= id
        /\ mem[k] <= id
        /\ \A p \in Saver : saver[p] # Idle => saver[p].data[k] <= id
        /\ thr[t].pc = "sync" => \E p \in 1 .. Len(aof) : aof[p] = id

BaseInv ==
    /\ torn = FALSE
    /\ acked \subseteq 1 .. Len(hist)
    /\ LinesOK(hist, aof)
    /\ Values(hist, mem)
    /\ snap.kind = "data" => Values(hist, snap.data)
    /\ bak.kind = "data" => Values(hist, bak.data)
    /\ \A p \in Saver : saver[p] # Idle => Values(hist, saver[p].data)
    /\ \A t \in Thread : thr[t] # Idle => PendingOK(t)
    /\ phase = "down" => /\ \A t \in Thread : thr[t] = Idle
                         /\ \A p \in Saver : saver[p] = Idle

\* Steps that append nothing: values are kept, dropped or copied.
LEMMA QuietBase ==
    ASSUME TypeInv, BaseInv,
           hist' = hist, aof' = aof, acked' = acked, torn' = torn,
           \A t \in Thread : thr'[t] \in {thr[t], Idle},
           \A k \in Key : mem'[k] \in {mem[k], 0},
           \A p \in Saver : \/ saver'[p] = Idle
                            \/ \A k \in Key : saver'[p].data[k] \in {mem[k], 0}
                            \/ saver[p] # Idle /\ saver'[p].data = saver[p].data,
           snap'.kind = "data" => \/ snap' = snap \/ snap' = bak
                                  \/ \E p \in Saver : saver[p] # Idle /\ snap'.data = saver[p].data,
           bak'.kind = "data" => bak' = bak \/ bak' = snap,
           phase' = "down" => phase = "down" /\ thr' = thr /\ saver' = saver
    PROVE  BaseInv'
  <1>1. Values(hist, mem)'
    BY DEF BaseInv, Values, Value
  <1>2. (snap.kind = "data" => Values(hist, snap.data))'
    BY DEF BaseInv, Values, Value
  <1>3. (bak.kind = "data" => Values(hist, bak.data))'
    BY DEF BaseInv, Values, Value
  <1>4. ASSUME NEW p \in Saver, saver'[p] # Idle PROVE Values(hist', saver'[p].data)
    BY <1>4 DEF BaseInv, Values, Value
  <1>5. ASSUME NEW t \in Thread, thr'[t] # Idle PROVE PendingOK(t)'
    <2>1. thr'[t] = thr[t] /\ thr[t] # Idle /\ PendingOK(t)
      BY <1>5 DEF BaseInv
    <2> DEFINE id == thr[t].id
               k == hist[id].key
    <2>2. id \in 1 .. Len(hist) /\ k \in Key /\ mem[k] <= id /\ 0 <= id
      BY <2>1, StorageAssumption DEF PendingOK
    <2>3. mem'[k] <= id
      BY <2>2
    <2>4. ASSUME NEW p \in Saver, saver'[p] # Idle PROVE saver'[p].data[k] <= id
      BY <2>1, <2>2, <2>4 DEF PendingOK
    <2>5. QED
      BY <2>1, <2>3, <2>4 DEF PendingOK
  <1>6. QED
    BY <1>1, <1>2, <1>3, <1>4, <1>5 DEF BaseInv, LinesOK

\* An operation on a key of t is newer than everything.
LEMMA ApplyBase ==
    ASSUME TypeInv, BaseInv, OwnKeys, Apply
    PROVE  BaseInv'
  <1>1. PICK t \in Thread, op \in Ops, ttl \in TTLs, sync \in Syncs :
            \E k \in KeysOf[t] : ApplyToStore(t, op, k, ttl, sync)
    BY DEF Apply
  <1>2. PICK k \in KeysOf[t] : ApplyToStore(t, op, k, ttl, sync)
    BY <1>1
  <1> DEFINE n == Len(hist) + 1
  <1>3. /\ Len(hist) \in Nat /\ Len(hist') = n /\ k \in Key
        /\ hist'[n].key = k /\ hist'[n].op = op
        /\ \A j \in 1 .. Len(hist) : hist'[j] = hist[j]
    <2>1. hist \in Seq([op : {"SET", "DELETE"}, key : Key, ttl : BOOLEAN])
      BY DEF TypeInv, TypeOK
    <2>2. [op |-> op, key |-> k, ttl |-> ttl /\ op = "SET"]
            \in [op : {"SET", "DELETE"}, key : Key, ttl : BOOLEAN]
      BY StorageAssumption
    <2>3. hist' = Append(hist, [op |-> op, key |-> k, ttl |-> ttl /\ op = "SET"])
      BY <1>2 DEF ApplyToStore
    <2>4. QED
      BY <2>1, <2>2, <2>3, AppendProperties, LenProperties, StorageAssumption
  <1>4. /\ mem' = [mem EXCEPT ![k] = IF op = "SET" THEN n ELSE 0]
        /\ thr' = [thr EXCEPT ![t] = [pc |-> "append", id |-> n, sync |-> sync]]
        /\ UNCHANGED <<phase, aof, torn, snap, bak, saver, acked>>
        /\ phase # "down"
    BY <1>2 DEF ApplyToStore, log, snapshot
  <1> HIDE DEF n
  <1>5. n \in Nat /\ n = Len(hist) + 1
    BY <1>3 DEF n
  <1>6. ASSUME NEW d, Values(hist, d) PROVE Values(hist', d)
    BY <1>3, <1>5, <1>6 DEF Values, Value
  <1>7. Values(hist', mem')
    <2>1. ASSUME NEW j \in Key PROVE Value(hist', j, mem'[j])
      <3>1. CASE j = k
        <4>1. (op = "SET" /\ mem'[k] = n) \/ mem'[k] = 0
          BY <1>3, <1>4 DEF TypeInv, TypeOK, Data
        <4>2. QED
          BY <1>3, <1>5, <3>1, <4>1 DEF Value
      <3>2. CASE j # k
        <4>1. mem'[j] = mem[j] /\ Value(hist, j, mem[j])
          BY <1>4, <3>2 DEF TypeInv, TypeOK, Data, BaseInv, Values
        <4>2. QED
          BY <1>3, <1>5, <4>1 DEF Value
      <3>3. QED
        BY <3>1, <3>2
    <2>2. QED
      BY <2>1 DEF Values
  <1>8. LinesOK(hist', aof')
    <2>1. \A p \in 1 .. Len(aof) : aof[p] \in 1 .. Len(hist') /\ hist'[aof[p]] = hist[aof[p]]
      BY <1>3, <1>5 DEF BaseInv, LinesOK
    <2>2. QED
      BY <1>4, <2>1 DEF BaseInv, LinesOK
  <1>9. acked' \subseteq 1 .. Len(hist')
    BY <1>3, <1>4, <1>5 DEF BaseInv
  <1>10. ASSUME NEW u \in Thread, thr'[u] # Idle PROVE PendingOK(u)'
    <2>1. CASE u = t
      <3>1. thr'[u].id = n /\ thr'[u].pc = "append"
        BY <1>4, <2>1 DEF TypeInv, TypeOK
      <3>2. \A i \in acked : i < n
        BY <1>3, <1>5 DEF BaseInv
      <3>3. \A p \in 1 .. Len(aof) : aof[p] <= n
        BY <1>3, <1>5 DEF BaseInv, LinesOK
      <3>4. mem'[k] <= n
        BY <1>3, <1>4, <1>5 DEF TypeInv, TypeOK, Data
      <3>5. ASSUME NEW p \in Saver, saver[p] # Idle PROVE saver[p].data[k] <= n
        <4>1. Value(hist, k, saver[p].data[k])
          BY <1>3, <3>5 DEF BaseInv, Values
        <4>2. QED
          BY <1>3, <1>5, <4>1 DEF Value
      <3>6. QED
        BY <1>3, <1>4, <1>5, <2>1, <3>1, <3>2, <3>3, <3>4, <3>5 DEF PendingOK
    <2>2. CASE u # t
      <3>1. thr'[u] = thr[u] /\ PendingOK(u)
        BY <1>4, <1>10, <2>2 DEF TypeInv, TypeOK, BaseInv
      <3> DEFINE id == thr[u].id
      <3>2. id \in 1 .. Len(hist) /\ hist[id].key \in KeysOf[u] /\ hist'[id] = hist[id]
        BY <1>3, <3>1 DEF PendingOK
      <3>3. hist[id].key # k
        BY <2>2, <3>2 DEF OwnKeys
      <3>4. mem'[hist[id].key] = mem[hist[id].key]
        BY <1>4, <3>2, <3>3, StorageAssumption DEF TypeInv, TypeOK, Data
      <3>5. \A i \in acked : hist'[i] = hist[i]
        BY <1>3 DEF BaseInv
      <3>6. \A p \in 1 .. Len(aof) : hist'[aof[p]] = hist[aof[p]]
        BY <1>3 DEF BaseInv, LinesOK
      <3>7. id \in 1 .. Len(hist')
        BY <1>3, <1>5, <3>2
      <3>8. QED
        BY <1>4, <3>1, <3>2, <3>4, <3>5, <3>6, <3>7 DEF PendingOK
    <2>3. QED
      BY <2>1, <2>2
  <1>11. QED
    BY <1>4, <1>6, <1>7, <1>8, <1>9, <1>10 DEF BaseInv
\* The line of an operation goes behind those it is newer than.
LEMMA AppendBase ==
    ASSUME TypeInv, BaseInv, OwnKeys, NEW t \in Thread, AppendLine(t)
    PROVE  BaseInv'
  <1> DEFINE id == thr[t].id
             n == Len(aof) + 1
  <1>1. thr[t] # Idle /\ PendingOK(t) /\ thr[t] \in ThreadOp
    BY DEF AppendLine, Idle, BaseInv, TypeInv, TypeOK, ThreadOp
  <1>2. /\ id \in 1 .. Len(hist) /\ hist[id].key \in KeysOf[t]
        /\ \A p \in 1 .. Len(aof) : hist[aof[p]].key = hist[id].key => aof[p] <= id
    BY <1>1 DEF PendingOK
  <1>3. /\ Len(aof) \in Nat /\ Len(aof') = n /\ aof'[n] = id
        /\ \A p \in 1 .. Len(aof) : aof'[p] = aof[p]
    <2>1. aof \in Seq(0 .. MaxOps) /\ id \in 0 .. MaxOps /\ aof' = Append(aof, id)
      BY <1>1, StorageAssumption DEF AppendLine, BaseInv, TypeInv, TypeOK, ThreadOp, OpId
    <2>2. QED
      BY <2>1, AppendProperties, LenProperties
  <1>4. /\ UNCHANGED <<phase, mem, hist, acked, snap, bak, saver>> /\ torn' = FALSE
        /\ phase # "down"
    BY <1>1 DEF AppendLine, snapshot, history, BaseInv
  <1>5. /\ thr'[t] = Idle \/ (thr'[t].pc = "sync" /\ thr'[t].id = id)
        /\ \A u \in Thread \ {t} : thr'[u] = thr[u]
    BY <1>1 DEF AppendLine, TypeInv, TypeOK, ThreadOp
  <1> HIDE DEF id, n
  <1>6. LinesOK(hist', aof')
    <2>1. \A p \in 1 .. n : aof'[p] \in 1 .. Len(hist)
      BY <1>2, <1>3 DEF BaseInv, LinesOK, n
    <2>2. ASSUME NEW p \in 1 .. n, NEW q \in 1 .. n, p < q,
                 hist[aof'[p]].key = hist[aof'[q]].key
          PROVE  aof'[p] <= aof'[q]
      <3>1. p \in 1 .. Len(aof)
        BY <1>3, <2>2 DEF n
      <3>2. CASE q = n
        BY <1>2, <1>3, <2>2, <3>1, <3>2
      <3>3. CASE q # n
        <4>1. q \in 1 .. Len(aof)
          BY <1>3, <3>3 DEF n
        <4>2. QED
          BY <1>3, <2>2, <3>1, <4>1 DEF BaseInv, LinesOK
      <3>4. QED
        BY <3>2, <3>3
    <2>3. QED
      BY <1>3, <1>4, <2>1, <2>2 DEF LinesOK
  <1>7. ASSUME NEW u \in Thread, thr'[u] # Idle PROVE PendingOK(u)'
    <2>1. thr[u] # Idle /\ PendingOK(u) /\ thr'[u].id = thr[u].id
      BY <1>1, <1>5, <1>7 DEF BaseInv, id
    <2>2. hist[thr[u].id].key = hist[id].key => id <= thr[u].id
      <3>1. CASE u = t
        BY <1>2, <3>1 DEF id
      <3>2. CASE u # t
        <4>1. hist[thr[u].id].key \in KeysOf[u]
          BY <2>1 DEF PendingOK
        <4>2. QED
          BY <1>2, <3>2, <4>1 DEF OwnKeys
      <3>3. QED
        BY <3>1, <3>2
    <2>3. \A p \in 1 .. n : hist[aof'[p]].key = hist[thr[u].id].key => aof'[p] <= thr[u].id
      <3>1. ASSUME NEW p \in 1 .. n, hist[aof'[p]].key = hist[thr[u].id].key
            PROVE  aof'[p] <= thr[u].id
        <4>1. CASE p = n
          BY <1>3, <2>2, <3>1, <4>1
        <4>2. CASE p # n
          <5>1. p \in 1 .. Len(aof)
            BY <1>3, <4>2 DEF n
          <5>2. QED
            BY <1>3, <2>1, <3>1, <5>1 DEF PendingOK
        <4>3. QED
          BY <4>1, <4>2
      <3>2. QED
        BY <3>1
    <2>4. thr'[u].pc = "sync" => \E p \in 1 .. n : aof'[p] = thr[u].id
      <3>1. CASE u = t
        BY <1>3, <3>1 DEF id, n
      <3>2. CASE u # t
        <4>1. thr[u].pc = "sync" => \E p \in 1 .. Len(aof) : aof[p] = thr[u].id
          BY <2>1 DEF PendingOK
        <4>2. \A p \in 1 .. Len(aof) : p \in 1 .. n
          BY <1>3 DEF n
        <4>3. QED
          BY <1>3, <1>5, <3>2, <4>1, <4>2
      <3>3. QED
        BY <3>1, <3>2
    <2>5. QED
      BY <1>3, <1>4, <2>1, <2>3, <2>4 DEF PendingOK
  <1>8. QED
    BY <1>4, <1>6, <1>7 DEF BaseInv

\* The thread has its answer: the operation is older than those that follow.
LEMMA SyncBase ==
    ASSUME TypeInv, BaseInv, OwnKeys, NEW t \in Thread, AppendSync(t)
    PROVE  BaseInv'
  <1> DEFINE id == thr[t].id
  <1>1. thr[t] # Idle /\ PendingOK(t)
    BY DEF AppendSync, Idle, BaseInv
  <1>2. id \in 1 .. Len(hist) /\ hist[id].key \in KeysOf[t]
    BY <1>1 DEF PendingOK
  <1>3. /\ UNCHANGED <<phase, mem, aof, torn, hist, snap, bak, saver>>
        /\ acked' = acked \cup {id} /\ thr'[t] = Idle
        /\ \A u \in Thread \ {t} : thr'[u] = thr[u]
    BY DEF AppendSync, snapshot, TypeInv, TypeOK
  <1>4. ASSUME NEW u \in Thread, thr'[u] # Idle PROVE PendingOK(u)'
    <2>1. u # t /\ thr'[u] = thr[u] /\ PendingOK(u)
      BY <1>3, <1>4 DEF BaseInv
    <2>2. hist[thr[u].id].key \in KeysOf[u]
      BY <2>1 DEF PendingOK
    <2>3. hist[thr[u].id].key # hist[id].key
      BY <1>2, <2>1, <2>2 DEF OwnKeys
    <2>4. QED
      BY <1>3, <2>1, <2>3 DEF PendingOK
  <1>5. phase # "down"
    BY <1>1 DEF BaseInv
  <1>6. QED
    BY <1>2, <1>3, <1>4, <1>5 DEF BaseInv

\* Compaction replaces the lines by the captured values.
LEMMA CompactBase ==
    ASSUME TypeInv, BaseInv, CompactUnlink \/ CompactRename
    PROVE  BaseInv'
  <1> DEFINE s == saver["maintenance"]
  <1>1. /\ s # Idle /\ s \in Progress /\ "maintenance" \in Saver /\ s.data \in Data
        /\ Values(hist, s.data) /\ phase # "down"
        /\ \A t \in Thread : thr[t].pc # "sync"
    <2>1. /\ s.pc # "idle" /\ Idle.pc = "idle" /\ "maintenance" \in Saver
          /\ lock = "maintenance" /\ "maintenance" \notin Thread
      BY StorageAssumption DEF CompactUnlink, CompactRename, Idle, Saver, TypeInv, TypeOK
    <2>2. s # Idle /\ s \in Progress
      BY <2>1 DEF TypeInv, TypeOK, Progress, Steps
    <2>3. \A t \in Thread : thr[t].pc # "sync"
      BY <2>1 DEF TypeInv, TypeOK
    <2>4. QED
      BY <2>1, <2>2, <2>3 DEF BaseInv, Progress
  <1>2. UNCHANGED <<phase, mem, thr, hist, acked, snap, bak>>
    BY DEF CompactUnlink, CompactRename, snapshot
  <1>3. \A p \in Saver \ {"maintenance"} : saver'[p] = saver[p]
    BY DEF CompactUnlink, CompactRename, TypeInv, TypeOK
  <1>4. CASE CompactUnlink
    <2>1. aof' = <<>> /\ Len(aof') = 0 /\ torn' = FALSE
      BY <1>4 DEF CompactUnlink
    <2>2. saver'["maintenance"].data = Unexpired(s.data)
      BY <1>1, <1>4 DEF CompactUnlink, TypeInv, TypeOK, Progress
    <2>3. \A k \in Key : Unexpired(s.data)[k] \in {s.data[k], 0}
      BY DEF Unexpired
    <2> HIDE DEF s
    <2>4. Values(hist, Unexpired(s.data))
      BY <1>1, <2>3 DEF Values, Value
    <2>5. LinesOK(hist, aof')
      BY <2>1 DEF LinesOK
    <2>6. ASSUME NEW t \in Thread, thr[t] # Idle PROVE PendingOK(t)'
      <3>1. PendingOK(t)
        BY <2>6 DEF BaseInv
      <3>2. hist[thr[t].id].key \in Key /\ 0 <= thr[t].id
        BY <3>1, StorageAssumption DEF PendingOK
      <3>3. s.data[hist[thr[t].id].key] <= thr[t].id
        BY <1>1, <3>1 DEF PendingOK, s
      <3>4. Unexpired(s.data)[hist[thr[t].id].key] <= thr[t].id
        BY <2>3, <3>2, <3>3
      <3>5. QED
        BY <1>1, <1>2, <1>3, <2>1, <2>2, <3>1, <3>4 DEF PendingOK
    <2>7. QED
      BY <1>1, <1>2, <1>3, <2>1, <2>2, <2>4, <2>5, <2>6 DEF BaseInv
  <1>5. CASE CompactRename
    <2>1. /\ aof' = CompactedLines(s.data) /\ torn' = torn
          /\ saver'["maintenance"] = Idle
      BY <1>1, <1>5 DEF CompactRename, TypeInv, TypeOK
    <2> HIDE DEF s
    <2>2. \A p \in 1 .. Len(aof') : \E k \in Key : aof'[p] = s.data[k] /\ aof'[p] # 0
      <3>1. /\ aof' \in Seq(OpId)
            /\ \A p \in 1 .. Len(aof') : \E k \in Key : aof'[p] = s.data[k]
        BY <1>1, <2>1, CompactedFile
      <3>2. \A p \in 1 .. Len(aof') : aof'[p] # 0
        <4>1. \A p \in 1 .. Len(aof') : aof'[p] \in OpId
          BY <3>1, ElementOfSeq
        <4>2. QED
          BY <4>1, StorageAssumption DEF OpId
      <3>3. QED
        BY <3>1, <3>2
    <2>3. \A p \in 1 .. Len(aof') : /\ aof'[p] \in 1 .. Len(hist)
                                    /\ hist[aof'[p]].key \in Key
                                    /\ aof'[p] = s.data[hist[aof'[p]].key]
      BY <1>1, <2>2 DEF Values, Value
    <2>4. LinesOK(hist, aof')
      <3>1. \A p, q \in 1 .. Len(aof') :
               hist[aof'[p]].key = hist[aof'[q]].key => aof'[p] = aof'[q]
        BY <2>3
      <3>2. QED
        BY <2>3, <3>1 DEF LinesOK
    <2>5. ASSUME NEW t \in Thread, thr[t] # Idle PROVE PendingOK(t)'
      <3>1. PendingOK(t)
        BY <2>5 DEF BaseInv
      <3>2. s.data[hist[thr[t].id].key] <= thr[t].id
        BY <1>1, <3>1 DEF PendingOK, s
      <3>3. \A p \in 1 .. Len(aof') : hist[aof'[p]].key = hist[thr[t].id].key => aof'[p] <= thr[t].id
        BY <2>3, <3>2
      <3>4. QED
        BY <1>1, <1>2, <1>3, <2>1, <3>1, <3>3 DEF PendingOK
    <2>6. QED
      BY <1>1, <1>2, <1>3, <2>1, <2>4, <2>5 DEF BaseInv
  <1>6. QED
    BY <1>4, <1>5
\* The operations that replay finds for k: positions of lines.
ReplayedAt(k) == {i \in 1 .. Len(aof) : /\ aof[i] # 0
                                         /\ hist[aof[i]].key = k
                                         /\ aof[i] \notin late}

\* Replay ends with the last line of the key that has not expired.
LEMMA ReplayResult ==
    ASSUME TypeInv, NEW d, NEW k \in Key
    PROVE  \/ ReplayedAt(k) = {} /\ Replay(d)[k] = d[k]
           \/ \E last \in ReplayedAt(k) :
                 /\ \A j \in ReplayedAt(k) : j <= last
                 /\ Replay(d)[k] = IF hist[aof[last]].op = "SET" THEN aof[last] ELSE 0
  <1> DEFINE at == ReplayedAt(k)
             last == CHOOSE i \in at : \A j \in at : j <= i
  <1>1. Replay(d)[k] = IF at = {} THEN d[k]
                       ELSE IF hist[aof[last]].op = "SET" THEN aof[last] ELSE 0
    BY DEF Replay, ReplayedAt
  <1>2. Len(aof) \in Nat /\ at \subseteq 1 .. Len(aof)
    BY LenProperties DEF TypeInv, TypeOK, ReplayedAt
  <1> HIDE DEF at
  <1>3. at # {} => last \in at /\ \A j \in at : j <= last
    BY <1>2, LastPosition
  <1>4. QED
    BY <1>1, <1>3 DEF at

\* The process is gone, a prefix of the lines is left.
LEMMA EndBase ==
    ASSUME TypeInv, BaseInv, ProcessEnds, NEW n \in 0 .. Len(aof),
           aof' = SubSeq(aof, 1, n), torn' = FALSE,
           snap'.kind = "data" => snap' = snap
    PROVE  BaseInv'
  <1>1. /\ UNCHANGED <<bak, hist, acked>> /\ phase' = "down" /\ mem' = NoData
        /\ thr' = [t \in Thread |-> Idle] /\ saver' = [p \in Saver |-> Idle]
    BY DEF ProcessEnds
  <1>2. Len(aof') = n /\ \A p \in 1 .. n : aof'[p] = aof[p] /\ p \in 1 .. Len(aof)
    <2>1. aof \in Seq(0 .. MaxOps) /\ Len(aof) \in Nat
      BY LenProperties DEF TypeInv, TypeOK
    <2>2. QED
      BY <2>1, KeptPrefix
  <1>3. LinesOK(hist', aof')
    BY <1>1, <1>2 DEF BaseInv, LinesOK
  <1>4. Values(hist', mem')
    BY <1>1 DEF Values, Value, NoData
  <1>5. QED
    BY <1>1, <1>3, <1>4 DEF BaseInv

\* The whole file is a prefix of itself.
LEMMA WholeFile ==
    ASSUME TypeInv
    PROVE  SubSeq(aof, 1, Len(aof)) = aof /\ Len(aof) \in 0 .. Len(aof) /\ Len(aof) \in Nat
  <1>1. aof \in Seq(0 .. MaxOps) /\ Len(aof) \in Nat
    BY LenProperties DEF TypeInv, TypeOK
  <1>2. Len(aof) \in 0 .. Len(aof)
    BY <1>1
  <1>3. /\ SubSeq(aof, 1, Len(aof)) \in Seq(0 .. MaxOps)
        /\ Len(SubSeq(aof, 1, Len(aof))) = Len(aof)
        /\ \A i \in 1 .. Len(aof) : SubSeq(aof, 1, Len(aof))[i] = aof[i]
    BY <1>1, <1>2, KeptPrefix
  <1>4. QED
    BY <1>1, <1>2, <1>3, SeqEqual

\* Recovery: the store has values of the files only.
LEMMA RecoverBase ==
    ASSUME TypeInv, BaseInv, Recover
    PROVE  BaseInv'
  <1>1. /\ UNCHANGED <<aof, torn, bak, hist, acked, saver, thr>> /\ phase' = "running"
        /\ phase = "down" /\ mem' = Replay(Loaded)
        /\ snap' = IF snap = Corrupt /\ bak # NoFile THEN bak ELSE snap
    BY DEF Recover, history
  <1>2. Values(hist, Loaded)
    <2>1. ASSUME NEW d, Values(hist, d) PROVE Values(hist, Unexpired(d))
      BY <2>1 DEF Values, Value, Unexpired
    <2>2. Values(hist, NoData)
      BY DEF Values, Value, NoData
    <2>3. QED
      BY <2>1, <2>2 DEF Loaded, BaseInv
  <1>3. ASSUME NEW k \in Key PROVE Value(hist, k, Replay(Loaded)[k])
    <2>1. \A i \in ReplayedAt(k) :
             Value(hist, k, IF hist[aof[i]].op = "SET" THEN aof[i] ELSE 0)
      BY DEF ReplayedAt, BaseInv, LinesOK, Value
    <2>2. Value(hist, k, 0) /\ Value(hist, k, Loaded[k])
      BY <1>2 DEF Value, Values
    <2>3. QED
      BY <2>1, <2>2, ReplayResult
  <1>4. Values(hist', mem')
    BY <1>1, <1>3 DEF Values
  <1>5. QED
    BY <1>1, <1>4 DEF BaseInv

\* Steps that append nothing.
LEMMA OtherBase ==
    ASSUME TypeInv, BaseInv,
           \/ \E t \in Thread : AppendRaises(t)
           \/ FsyncTick \/ CleanupExpired
           \/ \E i \in OpId : TimePasses(i)
           \/ \E p \in Saver : Capture(p) \/ SaveStep(p)
           \/ EndMaintenance \/ CompactBegin \/ CompactFails
           \/ StopBegin \/ CloseAof
           \/ UNCHANGED vars
    PROVE  BaseInv'
  <1> USE DEF log, snapshot, history
  <1>1. /\ thr \in [Thread -> {Idle} \cup ThreadOp] /\ mem \in [Key -> 0 .. MaxOps]
        /\ saver \in [Saver -> {Idle} \cup Progress] /\ Idle.pc = "idle"
        /\ \A x : Saved(x).data = x
        /\ "maintenance" \in Saver /\ "stop" \in Saver
    BY DEF TypeInv, TypeOK, ThreadOp, Progress, Steps, Data, Idle, Saved, Saver
  <1>2. \A k \in Key : Unexpired(mem)[k] \in {mem[k], 0}
    BY DEF Unexpired
  <1>3. \A p \in Saver, x \in Steps : saver[p] # Idle =>
           [saver EXCEPT ![p].pc = x][p].data = saver[p].data
    BY <1>1 DEF Progress
  <1>4. ASSUME NEW t \in Thread, AppendRaises(t) PROVE BaseInv'
    <2>1. phase # "down"
      BY <1>1, <1>4 DEF AppendRaises, BaseInv
    <2>2. QED
      BY <1>1, <1>4, <2>1, QuietBase DEF AppendRaises
  <1>5. CASE FsyncTick \/ StopBegin \/ UNCHANGED vars
    BY <1>1, <1>5, QuietBase DEF FsyncTick, StopBegin, vars
  <1>6. CASE CleanupExpired
    BY <1>1, <1>2, <1>6, QuietBase DEF CleanupExpired
  <1>7. ASSUME NEW i \in OpId, TimePasses(i) PROVE BaseInv'
    BY <1>1, <1>7, QuietBase DEF TimePasses
  <1>8. ASSUME NEW p \in Saver, Capture(p) PROVE BaseInv'
    <2>1. /\ saver'[p].data = Unexpired(mem)
          /\ \A q \in Saver \ {p} : saver'[q] = saver[q]
          /\ mem' = Unexpired(mem) /\ phase' = phase /\ phase # "down"
          /\ UNCHANGED <<thr, hist, aof, acked, torn, snap, bak>>
      BY <1>1, <1>8 DEF Capture
    <2>2. QED
      BY <1>1, <1>2, <2>1, QuietBase
  <1>9. ASSUME NEW p \in Saver, saver[p] # Idle, NEW x \in Steps,
               saver' = [saver EXCEPT ![p].pc = x] \/ saver' = [saver EXCEPT ![p] = Idle],
               UNCHANGED <<phase, mem, thr, hist, aof, acked, torn>>,
               snap'.kind = "data" => snap' = snap \/ snap'.data = saver[p].data,
               bak'.kind = "data" => bak' = bak \/ bak' = snap
        PROVE  BaseInv'
    <2>1. phase # "down"
      BY <1>9 DEF BaseInv
    <2>2. saver'[p] = Idle \/ saver'[p].data = saver[p].data
      BY <1>1, <1>3, <1>9
    <2>3. \A q \in Saver \ {p} : saver'[q] = saver[q]
      BY <1>1, <1>9
    <2>4. QED
      BY <1>1, <1>9, <2>1, <2>2, <2>3, QuietBase
  <1>10. ASSUME NEW p \in Saver, SaveStep(p) PROVE BaseInv'
    <2>1. saver[p] # Idle /\ NoFile.kind = "none" /\ "renaming" \in Steps
          /\ "saved" \in Steps /\ "failed" \in Steps
      BY <1>1, <1>10 DEF SaveStep, SaveBackup, SaveRename, SaveFails, NoFile, Steps
    <2>2. CASE SaveBackup(p)
      BY <1>9, <2>1, <2>2 DEF SaveBackup
    <2>3. CASE SaveRename(p)
      BY <1>1, <1>9, <2>1, <2>3 DEF SaveRename
    <2>4. CASE SaveFails(p)
      BY <1>9, <2>1, <2>4 DEF SaveFails
    <2>5. QED
      BY <1>10, <2>2, <2>3, <2>4 DEF SaveStep
  <1>11. CASE EndMaintenance \/ CompactBegin \/ CompactFails
    <2>1. saver["maintenance"] # Idle /\ "rewriting" \in Steps
      BY <1>1, <1>11 DEF EndMaintenance, CompactBegin, CompactFails, Steps
    <2>2. QED
      BY <1>1, <1>9, <1>11, <2>1 DEF EndMaintenance, CompactBegin, CompactFails
  <1>12. CASE CloseAof
    <2>1. saver["stop"] # Idle /\ "closed" \in Steps
      BY <1>1, <1>12 DEF CloseAof, Steps
    <2>2. QED
      BY <1>1, <1>9, <1>12, <2>1 DEF CloseAof
  <1>13. QED
    BY <1>4, <1>5, <1>6, <1>7, <1>8, <1>10, <1>11, <1>12

\* Every step keeps it.
LEMMA StepBase ==
    ASSUME TypeInv, BaseInv, OwnKeys, ~Tear, [Next]_vars
    PROVE  BaseInv'
  <1>1. ASSUME NEW kind \in Crashes, Crash(kind) PROVE BaseInv'
    <2>1. PICK n \in synced .. Len(aof) :
              /\ aof' = SubSeq(aof, 1, n) /\ synced' = n
              /\ torn' \in IF n = Len(aof) THEN {torn} ELSE {FALSE, Tear}
      BY <1>1 DEF Crash
    <2>2. n \in 0 .. Len(aof)
      BY WholeFile DEF TypeInv, TypeOK
    <2>3. torn' = FALSE
      BY <2>1, StorageAssumption DEF BaseInv
    <2>4. snap'.kind = "data" => snap' = snap
      BY <1>1 DEF Crash, Corrupt
    <2>5. QED
      BY <1>1, <2>1, <2>2, <2>3, <2>4, EndBase DEF Crash
  <1>2. CASE Exit
    BY <1>2, EndBase, WholeFile DEF Exit, BaseInv
  <1>3. QED
    BY <1>1, <1>2, ApplyBase, AppendBase, SyncBase, CompactBase, RecoverBase, OtherBase
       DEF Next, ThreadStep, MaintenanceStep
\* A node that starts.
LEMMA InitBase == Init => BaseInv
  <1> SUFFICES ASSUME Init PROVE BaseInv
    OBVIOUS
  <1>1. /\ \A t \in Thread : thr[t] = Idle
        /\ \A p \in Saver : saver[p] = Idle
        /\ aof = <<>> /\ Len(aof) = 0 /\ acked = {} /\ torn = FALSE /\ phase = "running"
        /\ mem = NoData /\ snap.kind = "none" /\ bak.kind = "none"
    BY DEF Init, NoFile
  <1>2. LinesOK(hist, aof)
    BY <1>1 DEF LinesOK
  <1>3. Values(hist, mem)
    BY <1>1 DEF Values, Value, NoData
  <1>4. QED
    BY <1>1, <1>2, <1>3 DEF BaseInv

-----------------------------------------------------------------------------
(* Data that reflect an operation. *)

\* d holds operation i of the history h or a later one of its key, or nothing
\* because that one deleted the key or has expired.
Covered(h, l, d, i) ==
    LET k == h[i].key
    IN  \/ d[k] >= i
        \/ /\ d[k] = 0
           /\ \E j \in i .. Len(h) : h[j].key = k /\ (h[j].op = "DELETE" \/ j \in l)

\* The fields of an operation.
LEMMA HistFields ==
    ASSUME TypeInv
    PROVE  /\ Len(hist) \in Nat
           /\ \A i \in 1 .. Len(hist) : hist[i].key \in Key /\ hist[i].op \in {"SET", "DELETE"}
  <1> DEFINE Op == [op : {"SET", "DELETE"}, key : Key, ttl : BOOLEAN]
  <1>1. hist \in Seq(Op)
    BY DEF TypeInv, TypeOK
  <1>2. \A o \in Op : o.key \in Key /\ o.op \in {"SET", "DELETE"}
    OBVIOUS
  <1> HIDE DEF Op
  <1>3. Len(hist) \in Nat /\ \A i \in 1 .. Len(hist) : hist[i] \in Op
    BY <1>1, ElementOfSeq, LenProperties
  <1>4. QED
    BY <1>2, <1>3

\* Later operations and the passing of time change nothing about it.
LEMMA CoveredGrows ==
    ASSUME NEW h, NEW g, NEW l, NEW m, NEW d, Len(h) \in Nat, Len(g) \in Nat, Len(h) <= Len(g),
           \A j \in 1 .. Len(h) : g[j] = h[j], l \subseteq m,
           NEW i \in 1 .. Len(h), Covered(h, l, d, i)
    PROVE  Covered(g, m, d, i)
  <1>1. \A j \in i .. Len(h) : j \in i .. Len(g) /\ g[j] = h[j]
    OBVIOUS
  <1>2. g[i] = h[i]
    OBVIOUS
  <1>3. QED
    BY <1>1, <1>2 DEF Covered

\* Dropping expired values changes nothing about it.
LEMMA CoveredUnexpired ==
    ASSUME TypeInv, NEW d \in Data, Values(hist, d), NEW i \in 1 .. Len(hist),
           Covered(hist, late, d, i)
    PROVE  Covered(hist, late, Unexpired(d), i)
  <1> DEFINE k == hist[i].key
  <1>1. hist \in Seq([op : {"SET", "DELETE"}, key : Key, ttl : BOOLEAN]) /\ Len(hist) \in Nat
    BY LenProperties DEF TypeInv, TypeOK
  <1>2. k \in Key
    BY HistFields
  <1>3. Unexpired(d)[k] = IF d[k] \in late THEN 0 ELSE d[k]
    BY <1>2 DEF Unexpired
  <1>4. CASE d[k] \in late /\ d[k] >= i
    <2>1. d[k] \in i .. Len(hist) /\ hist[d[k]].key = k
      BY <1>1, <1>2, <1>4 DEF Values, Value
    <2>2. QED
      BY <1>3, <1>4, <2>1 DEF Covered
  <1>5. CASE ~(d[k] \in late /\ d[k] >= i)
    BY <1>3, <1>5 DEF Covered
  <1>6. QED
    BY <1>4, <1>5

\* The store keeps what it reflects while the process runs.
LEMMA StoreKeeps ==
    ASSUME TypeInv, BaseInv, [Next]_vars, phase # "down", phase' # "down",
           NEW i \in 1 .. Len(hist), Covered(hist, late, mem, i)
    PROVE  Covered(hist', late', mem', i)
  <1>1. Len(hist) \in Nat /\ i \in Nat
    BY LenProperties DEF TypeInv, TypeOK
  <1>2. CASE Apply
    <2>1. PICK t \in Thread, op \in Ops, ttl \in TTLs, sync \in Syncs :
              \E k \in KeysOf[t] : ApplyToStore(t, op, k, ttl, sync)
      BY <1>2 DEF Apply
    <2>2. PICK k \in KeysOf[t] : ApplyToStore(t, op, k, ttl, sync)
      BY <2>1
    <2> DEFINE n == Len(hist) + 1
               r == [op |-> op, key |-> k, ttl |-> ttl /\ op = "SET"]
    <2>3. /\ hist' = Append(hist, r) /\ late' = late /\ r.key = k /\ r.op = op
          /\ mem' = [mem EXCEPT ![k] = IF op = "SET" THEN n ELSE 0]
      BY <2>2 DEF ApplyToStore
    <2>4. op \in {"SET", "DELETE"} /\ k \in Key
      BY StorageAssumption
    <2>5. Len(hist') = n /\ hist'[n].key = k /\ hist'[n].op = op
          /\ \A j \in 1 .. Len(hist) : hist'[j] = hist[j]
      <3>1. hist \in Seq([op : {"SET", "DELETE"}, key : Key, ttl : BOOLEAN])
            /\ r \in [op : {"SET", "DELETE"}, key : Key, ttl : BOOLEAN]
        BY <2>4 DEF TypeInv, TypeOK
      <3> HIDE DEF r
      <3>2. QED
        BY <2>3, <3>1, AppendProperties
    <2> HIDE DEF r
    <2>6. CASE hist[i].key = k
      <3>1. mem'[k] = IF op = "SET" THEN n ELSE 0
        BY <2>3, <2>4 DEF TypeInv, TypeOK, Data
      <3>2. n \in i .. Len(hist') /\ n >= i
        BY <1>1, <2>5
      <3>3. hist'[i].key = k
        BY <2>5, <2>6
      <3>4. QED
        BY <2>4, <2>5, <3>1, <3>2, <3>3 DEF Covered
    <2>7. CASE hist[i].key # k
      <3>1. mem'[hist[i].key] = mem[hist[i].key]
        <4>1. hist[i].key \in Key
          BY HistFields
        <4>2. QED
          BY <2>3, <2>7, <4>1 DEF TypeInv, TypeOK, Data
      <3>2. Len(hist') \in Nat /\ Len(hist) <= Len(hist')
        BY <1>1, <2>5
      <3>3. Covered(hist', late', mem, i)
        BY <1>1, <2>3, <2>5, <3>2, CoveredGrows
      <3>4. hist'[i] = hist[i]
        BY <2>5
      <3>5. QED
        BY <3>1, <3>3, <3>4 DEF Covered
    <2>8. QED
      BY <2>6, <2>7
  <1>3. CASE CleanupExpired \/ \E p \in Saver : Capture(p)
    <2>1. hist' = hist /\ late' = late /\ mem' = Unexpired(mem)
      BY <1>3 DEF CleanupExpired, Capture, history
    <2>2. mem \in Data /\ Values(hist, mem)
      BY DEF TypeInv, TypeOK, BaseInv
    <2>3. QED
      BY <2>1, <2>2, CoveredUnexpired
  <1>4. ASSUME hist' = hist, mem' = mem, late \subseteq late' PROVE Covered(hist', late', mem', i)
    BY <1>1, <1>4, CoveredGrows
  <1>5. ASSUME NEW p \in Saver, SaveStep(p) PROVE hist' = hist /\ mem' = mem /\ late' = late
    BY <1>5 DEF SaveStep, SaveBackup, SaveRename, SaveFails, history
  <1>6. ASSUME NEW t \in Thread, ThreadStep(t) PROVE hist' = hist /\ mem' = mem /\ late' = late
    BY <1>6 DEF ThreadStep, AppendLine, AppendRaises, AppendSync, history
  <1>7. ASSUME MaintenanceStep PROVE hist' = hist /\ mem' = mem /\ late' = late
    BY <1>7 DEF MaintenanceStep, EndMaintenance, CompactBegin, CompactFails, CompactUnlink,
                CompactRename, history
  <1>8. ASSUME \/ FsyncTick \/ StopBegin \/ CloseAof \/ UNCHANGED vars
               \/ \E j \in OpId : TimePasses(j)
        PROVE  hist' = hist /\ mem' = mem /\ late \subseteq late'
    BY <1>8 DEF FsyncTick, StopBegin, CloseAof, TimePasses, vars, history
  <1>9. ASSUME Exit \/ (\E kind \in Crashes : Crash(kind)) \/ Recover PROVE FALSE
    BY <1>9 DEF Exit, Crash, ProcessEnds, Recover
  <1>10. QED
    BY <1>2, <1>3, <1>4, <1>5, <1>6, <1>7, <1>8, <1>9 DEF Next

\* The store reflects what is applied to it.
LEMMA StoreTakes ==
    ASSUME TypeInv, NEW t \in Thread, NEW op \in Ops, NEW ttl \in TTLs, NEW sync \in Syncs,
           NEW k \in KeysOf[t], ApplyToStore(t, op, k, ttl, sync)
    PROVE  Covered(hist', late', mem', Len(hist) + 1)
  <1> DEFINE n == Len(hist) + 1
             r == [op |-> op, key |-> k, ttl |-> ttl /\ op = "SET"]
  <1>1. /\ hist' = Append(hist, r) /\ r.key = k /\ r.op = op
        /\ mem' = [mem EXCEPT ![k] = IF op = "SET" THEN n ELSE 0]
    BY DEF ApplyToStore
  <1>2. op \in {"SET", "DELETE"} /\ k \in Key /\ Len(hist) \in Nat
    BY StorageAssumption, LenProperties DEF TypeInv, TypeOK
  <1>3. Len(hist') = n /\ hist'[n].key = k /\ hist'[n].op = op
    <2>1. hist \in Seq([op : {"SET", "DELETE"}, key : Key, ttl : BOOLEAN])
          /\ r \in [op : {"SET", "DELETE"}, key : Key, ttl : BOOLEAN]
      BY <1>2 DEF TypeInv, TypeOK
    <2> HIDE DEF r
    <2>2. QED
      BY <1>1, <2>1, AppendProperties
  <1>4. mem'[k] = IF op = "SET" THEN n ELSE 0
    BY <1>1, <1>2 DEF TypeInv, TypeOK, Data
  <1>5. n \in n .. Len(hist') /\ n >= n
    BY <1>2, <1>3
  <1>6. QED
    BY <1>2, <1>3, <1>4, <1>5 DEF Covered

\* Replay reflects every line that has not expired, whatever the snapshot held.
LEMMA ReplayCovers ==
    ASSUME TypeInv, BaseInv, NEW d, NEW i \in 1 .. Len(hist), i \notin late,
           \E p \in ReplayedAt(hist[i].key) : aof[p] >= i,
           \A p \in ReplayedAt(hist[i].key) :
              (\A q \in ReplayedAt(hist[i].key) : q <= p) => aof[p] >= i
    PROVE  Covered(hist, late, Replay(d), i)
  <1> DEFINE k == hist[i].key
  <1>1. k \in Key /\ Len(hist) \in Nat
    BY HistFields
  <1>2. PICK last \in ReplayedAt(k) :
                 /\ \A j \in ReplayedAt(k) : j <= last
                 /\ Replay(d)[k] = IF hist[aof[last]].op = "SET" THEN aof[last] ELSE 0
    BY <1>1, ReplayResult
  <1>3. aof[last] >= i
    BY <1>2
  <1>4. aof[last] \in 1 .. Len(hist) /\ hist[aof[last]].key = k
    BY DEF ReplayedAt, BaseInv, LinesOK
  <1>5. hist[aof[last]].op \in {"SET", "DELETE"}
    BY <1>4, HistFields
  <1>6. aof[last] \in i .. Len(hist)
    BY <1>1, <1>3, <1>4
  <1>7. QED
    BY <1>2, <1>3, <1>4, <1>5, <1>6 DEF Covered

\* A line of the AOF is followed by no older one of its key.
LEMMA LineCovered ==
    ASSUME TypeInv, BaseInv, NEW d, NEW p \in 1 .. Len(aof), aof[p] \notin late
    PROVE  Covered(hist, late, Replay(d), aof[p])
  <1> DEFINE i == aof[p]
             at == ReplayedAt(hist[i].key)
  <1>1. i \in 1 .. Len(hist) /\ Len(aof) \in Nat /\ Len(hist) \in Nat
    BY LenProperties DEF BaseInv, LinesOK, TypeInv, TypeOK
  <1>2. p \in at /\ i >= i
    BY <1>1 DEF ReplayedAt
  <1>3. ASSUME NEW q \in at, p <= q PROVE aof[q] >= i
    <2>1. q \in 1 .. Len(aof) /\ hist[aof[q]].key = hist[i].key /\ aof[q] \in Int
      BY <1>1 DEF ReplayedAt, BaseInv, LinesOK
    <2>2. CASE p = q
      BY <1>2, <2>2
    <2>3. CASE p # q
      <3>1. p < q
        BY <1>1, <1>3, <2>1, <2>3
      <3>2. aof[p] <= aof[q]
        BY <2>1, <3>1 DEF BaseInv, LinesOK
      <3>3. QED
        BY <1>1, <2>1, <3>2
    <2>4. QED
      BY <2>2, <2>3
  <1>4. \A q \in at : (\A r \in at : r <= q) => aof[q] >= i
    BY <1>2, <1>3
  <1>5. QED
    BY <1>1, <1>2, <1>4, ReplayCovers
-----------------------------------------------------------------------------
(* Without compaction the AOF has a line of every acknowledged operation.  *)

LogInv ==
    /\ saver["maintenance"].pc \notin {"rewriting", "gap"}
    /\ entries <= Len(aof)
    /\ \A p, q \in 1 .. Len(aof) : aof[p] = aof[q] => p = q
    /\ \A t \in Thread : thr[t] # Idle /\ thr[t].pc = "append" =>
                            \A p \in 1 .. Len(aof) : aof[p] # thr[t].id
    /\ \A i \in acked : \E p \in 1 .. synced : aof[p] = i
    /\ phase # "down" =>
          /\ \A p \in 1 .. Len(aof) : aof[p] \notin late => Covered(hist, late, mem, aof[p])
          /\ \A t \in Thread : thr[t] # Idle => Covered(hist, late, mem, thr[t].id)

LogI == TypeInv /\ BaseInv /\ LogInv

\* Fewer operations than _compact_threshold never make the AOF long enough.
LEMMA FewLines ==
    ASSUME LogI, MaxOps < CompactThreshold
    PROVE  entries < CompactThreshold
  <1>1. /\ Len(aof) \in Nat /\ Len(hist) \in Nat /\ Len(hist) <= MaxOps
        /\ aof \in [1 .. Len(aof) -> 0 .. MaxOps] /\ entries \in Nat
    BY LenProperties DEF LogI, TypeInv, TypeOK
  <1>2. aof \in Injection(1 .. Len(aof), 1 .. Len(hist))
    <2>1. aof \in [1 .. Len(aof) -> 1 .. Len(hist)]
      BY <1>1 DEF LogI, BaseInv, LinesOK
    <2>2. IsInjective(aof)
      BY <1>1 DEF LogI, LogInv, IsInjective
    <2>3. QED
      BY <2>1, <2>2 DEF Injection
  <1>3. Cardinality(1 .. Len(aof)) <= Cardinality(1 .. Len(hist)) /\ IsFiniteSet(1 .. Len(hist))
    BY <1>1, <1>2, FS_Injection, FS_Interval
  <1>a. \A n \in Nat : Cardinality(1 .. n) = n
    <2>1. \A n \in Nat : Cardinality(1 .. n) = IF 1 > n THEN 0 ELSE n - 1 + 1
      BY FS_Interval
    <2>2. QED
      BY <2>1
  <1>4. Len(aof) <= Len(hist)
    BY <1>1, <1>3, <1>a
  <1>5. QED
    BY <1>1, <1>4, StorageAssumption DEF LogI, LogInv

\* Steps that leave the lines and the answers alone.
LEMMA QuietLog ==
    ASSUME LogI, [Next]_vars, phase # "down", phase' # "down",
           hist' = hist, aof' = aof, acked' = acked, entries' = entries,
           synced' \in synced .. Len(aof), late \subseteq late',
           \A t \in Thread : thr'[t] \in {thr[t], Idle},
           saver'["maintenance"].pc \notin {"rewriting", "gap"}
    PROVE  LogInv'
  <1>1. \A i \in 1 .. Len(hist) : Covered(hist, late, mem, i) => Covered(hist', late', mem', i)
    BY StoreKeeps DEF LogI
  <1>2. \A p \in 1 .. Len(aof) : aof[p] \in 1 .. Len(hist)
    BY DEF LogI, BaseInv, LinesOK
  <1>3. \A t \in Thread : thr[t] # Idle => thr[t].id \in 1 .. Len(hist)
    BY DEF LogI, BaseInv, PendingOK
  <1>4. \A p \in 1 .. synced : p \in 1 .. synced'
    BY WholeFile DEF LogI, TypeInv, TypeOK
  <1>5. \A p \in 1 .. Len(aof) : aof[p] \notin late' => Covered(hist', late', mem', aof[p])
    BY <1>1, <1>2 DEF LogI, LogInv
  <1>6. \A t \in Thread : thr'[t] # Idle => Covered(hist', late', mem', thr'[t].id)
    BY <1>1, <1>3 DEF LogI, LogInv
  <1>7. \A i \in acked' : \E p \in 1 .. synced' : aof'[p] = i
    BY <1>4 DEF LogI, LogInv
  <1>8. QED
    BY <1>5, <1>6, <1>7 DEF LogI, LogInv

\* An operation that is applied has no line yet.
LEMMA ApplyLog ==
    ASSUME LogI, Apply
    PROVE  LogInv'
  <1>1. PICK t \in Thread, op \in Ops, ttl \in TTLs, sync \in Syncs :
            \E k \in KeysOf[t] : ApplyToStore(t, op, k, ttl, sync)
    BY DEF Apply
  <1>2. PICK k \in KeysOf[t] : ApplyToStore(t, op, k, ttl, sync)
    BY <1>1
  <1>3. /\ UNCHANGED <<phase, aof, synced, entries, saver, acked, late>> /\ phase # "down"
        /\ thr'[t].id = Len(hist) + 1
        /\ \A u \in Thread \ {t} : thr'[u] = thr[u]
    BY <1>2 DEF ApplyToStore, log, LogI, TypeInv, TypeOK
  <1>4. \A i \in 1 .. Len(hist) : Covered(hist, late, mem, i) => Covered(hist', late', mem', i)
    BY <1>3, StoreKeeps DEF LogI, Next
  <1>5. Covered(hist', late', mem', Len(hist) + 1)
    BY <1>2, StoreTakes DEF LogI
  <1>6. \A p \in 1 .. Len(aof) : aof[p] \in 1 .. Len(hist) /\ aof[p] # Len(hist) + 1
    BY HistFields DEF LogI, BaseInv, LinesOK
  <1>7. \A u \in Thread : thr[u] # Idle => thr[u].id \in 1 .. Len(hist)
    BY DEF LogI, BaseInv, PendingOK
  <1>8. \A u \in Thread : thr'[u] # Idle => Covered(hist', late', mem', thr'[u].id)
    BY <1>3, <1>4, <1>5, <1>7 DEF LogI, LogInv
  <1>9. \A p \in 1 .. Len(aof) : aof[p] \notin late' => Covered(hist', late', mem', aof[p])
    BY <1>3, <1>4, <1>6 DEF LogI, LogInv
  <1>10. \A u \in Thread : thr'[u] # Idle /\ thr'[u].pc = "append" =>
                                \A p \in 1 .. Len(aof) : aof[p] # thr'[u].id
    BY <1>3, <1>6 DEF LogI, LogInv
  <1>11. QED
    BY <1>3, <1>8, <1>9, <1>10 DEF LogI, LogInv

\* A line is appended once.
LEMMA AppendLog ==
    ASSUME LogI, OwnKeys, NEW t \in Thread, AppendLine(t)
    PROVE  LogInv'
  <1> DEFINE id == thr[t].id
             n == Len(aof) + 1
  <1>1. thr[t] # Idle /\ PendingOK(t) /\ thr[t] \in ThreadOp
    BY DEF AppendLine, Idle, LogI, BaseInv, TypeInv, TypeOK, ThreadOp
  <1>2. /\ Len(aof) \in Nat /\ Len(aof') = n /\ aof'[n] = id
        /\ \A p \in 1 .. Len(aof) : aof'[p] = aof[p]
    <2>1. aof \in Seq(0 .. MaxOps) /\ id \in 0 .. MaxOps /\ aof' = Append(aof, id)
      BY <1>1, StorageAssumption DEF AppendLine, LogI, BaseInv, TypeInv, TypeOK, ThreadOp, OpId
    <2>2. QED
      BY <2>1, AppendProperties, LenProperties
  <1>3. /\ UNCHANGED <<phase, mem, hist, late, acked, saver, synced>>
        /\ entries' = entries + 1 /\ phase # "down" /\ synced \in 0 .. Len(aof) /\ entries \in Nat
    BY <1>1 DEF AppendLine, snapshot, history, LogI, BaseInv, TypeInv, TypeOK
  <1>4. /\ thr'[t] = Idle \/ (thr'[t].pc = "sync" /\ thr'[t].id = id)
        /\ \A u \in Thread \ {t} : thr'[u] = thr[u]
    BY <1>1 DEF AppendLine, LogI, TypeInv, TypeOK, ThreadOp
  <1>5. \A p \in 1 .. Len(aof) : aof[p] # id
    BY <1>1 DEF AppendLine, LogI, LogInv
  <1>6. ASSUME NEW u \in Thread, u # t, thr[u] # Idle PROVE thr[u].id # id
    BY <1>1, <1>6 DEF LogI, BaseInv, PendingOK, OwnKeys
  <1> HIDE DEF id
  <1>7. \A p \in 1 .. n : p = n \/ p \in 1 .. Len(aof)
    BY <1>2
  <1>8. n \in 1 .. n /\ n \notin 1 .. Len(aof)
    BY <1>2
  <1> HIDE DEF n
  <1>9. \A p, q \in 1 .. n : aof'[p] = aof'[q] => p = q
    BY <1>2, <1>5, <1>7 DEF LogI, LogInv
  <1>10. \A u \in Thread : thr'[u] # Idle /\ thr'[u].pc = "append" =>
                                \A p \in 1 .. n : aof'[p] # thr'[u].id
    <2>1. ASSUME NEW u \in Thread, thr'[u] # Idle, thr'[u].pc = "append", NEW p \in 1 .. n
          PROVE  aof'[p] # thr'[u].id
      <3>1. u # t /\ thr'[u] = thr[u]
        BY <1>4, <2>1
      <3>2. \A q \in 1 .. Len(aof) : aof[q] # thr[u].id
        BY <2>1, <3>1 DEF LogI, LogInv
      <3>3. QED
        BY <1>2, <1>6, <1>7, <2>1, <3>1, <3>2
    <2>2. QED
      BY <2>1
  <1>11. \A i \in acked' : \E p \in 1 .. synced' : aof'[p] = i
    <2>1. \A p \in 1 .. synced : p \in 1 .. Len(aof)
      BY <1>2, <1>3
    <2>2. QED
      BY <1>2, <1>3, <2>1 DEF LogI, LogInv
  <1>12. Covered(hist, late, mem, id)
    BY <1>1, <1>3 DEF LogI, LogInv, id
  <1>13. \A p \in 1 .. n : aof'[p] \notin late => Covered(hist, late, mem, aof'[p])
    BY <1>2, <1>3, <1>7, <1>12 DEF LogI, LogInv
  <1>14. \A u \in Thread : thr'[u] # Idle => Covered(hist, late, mem, thr'[u].id)
    BY <1>3, <1>4, <1>12 DEF LogI, LogInv
  <1>15. entries' <= Len(aof')
    BY <1>2, <1>3 DEF LogI, LogInv, n
  <1>16. QED
    BY <1>2, <1>3, <1>9, <1>10, <1>11, <1>13, <1>14, <1>15 DEF LogI, LogInv

\* An operation is acknowledged when its line is on disk.
LEMMA SyncLog ==
    ASSUME LogI, NEW t \in Thread, AppendSync(t)
    PROVE  LogInv'
  <1>1. thr[t] # Idle /\ PendingOK(t)
    BY DEF AppendSync, Idle, LogI, BaseInv
  <1>2. /\ UNCHANGED <<phase, mem, aof, hist, late, saver, entries>>
        /\ acked' = acked \cup {thr[t].id} /\ thr'[t] = Idle /\ synced' = Len(aof)
        /\ \A u \in Thread \ {t} : thr'[u] = thr[u]
    BY DEF AppendSync, snapshot, LogI, TypeInv, TypeOK
  <1>3. \E p \in 1 .. Len(aof) : aof[p] = thr[t].id
    BY <1>1 DEF PendingOK, AppendSync
  <1>4. \A p \in 1 .. synced : p \in 1 .. Len(aof)
    BY WholeFile DEF LogI, TypeInv, TypeOK
  <1>5. \A i \in acked' : \E p \in 1 .. synced' : aof'[p] = i
    BY <1>2, <1>3, <1>4 DEF LogI, LogInv
  <1>6. QED
    BY <1>2, <1>5 DEF LogI, LogInv

\* What is left of the file when the process ends.
LEMMA EndLog ==
    ASSUME LogI, ProcessEnds, NEW n \in synced .. Len(aof),
           aof' = SubSeq(aof, 1, n), synced' = n
    PROVE  LogInv'
  <1>1. Len(aof) \in Nat /\ synced \in 0 .. Len(aof) /\ n \in 0 .. Len(aof) /\ n \in Nat
    BY WholeFile DEF LogI, TypeInv, TypeOK
  <1>2. Len(aof') = n /\ \A p \in 1 .. n : aof'[p] = aof[p] /\ p \in 1 .. Len(aof)
    <2>1. aof \in Seq(0 .. MaxOps)
      BY DEF LogI, TypeInv, TypeOK
    <2>2. QED
      BY <1>1, <2>1, KeptPrefix
  <1>3. /\ UNCHANGED <<acked>> /\ phase' = "down" /\ entries' = 0
        /\ thr' = [t \in Thread |-> Idle] /\ saver'["maintenance"].pc = "idle"
    BY DEF ProcessEnds, Saver, Idle
  <1>4. \A p \in 1 .. synced : p \in 1 .. n
    BY <1>1
  <1>5. \A i \in acked' : \E p \in 1 .. synced' : aof'[p] = i
    BY <1>2, <1>3, <1>4 DEF LogI, LogInv
  <1>6. QED
    BY <1>1, <1>2, <1>3, <1>5 DEF LogI, LogInv

\* Every step keeps it, crashes and stops included.
LEMMA StepLog ==
    ASSUME LogI, OwnKeys, ~Tear, MaxOps < CompactThreshold, [Next]_vars
    PROVE  LogInv'
  <1> USE DEF log, snapshot, history
  <1>1. /\ saver \in [Saver -> {Idle} \cup Progress] /\ Idle.pc = "idle"
        /\ "maintenance" \in Saver /\ "stop" \in Saver
        /\ thr \in [Thread -> {Idle} \cup ThreadOp]
        /\ Len(aof) \in Nat /\ synced \in 0 .. Len(aof)
        /\ synced \in synced .. Len(aof) /\ Len(aof) \in synced .. Len(aof)
    BY WholeFile DEF LogI, TypeInv, TypeOK, ThreadOp, Progress, Steps, Idle, Saver
  <1>2. saver["maintenance"].pc \notin {"rewriting", "gap"}
    BY DEF LogI, LogInv
  <1>3. ASSUME NEW t \in Thread, AppendRaises(t) PROVE LogInv'
    <2>1. phase # "down"
      BY <1>1, <1>3 DEF AppendRaises, LogI, BaseInv
    <2>2. QED
      BY <1>1, <1>2, <1>3, <2>1, QuietLog DEF AppendRaises
  <1>4. CASE FsyncTick \/ CleanupExpired \/ StopBegin
    BY <1>1, <1>2, <1>4, QuietLog DEF FsyncTick, CleanupExpired, StopBegin
  <1>5. ASSUME NEW p \in Saver, Capture(p) PROVE LogInv'
    <2>1. saver'["maintenance"].pc \notin {"rewriting", "gap"}
      BY <1>1, <1>2, <1>5 DEF Capture
    <2>2. QED
      BY <1>1, <1>5, <2>1, QuietLog DEF Capture
  <1>6. ASSUME NEW p \in Saver, SaveStep(p) PROVE LogInv'
    <2>1. saver[p] # Idle /\ phase # "down"
      BY <1>1, <1>6 DEF SaveStep, SaveBackup, SaveRename, SaveFails, LogI, BaseInv
    <2>2. PICK x \in {"renaming", "saved", "failed"} : saver' = [saver EXCEPT ![p].pc = x]
      BY <1>6 DEF SaveStep, SaveBackup, SaveRename, SaveFails
    <2>3. saver'["maintenance"].pc \notin {"rewriting", "gap"}
      BY <1>1, <1>2, <2>1, <2>2 DEF Progress
    <2>4. UNCHANGED <<phase, thr, hist, aof, acked, entries, synced, late>>
      BY <1>6 DEF SaveStep, SaveBackup, SaveRename, SaveFails
    <2>5. QED
      BY <1>1, <2>1, <2>3, <2>4, QuietLog
  <1>7. CASE MaintenanceStep
    <2>1. EndMaintenance
      BY <1>2, <1>7, FewLines, StorageAssumption
         DEF MaintenanceStep, CompactBegin, CompactFails, CompactUnlink, CompactRename,
             LogI, TypeInv, TypeOK
    <2>2. saver["maintenance"] # Idle /\ phase # "down"
      BY <1>1, <2>1 DEF EndMaintenance, LogI, BaseInv
    <2>3. QED
      BY <1>1, <2>1, <2>2, QuietLog DEF EndMaintenance
  <1>8. CASE CloseAof
    <2>1. saver["stop"] # Idle /\ phase # "down"
      BY <1>1, <1>8 DEF CloseAof, LogI, BaseInv
    <2>2. saver'["maintenance"] = saver["maintenance"]
      BY <1>1, <1>8 DEF CloseAof
    <2>3. QED
      BY <1>1, <1>2, <1>8, <2>1, <2>2, QuietLog DEF CloseAof
  <1>9. ASSUME NEW kind \in Crashes, Crash(kind) PROVE LogInv'
    BY <1>9, EndLog DEF Crash
  <1>10. CASE Exit
    BY <1>1, <1>10, EndLog, WholeFile DEF Exit, LogI
  <1>11. CASE Recover
    <2>1. /\ UNCHANGED <<aof, synced, entries, hist, acked, late, saver, thr>>
          /\ mem' = Replay(Loaded) /\ phase = "down"
      BY <1>11 DEF Recover
    <2>2. \A p \in 1 .. Len(aof) : aof[p] \notin late => Covered(hist, late, mem', aof[p])
      BY <2>1, LineCovered DEF LogI
    <2>3. \A t \in Thread : thr[t] = Idle
      BY <2>1 DEF LogI, BaseInv
    <2>4. QED
      BY <2>1, <2>2, <2>3 DEF LogI, LogInv
  <1>12. ASSUME NEW i \in OpId, TimePasses(i) PROVE LogInv'
    <2>1. CASE phase # "down"
      BY <1>1, <1>2, <1>12, <2>1, QuietLog DEF TimePasses
    <2>2. CASE phase = "down"
      BY <1>12, <2>2 DEF TimePasses, LogI, LogInv
    <2>3. QED
      BY <2>1, <2>2
  <1>13. CASE UNCHANGED vars
    BY <1>13 DEF vars, LogI, LogInv
  <1>14. QED
    BY <1>3, <1>4, <1>5, <1>6, <1>7, <1>8, <1>9, <1>10, <1>11, <1>12, <1>13,
       ApplyLog, AppendLog, SyncLog DEF Next, ThreadStep

\* It holds at first and is kept.
LEMMA InitLog == Init => LogI
  <1>1. Init => LogInv
    BY DEF Init, LogInv, Idle, Saver
  <1>2. QED
    BY <1>1, InitTypes, InitBase DEF LogI

LEMMA NextLog ==
    ASSUME OwnKeys, ~Tear, MaxOps < CompactThreshold
    PROVE  LogI /\ [Next]_vars => LogI'
  BY StepTypes, StepBase, StepLog DEF LogI

\* "no committed write is lost": as long as a node has fewer operations than
\* _compact_threshold, writers of one key follow each other and no line is torn, it
\* reflects every operation it acknowledged, whatever snapshots it saved and however
\* often it was killed, lost power or was stopped on the way.
THEOREM AckedSurvivesCrashes ==
    ASSUME OwnKeys, ~Tear, MaxOps < CompactThreshold
    PROVE  Spec => []AckedSurvives
  <1>1. LogI => AckedSurvives
    <2> SUFFICES ASSUME LogI, phase # "down", NEW i \in acked \ late PROVE Reflected(i)
      BY DEF AckedSurvives
    <2>1. PICK p \in 1 .. synced : aof[p] = i
      BY DEF LogI, LogInv
    <2>2. p \in 1 .. Len(aof)
      BY WholeFile DEF LogI, TypeInv, TypeOK
    <2>3. Covered(hist, late, mem, i)
      BY <2>1, <2>2 DEF LogI, LogInv
    <2>4. QED
      BY <2>3 DEF Covered, Reflected
  <1>2. QED
    BY <1>1, InitLog, NextLog, PTL DEF Spec

\* What recovery puts into the store was set and is not past its time.
LEMMA RecoveredGenuine ==
    ASSUME LogI, Recover
    PROVE  Promise!Genuine(mem') /\ mem' \in [Key -> 0 .. Len(hist)]
  <1>1. mem' = Replay(Loaded) /\ hist' = hist
    BY DEF Recover, history
  <1>2. Values(hist, mem')
    BY <1>1, RecoverBase DEF LogI, BaseInv
  <1>3. ASSUME NEW k \in Key PROVE Loaded[k] \notin late \/ Loaded[k] = 0
    BY DEF Loaded, Unexpired, NoData
  <1>4. ASSUME NEW k \in Key, mem'[k] # 0 PROVE mem'[k] \notin late
    BY <1>1, <1>3, <1>4, ReplayResult DEF LogI, ReplayedAt
  <1>5. \A k \in Key : mem'[k] \in 0 .. Len(hist)
    BY <1>2, HistFields DEF LogI, Values, Value
  <1>6. mem' \in [Key -> 0 .. Len(hist)]
    BY <1>1, <1>5 DEF Replay
  <1>7. QED
    BY <1>2, <1>4, <1>6 DEF Values, Value, Promise!Genuine

\* It shows every operation that was acknowledged.
LEMMA RecoveredShows ==
    ASSUME LogI, Recover, NEW i \in acked \ late
    PROVE  Promise!Shows(mem', i)
  <1>1. PICK p \in 1 .. synced : aof[p] = i
    BY DEF LogI, LogInv
  <1>2. p \in 1 .. Len(aof)
    BY WholeFile DEF LogI, TypeInv, TypeOK
  <1>3. Covered(hist, late, mem', i)
    BY <1>1, <1>2, LineCovered DEF LogI, Recover
  <1>4. QED
    BY <1>3 DEF Covered, Promise!Shows

\* Every step is one of Durable or does not show.
LEMMA StepKeeps ==
    ASSUME LogI, [Next]_vars
    PROVE  [Promise!Next]_(Promise!vars)
  <1> USE DEF log, snapshot, history
  <1>1. /\ saver \in [Saver -> {Idle} \cup Progress] /\ Idle.pc = "idle"
        /\ "maintenance" \in Saver /\ "stop" \in Saver
        /\ thr \in [Thread -> {Idle} \cup ThreadOp]
    BY DEF LogI, TypeInv, TypeOK, ThreadOp, Progress, Steps, Idle, Saver
  <1>2. CASE Apply
    <2>1. PICK t \in Thread, op \in Ops, ttl \in TTLs, sync \in Syncs :
              \E k \in KeysOf[t] : ApplyToStore(t, op, k, ttl, sync)
      BY <1>2 DEF Apply
    <2>2. PICK k \in KeysOf[t] : ApplyToStore(t, op, k, ttl, sync)
      BY <2>1
    <2> DEFINE o == [op |-> op, key |-> k, ttl |-> ttl /\ op = "SET"]
    <2>3. o \in Promise!Operation
      BY StorageAssumption DEF Promise!Operation
    <2>4. Promise!Apply(o)
      BY <2>2 DEF ApplyToStore, Promise!Apply
    <2>5. QED
      BY <2>3, <2>4 DEF Promise!Next
  <1>3. ASSUME NEW t \in Thread, AppendLine(t) \/ AppendRaises(t)
        PROVE  UNCHANGED Promise!vars
    BY <1>3 DEF AppendLine, AppendRaises, Promise!vars
  <1>4. ASSUME NEW t \in Thread, AppendSync(t) PROVE Promise!Next
    <2> DEFINE i == thr[t].id
    <2>1. thr[t] # Idle /\ phase # "down"
      BY <1>1, <1>4 DEF AppendSync, LogI, BaseInv
    <2>2. i \in 1 .. Len(hist) /\ Covered(hist, late, mem, i)
      BY <2>1 DEF LogI, BaseInv, PendingOK, LogInv
    <2>3. Promise!Shows(mem, i)
      BY <2>2 DEF Covered, Promise!Shows
    <2>4. Promise!Acknowledge(i)
      BY <1>4, <2>1, <2>3 DEF AppendSync, Promise!Acknowledge
    <2>5. QED
      BY <2>2, <2>4 DEF Promise!Next
  <1>5. CASE FsyncTick \/ StopBegin \/ CloseAof \/ MaintenanceStep
    BY <1>5 DEF FsyncTick, StopBegin, CloseAof, MaintenanceStep, EndMaintenance,
                CompactBegin, CompactFails, CompactUnlink, CompactRename, Promise!vars
  <1>6. ASSUME NEW p \in Saver, SaveStep(p) PROVE UNCHANGED Promise!vars
    BY <1>6 DEF SaveStep, SaveBackup, SaveRename, SaveFails, Promise!vars
  <1>7. CASE CleanupExpired \/ \E p \in Saver : Capture(p)
    <2>1. Promise!Drop
      BY <1>7 DEF CleanupExpired, Capture, Unexpired, Promise!Drop
    <2>2. QED
      BY <2>1 DEF Promise!Next
  <1>8. ASSUME NEW i \in OpId, TimePasses(i) PROVE Promise!Next
    BY <1>8 DEF TimePasses, Promise!Expire, Promise!Next
  <1>9. ASSUME ProcessEnds, phase # "down" PROVE Promise!Next
    <2>1. Promise!Fail
      BY <1>9 DEF ProcessEnds, NoData, Promise!Fail, Promise!Empty
    <2>2. QED
      BY <2>1 DEF Promise!Next
  <1>10. ASSUME NEW kind \in Crashes, Crash(kind) PROVE Promise!Next
    BY <1>9, <1>10 DEF Crash
  <1>11. CASE Exit
    <2>1. phase # "down"
      BY <1>1, <1>11 DEF Exit, LogI, BaseInv
    <2>2. QED
      BY <1>9, <1>11, <2>1 DEF Exit
  <1>12. CASE Recover
    <2>1. Promise!Restart
      BY <1>12, RecoveredGenuine, RecoveredShows DEF Recover, Promise!Restart
    <2>2. QED
      BY <2>1 DEF Promise!Next
  <1>13. CASE UNCHANGED vars
    BY <1>13 DEF vars, Promise!vars
  <1>14. QED
    BY <1>2, <1>3, <1>4, <1>5, <1>6, <1>7, <1>8, <1>10, <1>11, <1>12, <1>13
       DEF Next, ThreadStep

\* The node implements Durable under the same conditions: files, snapshots, replay
\* and background threads never show, neither as a lost acknowledgement nor as a
\* value that came back.
THEOREM DurabilityRefined ==
    ASSUME OwnKeys, ~Tear, MaxOps < CompactThreshold
    PROVE  Spec => KeepsAcked
  <1>1. Init => Promise!Init
    BY DEF Init, NoData, Promise!Init, Promise!Empty
  <1>2. QED
    BY <1>1, InitLog, NextLog, StepKeeps, PTL DEF Spec, KeepsAcked, Promise!Spec

-----------------------------------------------------------------------------
(* With compaction: what is in a file that recovery reads, for a process   *)
(* that is only ever killed.                                               *)

maintenance == saver["maintenance"]
Busy == maintenance.pc \in {"captured", "renaming", "saved", "rewriting", "gap"}

\* What OnlyWindowLost speaks of, and with it what the threads are applying.
Kept == acked \ (late \cup exposed)
Waiting == {thr[t].id : t \in {u \in Thread : thr[u] # Idle}} \ late
Live == Kept \cup Waiting

\* The line of i is on disk.
Direct(i) == \E p \in 1 .. synced : aof[p] = i
\* No line takes its key back before i.
NoOlder(i) == \A p \in 1 .. Len(aof) : hist[aof[p]].key = hist[i].key => aof[p] >= i
\* i was followed by the end of its key, or the lines on disk have it or a later one.
Known(i) ==
    \/ \E j \in i .. Len(hist) :
          hist[j].key = hist[i].key /\ (hist[j].op = "DELETE" \/ j \in late)
    \/ \E p \in 1 .. synced : hist[aof[p]].key = hist[i].key /\ aof[p] >= i
\* The lines, or the snapshot and the lines that follow, reflect i.
Held(i) == \/ Direct(i)
           \/ NoOlder(i) /\ (snap.kind = "data" => Covered(hist, late, snap.data, i))

FilesInv ==
    /\ saver["stop"] = Idle /\ phase # "stopping" /\ snap.kind # "corrupt"
    /\ bare \subseteq acked /\ (bare # {} => snap.kind = "data")
    /\ Busy => maintenance.mark \in 0 .. Len(hist)
    /\ maintenance.pc \in {"saved", "rewriting"} => snap = Saved(maintenance.data)
    /\ maintenance.pc = "gap" => snap.kind = "data" /\ Len(aof) = 0

DiskInv == \A i \in Kept : Held(i) /\ (i \in bare \/ maintenance.pc = "gap" \/ Known(i))

StoreInv == phase # "down" => \A i \in Live : Covered(hist, late, mem, i)

CaptureInv ==
    Busy => /\ \A i \in Live : i <= maintenance.mark => Covered(hist, late, maintenance.data, i)
            /\ \A i \in Kept : i <= maintenance.mark \/ Direct(i)

WinInv == FilesInv /\ DiskInv /\ StoreInv /\ CaptureInv
WinI == TypeInv /\ BaseInv /\ WinInv

\* Operations have numbers of the history.
LEMMA LiveNumbers ==
    ASSUME TypeInv, BaseInv
    PROVE  /\ Live \subseteq 1 .. Len(hist) /\ Kept \subseteq 1 .. Len(hist)
           /\ Len(hist) \in Nat /\ Len(aof) \in Nat /\ synced \in 0 .. Len(aof)
  <1>1. \A t \in Thread : thr[t] # Idle => thr[t].id \in 1 .. Len(hist)
    BY DEF BaseInv, PendingOK
  <1>2. Len(hist) \in Nat /\ Len(aof) \in Nat
    BY HistFields, WholeFile
  <1>3. Kept \subseteq 1 .. Len(hist) /\ Waiting \subseteq 1 .. Len(hist)
    BY <1>1 DEF Kept, Waiting, BaseInv
  <1>4. synced \in 0 .. Len(aof)
    BY DEF TypeInv, TypeOK
  <1>5. QED
    BY <1>2, <1>3, <1>4 DEF Live

\* The files keep what they hold while lines are only added.
LEMMA FilesKeep ==
    ASSUME TypeInv, BaseInv, Len(hist') \in Nat, Len(hist) <= Len(hist'),
           \A j \in 1 .. Len(hist) : hist'[j] = hist[j], late \subseteq late', snap' = snap,
           Len(aof') \in Nat, Len(aof) <= Len(aof'), \A p \in 1 .. Len(aof) : aof'[p] = aof[p],
           synced' \in synced .. Len(aof'), NEW i \in 1 .. Len(hist),
           \A p \in Len(aof) + 1 .. Len(aof') : hist'[aof'[p]].key = hist[i].key => aof'[p] >= i
    PROVE  /\ Held(i) => Held(i)'
           /\ Known(i) => Known(i)'
           /\ Direct(i) => Direct(i)'
  <1>1. Len(hist) \in Nat /\ Len(aof) \in Nat /\ synced \in 0 .. Len(aof)
    BY LiveNumbers
  <1>2. hist'[i] = hist[i] /\ \A p \in 1 .. Len(aof) : hist'[aof[p]] = hist[aof[p]]
    BY DEF BaseInv, LinesOK
  <1>3. /\ \A p \in 1 .. synced : p \in 1 .. synced' /\ p \in 1 .. Len(aof)
        /\ \A p \in 1 .. Len(aof') : p \in 1 .. Len(aof) \/ p \in Len(aof) + 1 .. Len(aof')
        /\ \A j \in i .. Len(hist) : j \in i .. Len(hist') /\ j \in 1 .. Len(hist)
    <2>1. \A p \in 1 .. synced : p \in 1 .. synced' /\ p \in 1 .. Len(aof)
      BY <1>1
    <2>2. \A p \in 1 .. Len(aof') : p \in 1 .. Len(aof) \/ p \in Len(aof) + 1 .. Len(aof')
      BY <1>1
    <2>3. \A j \in i .. Len(hist) : j \in i .. Len(hist') /\ j \in 1 .. Len(hist)
      BY <1>1
    <2>4. QED
      BY <2>1, <2>2, <2>3
  <1>4. Direct(i) => Direct(i)'
    BY <1>3 DEF Direct
  <1>5. NoOlder(i) => NoOlder(i)'
    BY <1>2, <1>3 DEF NoOlder
  <1>6. Known(i) => Known(i)'
    <2>1. (\E p \in 1 .. synced : hist[aof[p]].key = hist[i].key /\ aof[p] >= i) => Known(i)'
      BY <1>2, <1>3 DEF Known
    <2>2. ASSUME NEW j \in i .. Len(hist), hist[j].key = hist[i].key, hist[j].op = "DELETE" \/ j \in late
          PROVE  Known(i)'
      <3>1. j \in i .. Len(hist') /\ hist'[j] = hist[j]
        BY <1>3
      <3>2. QED
        BY <1>2, <2>2, <3>1 DEF Known
    <2>3. QED
      BY <2>1, <2>2 DEF Known
  <1>7. Covered(hist, late, snap.data, i) => Covered(hist', late', snap.data, i)
    BY <1>1, CoveredGrows
  <1>8. QED
    BY <1>4, <1>5, <1>6, <1>7 DEF Held

\* What maintenance captured keeps reflecting the same operations.
LEMMA CaptureKeeps ==
    ASSUME WinI, Len(hist') \in Nat, Len(hist) <= Len(hist'),
           \A j \in 1 .. Len(hist) : hist'[j] = hist[j], late \subseteq late', Busy,
           maintenance'.data = maintenance.data, maintenance'.mark = maintenance.mark,
           \A i \in Live' : i <= maintenance.mark => i \in Live,
           \A i \in Kept' : i <= maintenance.mark \/ Direct(i)'
    PROVE  CaptureInv'
  <1>1. ASSUME NEW i \in Live', i <= maintenance.mark
        PROVE  Covered(hist', late', maintenance.data, i)
    <2>1. i \in Live /\ i \in 1 .. Len(hist) /\ Len(hist) \in Nat
      BY <1>1, LiveNumbers DEF WinI
    <2>2. Covered(hist, late, maintenance.data, i)
      BY <1>1, <2>1 DEF WinI, WinInv, CaptureInv
    <2>3. QED
      BY <2>1, <2>2, CoveredGrows
  <1>2. QED
    BY <1>1 DEF CaptureInv

\* Steps that leave the files alone but for an fsync.
LEMMA QuietWin ==
    ASSUME WinI, [Next]_vars, phase # "down", phase' \notin {"down", "stopping"},
           hist' = hist, aof' = aof, acked' = acked, late \subseteq late',
           exposed' = exposed, bare' = bare, snap' = snap, synced' \in synced .. Len(aof),
           \A t \in Thread : thr'[t] \in {thr[t], Idle},
           saver'["stop"] = Idle, maintenance.pc = "gap" => maintenance' = maintenance,
           \/ maintenance' = maintenance
           \/ ~Busy'
           \/ maintenance'.pc = "captured" /\ maintenance'.mark \in 0 .. Len(hist) /\ CaptureInv'
           \/ /\ maintenance.pc = "saved" /\ maintenance'.pc = "rewriting"
              /\ maintenance'.data = maintenance.data /\ maintenance'.mark = maintenance.mark
    PROVE  WinInv'
  <1>1. /\ Live \subseteq 1 .. Len(hist) /\ Kept \subseteq 1 .. Len(hist)
        /\ Len(hist) \in Nat /\ Len(aof) \in Nat /\ synced \in 0 .. Len(aof)
    BY LiveNumbers DEF WinI
  <1>2. Kept' \subseteq Kept /\ Live' \subseteq Live
    <2>1. Kept' \subseteq Kept /\ Waiting' \subseteq Waiting
      BY DEF Kept, Waiting
    <2>2. QED
      BY <2>1 DEF Live
  <1>3. \A i \in Kept : (Held(i) => Held(i)') /\ (Known(i) => Known(i)') /\ (Direct(i) => Direct(i)')
    BY <1>1, FilesKeep DEF WinI
  <1>4. FilesInv'
    BY DEF WinI, WinInv, FilesInv, Busy
  <1>5. DiskInv'
    BY <1>2, <1>3 DEF WinI, WinInv, DiskInv
  <1>6. StoreInv'
    BY <1>1, <1>2, StoreKeeps DEF WinI, WinInv, StoreInv
  <1>7. CaptureInv'
    <2>1. CASE Busy /\ maintenance'.data = maintenance.data /\ maintenance'.mark = maintenance.mark
      <3>1. \A i \in Kept' : i <= maintenance.mark \/ Direct(i)'
        BY <1>2, <1>3, <2>1 DEF WinI, WinInv, CaptureInv
      <3>2. /\ Len(hist') \in Nat /\ Len(hist) <= Len(hist')
            /\ \A j \in 1 .. Len(hist) : hist'[j] = hist[j]
        BY <1>1
      <3>3. \A i \in Live' : i <= maintenance.mark => i \in Live
        BY <1>2
      <3>4. QED
        BY <2>1, <3>1, <3>2, <3>3, CaptureKeeps
    <2>2. CASE ~Busy'
      BY <2>2 DEF CaptureInv
    <2>3. QED
      BY <2>1, <2>2 DEF Busy
  <1>8. QED
    BY <1>4, <1>5, <1>6, <1>7 DEF WinInv

\* A new operation is in the store, not yet in a file.
LEMMA ApplyWin ==
    ASSUME WinI, Apply
    PROVE  WinInv'
  <1>1. PICK t \in Thread, op \in Ops, ttl \in TTLs, sync \in Syncs :
            \E k \in KeysOf[t] : ApplyToStore(t, op, k, ttl, sync)
    BY DEF Apply
  <1>2. PICK k \in KeysOf[t] : ApplyToStore(t, op, k, ttl, sync)
    BY <1>1
  <1> DEFINE n == Len(hist) + 1
             r == [op |-> op, key |-> k, ttl |-> ttl /\ op = "SET"]
  <1>3. /\ UNCHANGED <<phase, aof, synced, snap, saver, acked, late, exposed, bare>>
        /\ phase # "down" /\ thr'[t].id = n /\ hist' = Append(hist, r)
        /\ \A u \in Thread \ {t} : thr'[u] = thr[u]
    BY <1>2 DEF ApplyToStore, log, snapshot, WinI, TypeInv, TypeOK
  <1>4. /\ Live \subseteq 1 .. Len(hist) /\ Kept \subseteq 1 .. Len(hist)
        /\ Len(hist) \in Nat /\ Len(aof) \in Nat /\ synced \in 0 .. Len(aof)
    BY LiveNumbers DEF WinI
  <1>5. Len(hist') = n /\ \A j \in 1 .. Len(hist) : hist'[j] = hist[j]
    <2>1. hist \in Seq([op : {"SET", "DELETE"}, key : Key, ttl : BOOLEAN])
          /\ r \in [op : {"SET", "DELETE"}, key : Key, ttl : BOOLEAN]
      BY StorageAssumption DEF WinI, TypeInv, TypeOK
    <2> HIDE DEF r
    <2>2. QED
      BY <1>3, <2>1, AppendProperties
  <1> HIDE DEF r
  <1>6. Len(hist') \in Nat /\ Len(hist) <= Len(hist')
    BY <1>4, <1>5
  <1>7. Kept' = Kept /\ Live' \subseteq Live \cup {n}
    <2>1. Kept' = Kept /\ Waiting' \subseteq Waiting \cup {n}
      BY <1>3 DEF Kept, Waiting
    <2>2. QED
      BY <2>1 DEF Live
  <1>8. \A i \in Kept : (Held(i) => Held(i)') /\ (Known(i) => Known(i)') /\ (Direct(i) => Direct(i)')
    BY <1>3, <1>4, <1>5, <1>6, FilesKeep DEF WinI
  <1>9. FilesInv'
    <2>1. Busy => maintenance.mark \in 0 .. Len(hist')
      BY <1>4, <1>5 DEF WinI, WinInv, FilesInv
    <2>2. QED
      BY <1>3, <2>1 DEF WinI, WinInv, FilesInv, maintenance, Busy
  <1>10. DiskInv'
    BY <1>3, <1>7, <1>8 DEF WinI, WinInv, DiskInv, maintenance
  <1>11. StoreInv'
    <2>1. \A i \in Live : Covered(hist', late', mem', i)
      BY <1>3, <1>4, StoreKeeps DEF WinI, WinInv, StoreInv, Next
    <2>2. Covered(hist', late', mem', n)
      BY <1>2, StoreTakes DEF WinI
    <2>3. QED
      BY <1>7, <2>1, <2>2 DEF StoreInv
  <1>12. CaptureInv'
    <2>1. CASE Busy
      <3>1. \A i \in Live' : i <= maintenance.mark => i \in Live
        <4>1. ~(n <= maintenance.mark)
          BY <1>4, <2>1 DEF WinI, WinInv, FilesInv
        <4>2. QED
          BY <1>7, <4>1
      <3>2. \A i \in Kept' : i <= maintenance.mark \/ Direct(i)'
        BY <1>7, <1>8, <2>1 DEF WinI, WinInv, CaptureInv
      <3>3. maintenance' = maintenance /\ late \subseteq late'
        BY <1>3 DEF maintenance
      <3>4. QED
        BY <1>5, <1>6, <2>1, <3>1, <3>2, <3>3, CaptureKeeps
    <2>2. CASE ~Busy
      BY <1>3, <2>2 DEF CaptureInv, Busy, maintenance
    <2>3. QED
      BY <2>1, <2>2
  <1>13. QED
    BY <1>9, <1>10, <1>11, <1>12 DEF WinInv

\* A new line is that of the newest operation of its key.
LEMMA AppendWin ==
    ASSUME WinI, NEW t \in Thread, AppendLine(t)
    PROVE  WinInv'
  <1> DEFINE id == thr[t].id
             n == Len(aof) + 1
  <1>1. thr[t] # Idle /\ PendingOK(t) /\ thr[t] \in ThreadOp
    BY DEF AppendLine, Idle, WinI, BaseInv, TypeInv, TypeOK, ThreadOp
  <1>2. /\ Len(aof) \in Nat /\ Len(aof') = n /\ aof'[n] = id
        /\ \A p \in 1 .. Len(aof) : aof'[p] = aof[p]
    <2>1. aof \in Seq(0 .. MaxOps) /\ id \in 0 .. MaxOps /\ aof' = Append(aof, id)
      BY <1>1, StorageAssumption DEF AppendLine, WinI, BaseInv, TypeInv, TypeOK, ThreadOp, OpId
    <2>2. QED
      BY <2>1, AppendProperties, LenProperties
  <1>3. /\ UNCHANGED <<phase, mem, hist, late, acked, exposed, bare, saver, snap, synced>>
        /\ phase # "down" /\ maintenance.pc # "gap"
    BY <1>1, StorageAssumption DEF AppendLine, snapshot, history, WinI, BaseInv, TypeInv, TypeOK, maintenance
  <1>4. /\ thr'[t] = Idle \/ (thr'[t].pc = "sync" /\ thr'[t].id = id)
        /\ \A u \in Thread \ {t} : thr'[u] = thr[u]
    BY <1>1 DEF AppendLine, WinI, TypeInv, TypeOK, ThreadOp
  <1>5. /\ Live \subseteq 1 .. Len(hist) /\ Kept \subseteq 1 .. Len(hist)
        /\ Len(hist) \in Nat /\ Len(aof) \in Nat /\ synced \in 0 .. Len(aof)
    BY LiveNumbers DEF WinI
  <1>6. Kept' = Kept /\ Live' \subseteq Live
    <2>1. Kept' = Kept /\ Waiting' \subseteq Waiting
      BY <1>1, <1>3, <1>4 DEF Kept, Waiting, id
    <2>2. QED
      BY <2>1 DEF Live
  <1>7. ASSUME NEW i \in Kept
        PROVE  (Held(i) => Held(i)') /\ (Known(i) => Known(i)') /\ (Direct(i) => Direct(i)')
    <2>1. hist[i].key = hist[id].key => id >= i
      BY <1>1, <1>5, <1>7 DEF PendingOK, Kept, id
    <2> HIDE DEF id
    <2>2. \A p \in Len(aof) + 1 .. Len(aof') : hist'[aof'[p]].key = hist[i].key => aof'[p] >= i
      BY <1>2, <1>3, <2>1
    <2>3. /\ Len(hist') \in Nat /\ Len(hist) <= Len(hist') /\ late \subseteq late'
          /\ \A j \in 1 .. Len(hist) : hist'[j] = hist[j]
          /\ Len(aof') \in Nat /\ Len(aof) <= Len(aof') /\ synced' \in synced .. Len(aof')
      BY <1>2, <1>3, <1>5
    <2>4. QED
      BY <1>2, <1>3, <1>5, <2>2, <2>3, FilesKeep DEF WinI
  <1>8. FilesInv'
    BY <1>3 DEF WinI, WinInv, FilesInv, maintenance, Busy
  <1>9. DiskInv'
    BY <1>3, <1>6, <1>7 DEF WinI, WinInv, DiskInv, maintenance
  <1>10. StoreInv'
    BY <1>3, <1>6 DEF WinI, WinInv, StoreInv
  <1>11. CaptureInv'
    BY <1>3, <1>6, <1>7 DEF WinI, WinInv, CaptureInv, maintenance, Busy
  <1>12. QED
    BY <1>8, <1>9, <1>10, <1>11 DEF WinInv

\* An operation is acknowledged when its line is on disk.
LEMMA SyncWin ==
    ASSUME WinI, NEW t \in Thread, AppendSync(t)
    PROVE  WinInv'
  <1>0. PICK id : id = thr[t].id
    OBVIOUS
  <1>1. thr[t] # Idle /\ PendingOK(t)
    BY DEF AppendSync, Idle, WinI, BaseInv
  <1>2. /\ UNCHANGED <<phase, mem, aof, hist, late, exposed, bare, saver, snap>>
        /\ acked' = acked \cup {id} /\ thr'[t] = Idle /\ synced' = Len(aof)
        /\ \A u \in Thread \ {t} : thr'[u] = thr[u]
        /\ phase # "down" /\ maintenance.pc # "gap"
    BY <1>0, <1>1, StorageAssumption DEF AppendSync, snapshot, WinI, BaseInv, TypeInv, TypeOK, maintenance
  <1>3. /\ Live \subseteq 1 .. Len(hist) /\ Kept \subseteq 1 .. Len(hist)
        /\ Len(hist) \in Nat /\ Len(aof) \in Nat /\ synced \in 0 .. Len(aof)
        /\ synced' \in synced .. Len(aof')
    BY <1>2, LiveNumbers DEF WinI
  <1>4. Kept' \subseteq Kept \cup {id} /\ Live' \subseteq Live
    <2>1. Kept' \subseteq Kept \cup {id} /\ Waiting' \subseteq Waiting
      BY <1>2 DEF Kept, Waiting
    <2>2. id \in Waiting \/ id \in late
      BY <1>0, <1>1 DEF Waiting
    <2>3. id \in Kept' => id \notin late
      BY <1>2 DEF Kept
    <2>4. QED
      BY <2>1, <2>2, <2>3 DEF Live
  <1>5. Direct(id)'
    BY <1>0, <1>1, <1>2 DEF PendingOK, Direct, AppendSync
  <1>6. Known(id)'
    <2>1. id \in Int
      BY <1>0, <1>1, <1>3 DEF PendingOK
    <2>2. QED
      BY <1>5, <2>1 DEF Direct, Known
  <1>7. \A i \in Kept : (Held(i) => Held(i)') /\ (Known(i) => Known(i)') /\ (Direct(i) => Direct(i)')
    <2>1. /\ Len(hist') \in Nat /\ Len(hist) <= Len(hist') /\ late \subseteq late'
          /\ \A j \in 1 .. Len(hist) : hist'[j] = hist[j]
          /\ Len(aof') \in Nat /\ Len(aof) <= Len(aof') /\ ~(Len(aof) + 1 <= Len(aof'))
          /\ \A p \in 1 .. Len(aof) : aof'[p] = aof[p]
      BY <1>2, <1>3
    <2>2. QED
      BY <1>2, <1>3, <2>1, FilesKeep DEF WinI
  <1>8. FilesInv'
    BY <1>2 DEF WinI, WinInv, FilesInv, maintenance, Busy
  <1>9. DiskInv'
    BY <1>2, <1>4, <1>5, <1>6, <1>7 DEF WinI, WinInv, DiskInv, maintenance, Held
  <1>10. StoreInv'
    BY <1>2, <1>4 DEF WinI, WinInv, StoreInv
  <1>11. CaptureInv'
    BY <1>2, <1>4, <1>5, <1>7 DEF WinI, WinInv, CaptureInv, maintenance, Busy
  <1>12. QED
    BY <1>8, <1>9, <1>10, <1>11 DEF WinInv

\* What maintenance is doing has the shape save and compact give it.
LEMMA MaintenanceShape ==
    ASSUME WinI
    PROVE  /\ "maintenance" \in Saver /\ "stop" \in Saver /\ Idle.pc = "idle"
           /\ saver \in [Saver -> {Idle} \cup Progress]
           /\ maintenance.pc # "idle" => maintenance \in Progress /\ maintenance # Idle /\ phase # "down"
           /\ saver["stop"].pc = "idle"
  <1>1. /\ "maintenance" \in Saver /\ "stop" \in Saver /\ Idle.pc = "idle"
        /\ saver \in [Saver -> {Idle} \cup Progress]
    BY DEF WinI, TypeInv, TypeOK, Progress, Steps, Idle, Saver
  <1>2. QED
    BY <1>1 DEF maintenance, WinI, WinInv, FilesInv, BaseInv

\* save takes the snapshot away: what only the snapshot had is exposed.
LEMMA BackupWin ==
    ASSUME WinI, NEW p \in Saver, SaveBackup(p)
    PROVE  WinInv'
  <1>1. p = "maintenance" /\ maintenance.pc = "captured" /\ phase # "down" /\ maintenance \in Progress
    BY MaintenanceShape DEF SaveBackup, Saver, maintenance
  <1>2. /\ UNCHANGED <<phase, mem, thr, aof, synced, hist, acked, late>>
        /\ snap'.kind = "none" /\ exposed' = exposed \cup bare /\ bare' = {}
    BY DEF SaveBackup, log, NoFile
  <1>3. /\ maintenance'.pc = "renaming" /\ maintenance'.data = maintenance.data
        /\ maintenance'.mark = maintenance.mark /\ saver'["stop"] = saver["stop"]
    BY <1>1, MaintenanceShape DEF SaveBackup, maintenance, Progress
  <1>4. Kept' = Kept \ bare /\ Live' \subseteq Live
    BY <1>2 DEF Kept, Live, Waiting
  <1>5. FilesInv'
    BY <1>1, <1>2, <1>3 DEF WinI, WinInv, FilesInv, Busy
  <1>6. DiskInv'
    <2>1. ASSUME NEW i \in Kept, i \notin bare PROVE Held(i)' /\ Known(i)'
      BY <1>1, <1>2, <2>1 DEF WinI, WinInv, DiskInv, Held, Direct, NoOlder, Known
    <2>2. QED
      BY <1>4, <2>1 DEF DiskInv
  <1>7. StoreInv'
    BY <1>2, <1>4 DEF WinI, WinInv, StoreInv
  <1>8. CaptureInv'
    BY <1>1, <1>2, <1>3, <1>4 DEF WinI, WinInv, CaptureInv, Busy, Direct
  <1>9. QED
    BY <1>5, <1>6, <1>7, <1>8 DEF WinInv

\* The new snapshot reflects what was captured; later operations are in the lines.
LEMMA RenameWin ==
    ASSUME WinI, NEW p \in Saver, SaveRename(p)
    PROVE  WinInv'
  <1>1. p = "maintenance" /\ maintenance.pc = "renaming" /\ phase # "down" /\ maintenance \in Progress
    BY MaintenanceShape DEF SaveRename, Saver, maintenance
  <1>2. /\ UNCHANGED <<phase, mem, thr, aof, synced, hist, acked, late, exposed, bare>>
        /\ snap' = Saved(maintenance.data) /\ snap'.kind = "data" /\ snap'.data = maintenance.data
    BY <1>1 DEF SaveRename, log, history, Saved, maintenance
  <1>3. /\ maintenance'.pc \in {"saved", "failed"} /\ maintenance'.data = maintenance.data
        /\ maintenance'.mark = maintenance.mark /\ saver'["stop"] = saver["stop"]
    BY <1>1, MaintenanceShape DEF SaveRename, maintenance, Progress
  <1>4. Kept' = Kept /\ Live' = Live
    BY <1>2 DEF Kept, Live, Waiting
  <1>5. FilesInv'
    BY <1>1, <1>2, <1>3 DEF WinI, WinInv, FilesInv, Busy
  <1>6. DiskInv'
    <2>1. ASSUME NEW i \in Kept PROVE Held(i)' /\ (Known(i) => Known(i)')
      <3>1. Direct(i) \/ Covered(hist, late, maintenance.data, i)
        BY <1>1, <2>1 DEF WinI, WinInv, CaptureInv, Busy, Live
      <3>2. Direct(i) \/ NoOlder(i)
        BY <2>1 DEF WinI, WinInv, DiskInv, Held
      <3>3. QED
        BY <1>2, <3>1, <3>2 DEF Held, Direct, NoOlder, Known
    <2>2. QED
      BY <1>1, <1>2, <1>4, <2>1 DEF WinI, WinInv, DiskInv
  <1>7. StoreInv'
    BY <1>2, <1>4 DEF WinI, WinInv, StoreInv
  <1>8. CaptureInv'
    BY <1>1, <1>2, <1>3, <1>4 DEF WinI, WinInv, CaptureInv, Busy, Direct
  <1>9. QED
    BY <1>5, <1>6, <1>7, <1>8 DEF WinInv

\* compact takes the AOF away: the lines appended since the capture are exposed,
\* the snapshot has what was captured.
LEMMA UnlinkWin ==
    ASSUME WinI, CompactUnlink
    PROVE  WinInv'
  <1>1. maintenance.pc = "rewriting" /\ phase # "down" /\ maintenance \in Progress
    BY MaintenanceShape DEF CompactUnlink, maintenance
  <1>2. /\ UNCHANGED <<phase, mem, thr, hist, acked, late, bare, snap>>
        /\ aof' = <<>> /\ Len(aof') = 0 /\ synced' = 0
        /\ exposed' = exposed \cup {i \in ToSet(aof) : i > maintenance.mark}
    BY DEF CompactUnlink, snapshot, maintenance
  <1>3. /\ maintenance'.pc = "gap" /\ maintenance'.data = Unexpired(maintenance.data)
        /\ maintenance'.mark = maintenance.mark /\ saver'["stop"] = saver["stop"]
    BY <1>1, MaintenanceShape DEF CompactUnlink, maintenance, Progress
  <1>4. snap = Saved(maintenance.data) /\ snap.kind = "data" /\ snap.data = maintenance.data
    BY <1>1 DEF WinI, WinInv, FilesInv, Saved
  <1>5. /\ Live \subseteq 1 .. Len(hist) /\ Kept \subseteq 1 .. Len(hist)
        /\ Len(hist) \in Nat /\ Len(aof) \in Nat /\ synced \in 0 .. Len(aof)
    BY LiveNumbers DEF WinI
  <1>6. Kept' \subseteq Kept /\ Live' \subseteq Live
    BY <1>2 DEF Kept, Live, Waiting
  <1>7. maintenance.data \in Data /\ Values(hist, maintenance.data) /\ maintenance.mark \in Int
    <2>1. Values(hist, maintenance.data)
      BY <1>1, MaintenanceShape DEF WinI, BaseInv, maintenance
    <2>2. QED
      BY <1>1, <2>1, StorageAssumption DEF Progress
  <1>8. ASSUME NEW i \in Kept' PROVE i <= maintenance.mark /\ Covered(hist, late, maintenance.data, i)
    <2>1. i \in Kept /\ i \in Int
      BY <1>5, <1>6
    <2>2. Direct(i) => i \in ToSet(aof)
      BY <1>5 DEF Direct, ToSet
    <2>3. i \notin exposed'
      BY DEF Kept
    <2>4. i <= maintenance.mark
      BY <1>1, <1>2, <1>7, <2>1, <2>2, <2>3 DEF WinI, WinInv, CaptureInv, Busy
    <2>5. QED
      BY <1>1, <2>1, <2>4 DEF WinI, WinInv, CaptureInv, Busy, Live
  <1>9. FilesInv'
    BY <1>1, <1>2, <1>3, <1>4 DEF WinI, WinInv, FilesInv, Busy
  <1>10. DiskInv'
    BY <1>2, <1>3, <1>4, <1>8 DEF DiskInv, Held, NoOlder
  <1>11. StoreInv'
    BY <1>2, <1>6 DEF WinI, WinInv, StoreInv
  <1>12. CaptureInv'
    <2>1. ASSUME NEW i \in Live', i <= maintenance.mark
          PROVE  Covered(hist, late, Unexpired(maintenance.data), i)
      BY <1>1, <1>5, <1>6, <1>7, <2>1, CoveredUnexpired DEF WinI, WinInv, CaptureInv, Busy
    <2>2. QED
      BY <1>2, <1>3, <1>8, <2>1 DEF CaptureInv
  <1>13. QED
    BY <1>9, <1>10, <1>11, <1>12 DEF WinInv

\* The new AOF has the captured values.
LEMMA NewFileWin ==
    ASSUME WinI, CompactRename
    PROVE  WinInv'
  <1>1. maintenance.pc = "gap" /\ phase # "down" /\ maintenance \in Progress
    BY MaintenanceShape DEF CompactRename, maintenance
  <1>2. /\ UNCHANGED <<phase, mem, thr, hist, acked, late, exposed, snap>> /\ bare' = {}
        /\ aof' = CompactedLines(maintenance.data) /\ synced' = Len(aof')
        /\ saver'["stop"] = saver["stop"] /\ maintenance'.pc = "idle"
    BY MaintenanceShape DEF CompactRename, snapshot, maintenance
  <1>3. maintenance.data \in Data /\ Values(hist, maintenance.data)
    BY <1>1, MaintenanceShape DEF WinI, BaseInv, maintenance, Progress
  <1>4. /\ Live \subseteq 1 .. Len(hist) /\ Kept \subseteq 1 .. Len(hist)
        /\ Len(hist) \in Nat /\ synced = 0
    BY <1>1, LiveNumbers DEF WinI, WinInv, FilesInv
  <1>5. Kept' = Kept /\ Live' = Live
    BY <1>2 DEF Kept, Live, Waiting
  <1>6. FilesInv'
    BY <1>2 DEF WinI, WinInv, FilesInv, Busy
  <1>7. ASSUME NEW i \in Kept PROVE Held(i)' /\ Known(i)'
    <2>1. ~Direct(i)
      BY <1>4 DEF Direct
    <2>2. Covered(hist, late, maintenance.data, i) /\ Held(i)
      BY <1>1, <2>1 DEF WinI, WinInv, CaptureInv, DiskInv, Busy, Live
    <2>3. hist[i].key \in Key /\ i \in 1 .. Len(hist)
      BY <1>4, HistFields DEF WinI
    <2> DEFINE d == maintenance.data
               v == d[hist[i].key]
    <2>4. \A q \in 1 .. Len(aof') : hist[aof'[q]].key = hist[i].key => aof'[q] = v /\ v # 0
      <3>1. ASSUME NEW q \in 1 .. Len(aof') PROVE \E k \in Key : aof'[q] = d[k] /\ aof'[q] # 0
        <4>1. aof' \in Seq(OpId) /\ \E k \in Key : aof'[q] = d[k]
          BY <1>2, <1>3, CompactedFile
        <4>2. aof'[q] \in OpId
          BY <4>1, ElementOfSeq
        <4>3. QED
          BY <4>1, <4>2, StorageAssumption DEF OpId
      <3>2. QED
        BY <1>3, <3>1 DEF Values, Value
    <2>5. v # 0 => v \in 1 .. Len(hist) /\ hist[v].key = hist[i].key
                   /\ \E q \in 1 .. Len(aof') : aof'[q] = v
      BY <1>2, <1>3, <2>3, CompactedFile DEF Values, Value
    <2>6. snap.kind = "data" => Covered(hist, late, snap.data, i)
      BY <2>1, <2>2 DEF Held
    <2>7. \/ v >= i
          \/ v = 0 /\ \E j \in i .. Len(hist) :
                         hist[j].key = hist[i].key /\ (hist[j].op = "DELETE" \/ j \in late)
      BY <2>2 DEF Covered
    <2>8. v >= i => v # 0
      BY <2>3
    <2>9. v \in Int
      BY <1>3, <2>3, StorageAssumption DEF Data
    <2> HIDE DEF d, v
    <2>10. NoOlder(i)'
      BY <1>2, <2>4, <2>7 DEF NoOlder
    <2>11. Known(i)'
      <3>1. CASE v >= i
        <4>1. PICK q \in 1 .. Len(aof') : aof'[q] = v
          BY <2>5, <2>8, <3>1
        <4>2. hist'[aof'[q]].key = hist'[i].key /\ aof'[q] >= i /\ q \in 1 .. synced'
          BY <1>2, <2>5, <2>8, <3>1, <4>1
        <4>3. QED
          BY <4>2 DEF Known
      <3>2. CASE ~(v >= i)
        <4>1. PICK j \in i .. Len(hist) :
                 hist[j].key = hist[i].key /\ (hist[j].op = "DELETE" \/ j \in late)
          BY <2>7, <3>2
        <4>2. j \in i .. Len(hist') /\ hist'[j].key = hist'[i].key
              /\ (hist'[j].op = "DELETE" \/ j \in late')
          BY <1>2, <4>1
        <4>3. QED
          BY <4>2 DEF Known
      <3>3. QED
        BY <3>1, <3>2
    <2>12. QED
      BY <1>2, <2>6, <2>10, <2>11 DEF Held
  <1>8. DiskInv'
    BY <1>5, <1>7 DEF DiskInv
  <1>9. StoreInv'
    BY <1>2, <1>5 DEF WinI, WinInv, StoreInv
  <1>10. CaptureInv'
    BY <1>2 DEF CaptureInv, Busy
  <1>11. QED
    BY <1>6, <1>8, <1>9, <1>10 DEF WinInv

\* A kill leaves the snapshot and at least the lines on disk.
LEMMA KillWin ==
    ASSUME WinI, Crash("kill")
    PROVE  WinInv'
  <1>1. PICK n \in synced .. Len(aof) : aof' = SubSeq(aof, 1, n) /\ synced' = n
    BY DEF Crash
  <1>2. /\ Live \subseteq 1 .. Len(hist) /\ Kept \subseteq 1 .. Len(hist)
        /\ Len(hist) \in Nat /\ Len(aof) \in Nat /\ synced \in 0 .. Len(aof)
    BY LiveNumbers DEF WinI
  <1>3. Len(aof') = n /\ \A p \in 1 .. n : aof'[p] = aof[p] /\ p \in 1 .. Len(aof)
    <2>1. aof \in Seq(0 .. MaxOps) /\ n \in 0 .. Len(aof)
      BY <1>2 DEF WinI, TypeInv, TypeOK
    <2>2. QED
      BY <1>1, <1>2, <2>1, KeptPrefix
  <1>4. /\ UNCHANGED <<hist, acked, late, exposed, snap>> /\ phase' = "down"
        /\ bare' = IF maintenance.pc = "gap" THEN acked ELSE bare
        /\ saver'["stop"] = Idle /\ maintenance'.pc = "idle"
    BY DEF Crash, ProcessEnds, maintenance, Saver, Idle
  <1>5. Kept' = Kept
    BY <1>4 DEF Kept
  <1>6. FilesInv'
    BY <1>4 DEF WinI, WinInv, FilesInv, Busy
  <1>7. ASSUME NEW i \in Kept
        PROVE  Held(i)' /\ (Known(i) => Known(i)')
    <2>1. \A p \in 1 .. synced : p \in 1 .. n
      BY <1>2
    <2>2. Direct(i) => Direct(i)'
      BY <1>1, <1>3, <2>1 DEF Direct
    <2>3. NoOlder(i) => NoOlder(i)'
      BY <1>3, <1>4 DEF NoOlder
    <2>4. Known(i) => Known(i)'
      BY <1>1, <1>3, <1>4, <2>1 DEF Known
    <2>5. QED
      BY <1>4, <2>2, <2>3, <2>4 DEF Held, WinI, WinInv, DiskInv
  <1>8. DiskInv'
    BY <1>4, <1>5, <1>7 DEF WinI, WinInv, DiskInv, Kept
  <1>9. StoreInv' /\ CaptureInv'
    BY <1>4 DEF StoreInv, CaptureInv, Busy
  <1>10. QED
    BY <1>6, <1>8, <1>9 DEF WinInv

\* Recovery rebuilds a store that reflects what the files hold.
LEMMA RecoverWin ==
    ASSUME WinI, Recover
    PROVE  WinInv'
  <1>1. /\ UNCHANGED <<aof, synced, hist, acked, late, exposed, bare, saver, thr>>
        /\ mem' = Replay(Loaded) /\ phase = "down" /\ phase' = "running"
        /\ snap' = snap
    BY DEF Recover, history, Corrupt, WinI, WinInv, FilesInv
  <1>2. maintenance.pc = "idle" /\ \A t \in Thread : thr[t] = Idle
    BY <1>1, MaintenanceShape DEF WinI, BaseInv, maintenance
  <1>3. /\ Kept \subseteq 1 .. Len(hist)
        /\ Len(hist) \in Nat /\ Len(aof) \in Nat /\ synced \in 0 .. Len(aof)
    BY LiveNumbers DEF WinI
  <1>4. Live' = Kept /\ Kept' = Kept
    BY <1>1, <1>2 DEF Live, Kept, Waiting
  <1>5. FilesInv' /\ DiskInv' /\ CaptureInv'
    BY <1>1, <1>2 DEF WinI, WinInv, FilesInv, DiskInv, CaptureInv, Busy, Held, Direct, NoOlder,
                      Known, Kept, maintenance
  <1>6. ASSUME NEW i \in Kept PROVE Covered(hist, late, Replay(Loaded), i)
    <2> DEFINE k == hist[i].key
               at == ReplayedAt(k)
    <2>1. k \in Key /\ i \in 1 .. Len(hist) /\ i \notin late
      BY <1>3, HistFields DEF WinI, Kept
    <2>2. CASE Direct(i)
      <3>1. PICK p \in 1 .. synced : aof[p] = i
        BY <2>2 DEF Direct
      <3>2. p \in 1 .. Len(aof)
        BY <1>3
      <3>3. QED
        BY <2>1, <3>1, <3>2, LineCovered DEF WinI
    <2>3. CASE ~Direct(i) /\ at # {}
      <3>1. NoOlder(i)
        BY <2>3 DEF WinI, WinInv, DiskInv, Held
      <3>2. \A p \in at : aof[p] >= i
        BY <3>1 DEF NoOlder, ReplayedAt
      <3>3. QED
        BY <2>1, <2>3, <3>2, ReplayCovers DEF WinI
    <2>4. CASE ~Direct(i) /\ at = {}
      <3>1. Replay(Loaded)[k] = Loaded[k]
        BY <2>1, <2>4, ReplayResult DEF WinI
      <3>2. CASE snap.kind = "data"
        <4>1. Covered(hist, late, snap.data, i) /\ Values(hist, snap.data)
          BY <2>4, <3>2 DEF WinI, WinInv, DiskInv, Held, BaseInv
        <4>2. snap.data \in Data
          BY <3>2 DEF WinI, TypeInv, TypeOK, SnapshotFile, NoFile, Corrupt
        <4>3. Covered(hist, late, Unexpired(snap.data), i)
          BY <2>1, <4>1, <4>2, CoveredUnexpired DEF WinI
        <4>4. Loaded = Unexpired(snap.data)
          BY <3>2 DEF Loaded
        <4>5. QED
          BY <3>1, <4>3, <4>4 DEF Covered
      <3>3. CASE snap.kind # "data"
        <4>1. Known(i)
          BY <1>2, <3>3 DEF WinI, WinInv, DiskInv, FilesInv
        <4>2. ASSUME NEW p \in 1 .. synced, hist[aof[p]].key = k, aof[p] >= i
              PROVE  aof[p] \in late /\ aof[p] \in i .. Len(hist)
          <5>1. p \in 1 .. Len(aof)
            BY <1>3
          <5>2. aof[p] \in 1 .. Len(hist)
            BY <5>1 DEF WinI, BaseInv, LinesOK
          <5>3. p \notin at
            BY <2>4
          <5>4. QED
            BY <1>3, <2>1, <4>2, <5>1, <5>2, <5>3 DEF ReplayedAt
        <4>3. \E j \in i .. Len(hist) : hist[j].key = k /\ (hist[j].op = "DELETE" \/ j \in late)
          BY <4>1, <4>2 DEF Known
        <4>4. Loaded[k] = 0
          BY <2>1, <3>3 DEF Loaded, NoData, WinI, WinInv, FilesInv
        <4>5. QED
          BY <3>1, <4>3, <4>4 DEF Covered
      <3>4. QED
        BY <3>2, <3>3
    <2>5. QED
      BY <2>2, <2>3, <2>4
  <1>7. StoreInv'
    BY <1>1, <1>4, <1>6 DEF StoreInv
  <1>8. QED
    BY <1>5, <1>7 DEF WinInv

\* Every step keeps it, for a process that is killed at any point.
LEMMA StepWin ==
    ASSUME WinI, OwnKeys, ~Tear, ~MayStop, Crashes \subseteq {"kill"}, [Next]_vars
    PROVE  WinInv'
  <1> USE DEF log, snapshot, history
  <1>1. /\ saver \in [Saver -> {Idle} \cup Progress] /\ Idle.pc = "idle"
        /\ "maintenance" \in Saver /\ "stop" \in Saver
        /\ thr \in [Thread -> {Idle} \cup ThreadOp]
        /\ synced \in synced .. Len(aof) /\ Len(aof) \in synced .. Len(aof)
        /\ phase # "stopping" /\ saver["stop"] = Idle
    <2>1. thr \in [Thread -> {Idle} \cup ThreadOp]
      BY DEF WinI, TypeInv, TypeOK, ThreadOp
    <2>2. synced \in synced .. Len(aof) /\ Len(aof) \in synced .. Len(aof)
      BY LiveNumbers DEF WinI
    <2>3. QED
      BY <2>1, <2>2, MaintenanceShape DEF WinI, WinInv, FilesInv
  <1>2. ASSUME NEW t \in Thread, AppendRaises(t) PROVE WinInv'
    <2>1. phase # "down"
      BY <1>1, <1>2 DEF AppendRaises, WinI, BaseInv
    <2>2. QED
      BY <1>1, <1>2, <2>1, QuietWin DEF AppendRaises, maintenance
  <1>3. CASE FsyncTick \/ CleanupExpired
    BY <1>1, <1>3, QuietWin DEF FsyncTick, CleanupExpired, maintenance
  <1>4. ASSUME NEW p \in Saver, Capture(p) PROVE WinInv'
    <2>1. p = "maintenance" /\ phase # "down"
      BY <1>1, <1>4 DEF Capture, Saver
    <2>2. /\ maintenance'.pc = "captured" /\ maintenance'.data = Unexpired(mem)
          /\ maintenance'.mark = Len(hist) /\ maintenance.pc = "idle"
          /\ saver'["stop"] = Idle /\ UNCHANGED <<hist, late, acked, exposed, thr>>
      BY <1>1, <1>4, <2>1 DEF Capture, maintenance
    <2>3. Len(hist) \in 0 .. Len(hist) /\ Live \subseteq 1 .. Len(hist) /\ Live' = Live /\ Kept' = Kept
      <3>1. Len(hist) \in Nat /\ Live \subseteq 1 .. Len(hist)
        BY LiveNumbers DEF WinI
      <3>2. QED
        BY <2>2, <3>1 DEF Live, Kept, Waiting
    <2>4. CaptureInv'
      <3>1. ASSUME NEW i \in Live PROVE Covered(hist, late, Unexpired(mem), i) /\ i <= Len(hist)
        <4>1. Covered(hist, late, mem, i) /\ mem \in Data /\ Values(hist, mem)
          BY <2>1 DEF WinI, WinInv, StoreInv, TypeInv, TypeOK, BaseInv
        <4>2. QED
          BY <2>3, <4>1, CoveredUnexpired DEF WinI
      <3>2. QED
        BY <2>2, <2>3, <3>1 DEF CaptureInv, Live
    <2>5. QED
      BY <1>1, <1>4, <2>1, <2>2, <2>3, <2>4, QuietWin DEF Capture
  <1>5. ASSUME NEW p \in Saver, SaveFails(p) PROVE WinInv'
    <2>1. p = "maintenance" /\ phase # "down" /\ maintenance.pc = "captured" /\ maintenance \in Progress
      BY <1>5, MaintenanceShape DEF SaveFails, Saver, maintenance
    <2>2. ~Busy' /\ saver'["stop"] = Idle
      BY <1>1, <1>5, <2>1 DEF SaveFails, Busy, maintenance, Progress
    <2>3. QED
      BY <1>1, <1>5, <2>1, <2>2, QuietWin DEF SaveFails
  <1>6. CASE EndMaintenance \/ CompactFails
    <2>1. phase # "down" /\ maintenance.pc \in {"failed", "saved", "rewriting"}
      BY <1>1, <1>6, MaintenanceShape DEF EndMaintenance, CompactFails, maintenance
    <2>2. ~Busy' /\ saver'["stop"] = Idle
      BY <1>1, <1>6, <2>1 DEF EndMaintenance, CompactFails, Busy, maintenance
    <2>3. QED
      BY <1>1, <1>6, <2>1, <2>2, QuietWin DEF EndMaintenance, CompactFails
  <1>7. CASE CompactBegin
    <2>1. phase # "down" /\ maintenance.pc = "saved" /\ maintenance \in Progress
      BY <1>7, MaintenanceShape DEF CompactBegin, maintenance
    <2>2. /\ maintenance'.pc = "rewriting" /\ maintenance'.data = maintenance.data
          /\ maintenance'.mark = maintenance.mark /\ saver'["stop"] = Idle
      BY <1>1, <1>7, <2>1 DEF CompactBegin, maintenance, Progress
    <2>3. QED
      BY <1>1, <1>7, <2>1, <2>2, QuietWin DEF CompactBegin
  <1>8. ASSUME NEW i \in OpId, TimePasses(i) PROVE WinInv'
    <2>1. CASE phase # "down"
      BY <1>1, <1>8, <2>1, QuietWin DEF TimePasses, maintenance
    <2>2. CASE phase = "down"
      <3>1. /\ UNCHANGED <<phase, aof, synced, hist, acked, exposed, bare, saver, snap>>
            /\ late \subseteq late' /\ phase' = "down" /\ maintenance.pc = "idle"
        BY <1>8, <2>2, MaintenanceShape DEF TimePasses
      <3>2. Kept' \subseteq Kept /\ Kept \subseteq 1 .. Len(hist) /\ Len(hist) \in Nat
            /\ Len(aof) \in Nat /\ synced' \in synced .. Len(aof')
            /\ Len(hist) <= Len(hist') /\ Len(aof) <= Len(aof') /\ ~(Len(aof) + 1 <= Len(aof'))
        BY <3>1, LiveNumbers DEF WinI, Kept
      <3>3. \A j \in Kept : (Held(j) => Held(j)') /\ (Known(j) => Known(j)')
        BY <3>1, <3>2, FilesKeep DEF WinI
      <3>4. FilesInv' /\ DiskInv'
        BY <3>1, <3>2, <3>3 DEF WinI, WinInv, FilesInv, DiskInv, maintenance, Busy
      <3>5. StoreInv' /\ CaptureInv'
        BY <3>1 DEF StoreInv, CaptureInv, Busy, maintenance
      <3>6. QED
        BY <3>4, <3>5 DEF WinInv
    <2>3. QED
      BY <2>1, <2>2
  <1>9. CASE UNCHANGED vars
    BY <1>9 DEF vars, WinI, WinInv, FilesInv, DiskInv, StoreInv, CaptureInv, Busy, maintenance,
                Held, Direct, NoOlder, Known, Kept, Live, Waiting
  <1>10. ASSUME StopBegin \/ CloseAof \/ Exit PROVE FALSE
    BY <1>1, <1>10 DEF StopBegin, CloseAof, Exit
  <1>11. QED
    BY <1>2, <1>3, <1>4, <1>5, <1>6, <1>7, <1>8, <1>9, <1>10, ApplyWin, AppendWin, SyncWin,
       BackupWin, RenameWin, UnlinkWin, NewFileWin, KillWin, RecoverWin
       DEF Next, ThreadStep, SaveStep, MaintenanceStep

\* What compaction can lose is bounded: for writers of one key that follow each
\* other, a process that is killed however often and wherever, in save and compact
\* included, comes back without an acknowledged operation only if its line was
\* appended after _maintenance_loop captured the data compact then wrote, or if a
\* kill within compact left it to the snapshot that the next save renamed.
THEOREM WindowOnly ==
    ASSUME OwnKeys, ~Tear, ~MayStop, Crashes \subseteq {"kill"}
    PROVE  Spec => []OnlyWindowLost
  <1>1. Init => WinI
    <2> SUFFICES ASSUME Init PROVE WinI
      OBVIOUS
    <2>1. /\ acked = {} /\ bare = {} /\ snap.kind = "none" /\ phase = "running"
          /\ saver["stop"] = Idle /\ maintenance.pc = "idle" /\ \A t \in Thread : thr[t] = Idle
      BY DEF Init, NoFile, Saver, Idle, maintenance
    <2>2. WinInv
      BY <2>1 DEF WinInv, FilesInv, DiskInv, StoreInv, CaptureInv, Busy, Kept, Live, Waiting
    <2>3. QED
      BY <2>2, InitTypes, InitBase DEF WinI
  <1>2. WinI /\ [Next]_vars => WinI'
    BY StepTypes, StepBase, StepWin DEF WinI
  <1>3. WinI => OnlyWindowLost
    BY DEF WinI, WinInv, StoreInv, Live, Kept, OnlyWindowLost, Covered, Reflected
  <1>4. QED
    BY <1>1, <1>2, <1>3, PTL DEF Spec
=============================================================================
