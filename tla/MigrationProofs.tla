-------------------------- MODULE MigrationProofs ---------------------------
(***************************************************************************)
(* What moving keys between nodes can lose, for any number of nodes, keys, *)
(* tasks, writes and changes of the rings: TypeOK and LostOnlyByMishap.    *)
(*                                                                         *)
(* A task always sends a key to a node that the walk of the key meets      *)
(* before the sender.  So whoever deletes a record it has sent leaves one  *)
(* that is as new nearer to the start of the walk, and a chain of moves    *)
(* cannot come back to where it began.                                     *)
(***************************************************************************)
EXTENDS Migration, FiniteSetTheorems, SequenceTheorems, WellFoundedInduction, TLAPS

-----------------------------------------------------------------------------
(* The walk and the ring. *)

\* A set of naturals that is not empty has a least element.
LEMMA LeastNatural ==
    ASSUME NEW T, T \subseteq Nat, T # {}
    PROVE  \E x \in T : \A y \in T : x <= y
  <1>1. PICK x \in T : \A y \in T : ~(<<y, x>> \in OpToRel(<, Nat))
    BY NatLessThanWellFounded, WFMin
  <1>2. \A y \in T : ~(y < x)
    BY <1>1 DEF OpToRel
  <1>3. QED
    BY <1>2

\* The walk of a key is a list of the nodes without repetition.
LEMMA WalkFacts ==
    ASSUME NEW k \in Key
    PROVE  /\ Len(Walk[k]) \in Nat
           /\ \A n \in Node : \E i \in 1 .. Len(Walk[k]) : Walk[k][i] = n
           /\ \A i, j \in 1 .. Len(Walk[k]) : Walk[k][i] = Walk[k][j] => i = j
  <1>1. /\ Walk \in [Key -> Seq(Node)]
        /\ Node = {Walk[k][i] : i \in 1 .. Len(Walk[k])}
        /\ \A i, j \in 1 .. Len(Walk[k]) : Walk[k][i] = Walk[k][j] => i = j
    BY MigrationAssumption
  <1>2. Len(Walk[k]) \in Nat
    <2>1. Walk[k] \in Seq(Node)
      BY <1>1
    <2>2. QED
      BY <2>1, LenProperties
  <1>3. \A n \in Node : \E i \in 1 .. Len(Walk[k]) : Walk[k][i] = n
    BY <1>1
  <1>4. QED
    BY <1>1, <1>2, <1>3

\* It meets the nodes one after the other.
LEMMA WalkOrder ==
    ASSUME NEW k \in Key
    PROVE  /\ \A n \in Node : ~Before(k, n, n)
           /\ \A l, m, n \in Node : Before(k, l, m) /\ Before(k, m, n) => Before(k, l, n)
           /\ \A m, n \in Node : m # n => Before(k, m, n) \/ Before(k, n, m)
  <1> DEFINE P == 1 .. Len(Walk[k])
  <1>1. /\ Len(Walk[k]) \in Nat
        /\ \A n \in Node : \E i \in P : Walk[k][i] = n
        /\ \A i, j \in P : Walk[k][i] = Walk[k][j] => i = j
    BY WalkFacts
  <1>2. P \subseteq Int
    BY <1>1
  <1>3. \A m, n : Before(k, m, n) <=> \E i, j \in P : i < j /\ Walk[k][i] = m /\ Walk[k][j] = n
    BY DEF Before
  <1> HIDE DEF P
  <1>4. \A n \in Node : ~Before(k, n, n)
    BY <1>1, <1>2, <1>3
  <1>5. ASSUME NEW l \in Node, NEW m \in Node, NEW n \in Node, Before(k, l, m), Before(k, m, n)
        PROVE  Before(k, l, n)
    <2>1. PICK i, j \in P : i < j /\ Walk[k][i] = l /\ Walk[k][j] = m
      BY <1>3, <1>5
    <2>2. PICK p, q \in P : p < q /\ Walk[k][p] = m /\ Walk[k][q] = n
      BY <1>3, <1>5
    <2>3. j = p
      BY <1>1, <2>1, <2>2
    <2>4. i < q
      BY <1>2, <2>1, <2>2, <2>3
    <2>5. QED
      BY <1>3, <2>1, <2>2, <2>4
  <1>6. ASSUME NEW m \in Node, NEW n \in Node, m # n PROVE Before(k, m, n) \/ Before(k, n, m)
    <2>1. PICK i \in P : Walk[k][i] = m
      BY <1>1
    <2>2. PICK j \in P : Walk[k][j] = n
      BY <1>1
    <2>3. i < j \/ j < i
      BY <1>2, <1>6, <2>1, <2>2
    <2>4. QED
      BY <1>3, <2>1, <2>2, <2>3
  <1>7. QED
    BY <1>4, <1>5, <1>6

\* get_node answers the first node of the ring.
LEMMA FirstNode ==
    ASSUME NEW k \in Key, NEW r, r \subseteq Node, r # {}
    PROVE  /\ GetNode(r, k) \in r
           /\ \A m \in r \ {GetNode(r, k)} : Before(k, GetNode(r, k), m)
  <1> DEFINE P == {i \in 1 .. Len(Walk[k]) : Walk[k][i] \in r}
  <1>1. /\ Len(Walk[k]) \in Nat
        /\ \A n \in Node : \E i \in 1 .. Len(Walk[k]) : Walk[k][i] = n
        /\ \A i, j \in 1 .. Len(Walk[k]) : Walk[k][i] = Walk[k][j] => i = j
    BY WalkFacts
  <1>2. P \subseteq Nat /\ P # {}
    BY <1>1
  <1>3. PICK i \in P : \A j \in P : i <= j
    <2> HIDE DEF P
    <2>1. QED
      BY <1>2, LeastNatural
  <1>4. \A m \in r \ {Walk[k][i]} : Before(k, Walk[k][i], m)
    <2>1. ASSUME NEW m \in r, m # Walk[k][i] PROVE Before(k, Walk[k][i], m)
      <3>1. PICK j \in 1 .. Len(Walk[k]) : Walk[k][j] = m
        BY <1>1
      <3>2. j \in P /\ j # i /\ i \in 1 .. Len(Walk[k])
        BY <2>1, <3>1
      <3>3. i < j
        BY <1>2, <1>3, <3>2
      <3>4. QED
        BY <3>1, <3>2, <3>3 DEF Before
    <2>2. QED
      BY <2>1
  <1>5. QED
    BY <1>3, <1>4 DEF GetNode

\* A node of the ring that is no replica of a key is not the first one.
LEMMA LaterNode ==
    ASSUME NEW k \in Key, NEW r, r \subseteq Node, NEW n \in r, factor \in Factors,
           n \notin GetNodes(r, k)
    PROVE  Before(k, GetNode(r, k), n)
  <1>1. CASE n = GetNode(r, k)
    <2>1. ASSUME NEW m \in r, Before(k, m, n) PROVE FALSE
      BY <1>1, <2>1, FirstNode, WalkOrder
    <2>2. {m \in r : Before(k, m, n)} = {}
      BY <2>1
    <2>3. Cardinality({m \in r : Before(k, m, n)}) < factor
      <3>1. factor \in Nat \ {0}
        BY MigrationAssumption
      <3>2. QED
        BY <2>2, <3>1, FS_EmptySet
    <2>4. QED
      BY <2>3 DEF GetNodes
  <1>2. CASE n # GetNode(r, k)
    BY <1>2, FirstNode
  <1>3. QED
    BY <1>1, <1>2

-----------------------------------------------------------------------------
(* Types, and the writes that records come from. *)

IdleWorker == [pc : {"idle"}, todo : SUBSET Task]
BusyWorker == [pc : {"sending", "waiting", "deleting"}, todo : SUBSET Task, task : Task,
               data : Data, left : SUBSET Key, batch : SUBSET Key]
Import == [from : Node, to : Node, no : 1 .. MaxTasks, keys : SUBSET Key,
           todo : SUBSET Key, data : Data, checked : SUBSET Key,
           owned : SUBSET Key, fanned : BOOLEAN]
SetRequest == [to : Node, key : Key, rec : Record, checked : BOOLEAN]
Write == [id : 1 .. MaxWrites, key : Key, rec : Record, done : SUBSET Node]

\* r is no record, or that of a write of the history h on k.
Good(h, k, r) ==
    /\ r.id \in 0 .. Len(h) /\ r.ver \in 0 .. r.id
    /\ IF r.id = 0 THEN r = Absent ELSE h[r.id] = k
AllGood(h, d) == \A k \in Key : Good(h, k, d[k])

RecordInv ==
    /\ \A n \in Node : AllGood(hist, store[n])
    /\ \A n \in Node : worker[n].pc # "idle" =>
          /\ AllGood(hist, worker[n].data)
          /\ worker[n].pc # "deleting" => \A k \in worker[n].left : worker[n].data[k] # Absent
    /\ \A i \in imports : /\ AllGood(hist, i.data)
                          /\ i.owned \subseteq i.keys /\ i.checked \subseteq i.todo
                          /\ i.todo \subseteq i.keys
                          /\ \A k \in i.keys : i.data[k] # Absent
    /\ \A s \in sets : Good(hist, s.key, s.rec)
    /\ writing # NoWrite => /\ writing.id = Len(hist) /\ writing.rec.id = Len(hist)
                            /\ Good(hist, writing.key, writing.rec)
    /\ \A x \in mishaps : x.id \in 1 .. Len(hist)

TypeInv == TypeOK /\ RecordInv

\* Writes that follow change nothing about the earlier ones.
LEMMA GoodGrows ==
    ASSUME NEW h, NEW g, Len(h) \in Nat, Len(g) \in Nat, Len(h) <= Len(g),
           \A j \in 1 .. Len(h) : g[j] = h[j], NEW k, NEW r, Good(h, k, r)
    PROVE  Good(g, k, r)
  <1>1. r.id \in 0 .. Len(g)
    BY DEF Good
  <1>2. r.id # 0 => r.id \in 1 .. Len(h)
    BY DEF Good
  <1>3. QED
    BY <1>1, <1>2 DEF Good

\* The types of what the processes keep.
LEMMA Shapes ==
    ASSUME TypeInv
    PROVE  /\ worker \in [Node -> IdleWorker \cup BusyWorker]
           /\ \A n \in Node : worker[n].pc # "idle" => worker[n] \in BusyWorker
           /\ \A n \in Node : worker[n].pc = "idle" => worker[n] \in IdleWorker
           /\ imports \subseteq Import /\ sets \subseteq SetRequest
           /\ writing # NoWrite => writing \in Write
           /\ Len(hist) \in Nat
           /\ store \in [Node -> [Key -> Record]] /\ Absent \in Record
           /\ NoTask \in IdleWorker
  <1>1. worker \in [Node -> IdleWorker \cup BusyWorker]
    BY DEF TypeInv, TypeOK, WorkerType, IdleWorker, BusyWorker
  <1>2. \A w \in IdleWorker : w.pc = "idle"
    BY DEF IdleWorker
  <1>3. \A w \in BusyWorker : w.pc # "idle"
    BY DEF BusyWorker
  <1>4. imports \subseteq Import /\ sets \subseteq SetRequest /\ (writing # NoWrite => writing \in Write)
    BY DEF TypeInv, TypeOK, Import, SetRequest, Write
  <1>5. Len(hist) \in Nat
    BY LenProperties DEF TypeInv, TypeOK
  <1>6. store \in [Node -> [Key -> Record]] /\ Absent \in Record
    BY MigrationAssumption DEF TypeInv, TypeOK, Data, Absent, Record
  <1>7. NoTask \in IdleWorker
    BY DEF NoTask, IdleWorker
  <1>8. QED
    BY <1>1, <1>2, <1>3, <1>4, <1>5, <1>6, <1>7

\* Steps that change the tasks, the rings and the workers only.
LEMMA QuietTypes ==
    ASSUME TypeInv, UNCHANGED <<factor, store, imports, sets, writing, hist, acked, mishaps>>,
           ring' \in [Node -> SUBSET Node], \A n \in Node : n \in ring'[n],
           created' \in 0 .. MaxTasks, second' \in 0 .. MaxSecond, changes' \in 0 .. MaxRingChanges,
           active' \in [Node -> SUBSET Task],
           \A n \in Node : \A t, u \in active'[n] : t.id = u.id => t = u,
           worker' \in [Node -> IdleWorker \cup BusyWorker],
           \A n \in Node : worker'[n].pc # "idle" =>
              /\ worker'[n].left \subseteq worker'[n].task.keys
              /\ AllGood(hist, worker'[n].data)
              /\ worker'[n].pc # "deleting" => \A k \in worker'[n].left : worker'[n].data[k] # Absent
    PROVE  TypeInv'
  <1>1. worker' \in [Node -> WorkerType]
    BY DEF WorkerType, IdleWorker, BusyWorker
  <1>2. TypeOK'
    BY <1>1 DEF TypeInv, TypeOK
  <1>3. RecordInv'
    BY DEF TypeInv, RecordInv
  <1>4. QED
    BY <1>2, <1>3 DEF TypeInv

\* Tasks that are added have ids and numbers of their own.
LEMMA AddTypes ==
    ASSUME TypeInv, NEW n \in Node, NEW kind \in {"migrate", "rebalance"},
           NEW f \in [Node -> SUBSET Key], AddTasks(n, kind, f)
    PROVE  /\ created' \in 0 .. MaxTasks /\ created <= created' /\ second' \in 0 .. MaxSecond
           /\ active' \in [Node -> SUBSET Task]
           /\ \A m \in Node \ {n} : active'[m] = active[m]
           /\ \A m \in Node : \A t, u \in active'[m] : t.id = u.id => t = u
           /\ \A t \in active'[n] \ active[n] : /\ t.no \in created + 1 .. created'
                                                /\ t.to \in Node /\ t.keys = f[t.to]
           /\ \A t, u \in active'[n] \ active[n] : t.no = u.no => t = u
  <1> DEFINE targets == {m \in Node : f[m] # {}}
  <1>1. /\ created \in 0 .. MaxTasks /\ second \in 0 .. MaxSecond /\ MaxTasks \in Nat /\ MaxSecond \in Nat
        /\ active \in [Node -> SUBSET Task]
        /\ \A m \in Node : \A t, u \in active[m] : t.id = u.id => t = u
    BY MigrationAssumption DEF TypeInv, TypeOK
  <1>2. CASE targets = {}
    <2>1. UNCHANGED <<active, created, second>>
      BY <1>2 DEF AddTasks
    <2>2. QED
      BY <1>1, <2>1
  <1>3. CASE targets # {}
    <2>1. Cardinality(targets) \in Nat
      <3>1. IsFiniteSet(targets)
        BY FS_Subset, MigrationAssumption
      <3>2. QED
        BY <3>1, FS_CardinalityType
    <2> DEFINE New(no) == {[no |-> no[m], id |-> <<kind, m, second'>>, to |-> m,
                           keys |-> f[m], state |-> "PENDING"] : m \in targets}
    <2>2. /\ created + Cardinality(targets) <= MaxTasks
          /\ second' \in {second, second + 1} \cap (0 .. MaxSecond)
          /\ created' = created + Cardinality(targets)
          /\ \E no \in [targets -> created + 1 .. created'] :
                /\ \A m1, m2 \in targets : no[m1] = no[m2] => m1 = m2
                /\ active' = [active EXCEPT ![n] = New(no) \cup
                                {t \in @ : \A u \in New(no) : t.id # u.id}]
      BY <1>3 DEF AddTasks
    <2>3. PICK no \in [targets -> created + 1 .. created'] :
                /\ \A m1, m2 \in targets : no[m1] = no[m2] => m1 = m2
                /\ active' = [active EXCEPT ![n] = New(no) \cup
                                {t \in @ : \A u \in New(no) : t.id # u.id}]
      BY <2>2
    <2>4. /\ created' \in 0 .. MaxTasks /\ created <= created' /\ second' \in 0 .. MaxSecond
          /\ created + 1 .. created' \subseteq 1 .. MaxTasks
      <3>1. created \in Nat /\ created' \in Nat /\ created <= created' /\ created' <= MaxTasks
        BY <1>1, <2>1, <2>2
      <3>2. second' \in 0 .. MaxSecond
        BY <2>2
      <3>3. \A x \in created + 1 .. created' : x \in 1 .. MaxTasks
        BY <1>1, <3>1
      <3>4. QED
        BY <1>1, <3>1, <3>2, <3>3
    <2> HIDE DEF targets
    <2>5. \A t \in New(no) : /\ t \in Task /\ t.no \in created + 1 .. created'
                             /\ t.to \in targets /\ t.keys = f[t.to] /\ t.no = no[t.to]
                             /\ t.id = <<kind, t.to, second'>>
      <3>1. ASSUME NEW m \in targets
            PROVE  [no |-> no[m], id |-> <<kind, m, second'>>, to |-> m,
                    keys |-> f[m], state |-> "PENDING"] \in Task
        <4>1. m \in Node /\ no[m] \in 1 .. MaxTasks /\ f[m] \in SUBSET Key
          BY <2>3, <2>4 DEF targets
        <4>2. <<kind, m, second'>> \in TaskId
          BY <2>4, <4>1 DEF TaskId
        <4>3. QED
          BY <4>1, <4>2 DEF Task
      <3>2. QED
        BY <2>3, <3>1
    <2>6. \A t, u \in New(no) : t.to = u.to => t = u
      OBVIOUS
    <2> HIDE DEF New
    <2>7. /\ active'[n] = New(no) \cup {t \in active[n] : \A u \in New(no) : t.id # u.id}
          /\ \A m \in Node \ {n} : active'[m] = active[m]
      BY <1>1, <2>3
    <2>8. active' \in [Node -> SUBSET Task]
      BY <1>1, <2>3, <2>5
    <2>9. \A t, u \in New(no) : (t.id = u.id \/ t.no = u.no) => t = u
      BY <2>3, <2>5, <2>6
    <2>10. \A m \in Node : \A t, u \in active'[m] : t.id = u.id => t = u
      BY <1>1, <2>7, <2>9
    <2>11. targets \subseteq Node
      BY DEF targets
    <2>12. QED
      BY <2>4, <2>5, <2>7, <2>8, <2>9, <2>10, <2>11
  <1>4. QED
    BY <1>2, <1>3

\* Changes of the ring, REBALANCE and cancel_migration.
LEMMA RingTypes ==
    ASSUME TypeInv, NEW n \in Node,
           \/ \E m \in Node : AddToRing(n, m) \/ RemoveFromRing(n, m)
           \/ Rebalance(n)
           \/ \E t \in active[n] : CancelMigration(n, t)
    PROVE  TypeInv'
  <1> USE DEF requests, counters, writes
  <1>1. /\ ring \in [Node -> SUBSET Node] /\ \A x \in Node : x \in ring[x]
        /\ created \in 0 .. MaxTasks /\ second \in 0 .. MaxSecond /\ changes \in 0 .. MaxRingChanges
        /\ MaxRingChanges \in Nat /\ active \in [Node -> SUBSET Task]
        /\ \A x \in Node : \A t, u \in active[x] : t.id = u.id => t = u
        /\ worker \in [Node -> IdleWorker \cup BusyWorker]
    BY Shapes, MigrationAssumption DEF TypeInv, TypeOK
  <1>2. \A x \in Node : worker[x].pc # "idle" =>
              /\ worker[x].left \subseteq worker[x].task.keys
              /\ AllGood(hist, worker[x].data)
              /\ worker[x].pc # "deleting" => \A k \in worker[x].left : worker[x].data[k] # Absent
    BY DEF TypeInv, TypeOK, RecordInv
  <1>3. ASSUME NEW m \in Node, AddToRing(n, m) PROVE TypeInv'
    <2> DEFINE f == [x \in Node |-> {k \in LocalKeys(n) : x = m /\ GetNode(ring'[n], k) = m}]
    <2>1. AddTasks(n, "migrate", f) /\ f \in [Node -> SUBSET Key]
      BY <1>3 DEF AddToRing, LocalKeys
    <2>2. /\ ring' \in [Node -> SUBSET Node] /\ \A x \in Node : x \in ring'[x]
          /\ changes' \in 0 .. MaxRingChanges
      BY <1>1, <1>3 DEF AddToRing, WithNode
    <2> HIDE DEF f
    <2>3. QED
      BY <1>2, <1>3, <1>1, <2>1, <2>2, AddTypes, QuietTypes DEF AddToRing
  <1>4. ASSUME NEW m \in Node, RemoveFromRing(n, m) PROVE TypeInv'
    <2>1. /\ ring' \in [Node -> SUBSET Node] /\ \A x \in Node : x \in ring'[x]
          /\ changes' \in 0 .. MaxRingChanges
      BY <1>1, <1>4 DEF RemoveFromRing, WithoutNode
    <2>2. QED
      BY <1>1, <1>2, <1>4, <2>1, QuietTypes DEF RemoveFromRing
  <1>5. CASE Rebalance(n)
    <2> DEFINE gone == {k \in LocalKeys(n) : n \notin GetNodes(ring[n], k)}
               f == [m \in Node |-> {k \in gone : GetNode(ring[n], k) = m}]
    <2>1. AddTasks(n, "rebalance", f) /\ f \in [Node -> SUBSET Key]
      BY <1>5 DEF Rebalance, LocalKeys
    <2> HIDE DEF f
    <2>2. QED
      BY <1>1, <1>2, <1>5, <2>1, AddTypes, QuietTypes DEF Rebalance
  <1>6. ASSUME NEW t \in active[n], CancelMigration(n, t) PROVE TypeInv'
    <2>1. t \in Task
      BY <1>1
    <2>2. PICK c : c = [t EXCEPT !.state = "CANCELLED"]
      OBVIOUS
    <2>3. c \in Task /\ c.id = t.id
      BY <2>1, <2>2 DEF Task
    <2>4. active' = [active EXCEPT ![n] = (@ \ {t}) \cup {c}]
      BY <1>6, <2>2 DEF CancelMigration
    <2>5. active' \in [Node -> SUBSET Task]
      BY <1>1, <2>3, <2>4
    <2>6. \A x \in Node : \A u, v \in active'[x] : u.id = v.id => u = v
      BY <1>1, <2>3, <2>4
    <2>7. QED
      BY <1>1, <1>2, <1>6, <2>5, <2>6, QuietTypes DEF CancelMigration
  <1>7. QED
    BY <1>3, <1>4, <1>5, <1>6

\* The migration thread.
LEMMA WorkerTypes ==
    ASSUME TypeInv, NEW n \in Node, WorkerStep(n)
    PROVE  TypeInv'
  <1> USE DEF requests, counters, writes
  <1>1. /\ ring \in [Node -> SUBSET Node] /\ \A x \in Node : x \in ring[x]
        /\ created \in 0 .. MaxTasks /\ second \in 0 .. MaxSecond /\ changes \in 0 .. MaxRingChanges
        /\ active \in [Node -> SUBSET Task]
        /\ \A x \in Node : \A t, u \in active[x] : t.id = u.id => t = u
        /\ worker \in [Node -> IdleWorker \cup BusyWorker]
        /\ worker[n].pc # "idle" => worker[n] \in BusyWorker
        /\ worker[n].pc = "idle" => worker[n] \in IdleWorker
    BY Shapes, MigrationAssumption DEF TypeInv, TypeOK
  <1>2. \A x \in Node : worker[x].pc # "idle" =>
              /\ worker[x].left \subseteq worker[x].task.keys
              /\ AllGood(hist, worker[x].data)
              /\ worker[x].pc # "deleting" => \A k \in worker[x].left : worker[x].data[k] # Absent
    BY DEF TypeInv, TypeOK, RecordInv
  <1>3. CASE ListPending(n)
    <2>1. PICK w : w = [worker[n] EXCEPT !.todo = {t \in active[n] : t.state = "PENDING"}]
      OBVIOUS
    <2>2. w \in IdleWorker /\ w.pc = "idle"
      BY <1>1, <1>3, <2>1 DEF ListPending, NoTask, IdleWorker
    <2>3. worker' = [worker EXCEPT ![n] = w]
      BY <1>3, <2>1 DEF ListPending
    <2>4. /\ worker' \in [Node -> IdleWorker \cup BusyWorker] /\ worker'[n] = w
          /\ \A x \in Node \ {n} : worker'[x] = worker[x]
      BY <1>1, <2>2, <2>3
    <2>5. QED
      BY <1>1, <1>2, <1>3, <2>2, <2>4, QuietTypes DEF ListPending
  <1>4. CASE StartTask(n)
    <2>1. PICK t \in worker[n].todo :
         /\ worker' = [worker EXCEPT ![n] =
               [pc |-> "sending", todo |-> @.todo \ {t}, task |-> t,
                data |-> store[n], left |-> t.keys \cap LocalKeys(n),
                batch |-> {}]]
         /\ active' = [active EXCEPT ![n] =
               {IF u.no = t.no THEN [u EXCEPT !.state = "IN_PROGRESS"] ELSE u :
                  u \in @}]
      BY <1>4 DEF StartTask
    <2>2. t \in Task /\ worker[n].todo \in SUBSET Task
      BY <1>1, <1>4 DEF StartTask, IdleWorker
    <2>3. PICK w : w = [pc |-> "sending", todo |-> worker[n].todo \ {t}, task |-> t,
                        data |-> store[n], left |-> t.keys \cap LocalKeys(n), batch |-> {}]
      OBVIOUS
    <2>4. store[n] \in Data
      BY DEF TypeInv, TypeOK
    <2>5. w \in BusyWorker /\ w.task = t /\ w.data = store[n] /\ w.left = t.keys \cap LocalKeys(n)
      BY <2>2, <2>3, <2>4 DEF BusyWorker, Task
    <2>6. /\ worker' \in [Node -> IdleWorker \cup BusyWorker] /\ worker'[n] = w
          /\ \A x \in Node \ {n} : worker'[x] = worker[x]
      BY <1>1, <2>1, <2>3, <2>5
    <2>7. \A x \in Node : worker'[x].pc # "idle" =>
              /\ worker'[x].left \subseteq worker'[x].task.keys
              /\ AllGood(hist, worker'[x].data)
              /\ worker'[x].pc # "deleting" => \A k \in worker'[x].left : worker'[x].data[k] # Absent
      <3>1. w.left \subseteq w.task.keys /\ AllGood(hist, w.data) /\ \A k \in w.left : w.data[k] # Absent
        BY <2>5 DEF LocalKeys, TypeInv, RecordInv
      <3>2. QED
        BY <1>2, <2>6, <3>1
    <2>8. \A u \in Task : LET v == IF u.no = t.no THEN [u EXCEPT !.state = "IN_PROGRESS"] ELSE u
                          IN  v \in Task /\ v.id = u.id
      BY DEF Task
    <2>9. active' \in [Node -> SUBSET Task]
      BY <1>1, <2>1, <2>8
    <2>10. \A x \in Node : \A u, v \in active'[x] : u.id = v.id => u = v
      <3>1. ASSUME NEW u \in active'[n], NEW v \in active'[n], u.id = v.id PROVE u = v
        <4>1. PICK u0 \in active[n] : u = IF u0.no = t.no THEN [u0 EXCEPT !.state = "IN_PROGRESS"] ELSE u0
          BY <1>1, <2>1
        <4>2. PICK v0 \in active[n] : v = IF v0.no = t.no THEN [v0 EXCEPT !.state = "IN_PROGRESS"] ELSE v0
          BY <1>1, <2>1
        <4>3. u.id = u0.id /\ v.id = v0.id
          BY <1>1, <2>8, <4>1, <4>2
        <4>4. u0 = v0
          BY <1>1, <3>1, <4>3
        <4>5. QED
          BY <4>1, <4>2, <4>4
      <3>2. \A x \in Node \ {n} : active'[x] = active[x]
        BY <1>1, <2>1
      <3>3. QED
        BY <1>1, <3>1, <3>2
    <2>11. QED
      BY <1>1, <1>4, <2>6, <2>7, <2>9, <2>10, QuietTypes DEF StartTask
  <1>5. CASE SendFails(n) \/ FinishTask(n)
    <2>1. EndTask(n) /\ worker[n] \in BusyWorker
      BY <1>1, <1>5 DEF SendFails, FinishTask
    <2>2. PICK w : w = [NoTask EXCEPT !.todo = worker[n].todo]
      OBVIOUS
    <2>3. w \in IdleWorker /\ w.pc = "idle"
      BY <2>1, <2>2 DEF NoTask, IdleWorker, BusyWorker
    <2>4. /\ worker' \in [Node -> IdleWorker \cup BusyWorker] /\ worker'[n] = w
          /\ \A x \in Node \ {n} : worker'[x] = worker[x]
      BY <1>1, <2>1, <2>2, <2>3 DEF EndTask
    <2>5. /\ active' \in [Node -> SUBSET Task] /\ \A x \in Node : active'[x] \subseteq active[x]
      BY <1>1, <2>1 DEF EndTask
    <2>6. QED
      BY <1>1, <1>2, <1>5, <2>3, <2>4, <2>5, QuietTypes DEF SendFails, FinishTask
  <1>6. CASE DecideDelete(n)
    <2>1. PICK w : w = [worker[n] EXCEPT !.pc = "deleting", !.left =
          {k \in worker[n].task.keys : n \notin GetNodes(ring[n], k)}]
      OBVIOUS
    <2>2. worker[n] \in BusyWorker /\ worker[n].pc # "idle"
      BY <1>1, <1>6 DEF DecideDelete
    <2>3. /\ w \in BusyWorker /\ w.pc = "deleting" /\ w.task = worker[n].task /\ w.data = worker[n].data
          /\ w.left \subseteq w.task.keys
      BY <2>1, <2>2 DEF BusyWorker, Task
    <2>4. /\ worker' \in [Node -> IdleWorker \cup BusyWorker] /\ worker'[n] = w
          /\ \A x \in Node \ {n} : worker'[x] = worker[x]
      BY <1>1, <1>6, <2>1, <2>3 DEF DecideDelete
    <2>5. \A x \in Node : worker'[x].pc # "idle" =>
              /\ worker'[x].left \subseteq worker'[x].task.keys
              /\ AllGood(hist, worker'[x].data)
              /\ worker'[x].pc # "deleting" => \A k \in worker'[x].left : worker'[x].data[k] # Absent
      BY <1>2, <2>2, <2>3, <2>4
    <2>6. UNCHANGED <<factor, ring, store, active, imports, sets, created, second, changes, writing, hist,
                      acked, mishaps>>
      BY <1>6 DEF DecideDelete
    <2>7. QED
      BY <1>1, <2>4, <2>5, <2>6, QuietTypes
  <1>7. CASE SendBatch(n)
    <2>1. PICK batch \in SUBSET worker[n].left :
         /\ worker' = [worker EXCEPT ![n].pc = "waiting", ![n].batch = batch]
         /\ imports' = imports \cup
               {[from |-> n, to |-> worker[n].task.to,
                 no |-> worker[n].task.no,
                 keys |-> batch, todo |-> batch, data |-> worker[n].data,
                 checked |-> {}, owned |-> {}, fanned |-> FALSE]}
      BY <1>7 DEF SendBatch
    <2>2. worker[n] \in BusyWorker /\ worker[n].pc = "sending" /\ worker[n].task \in Task
      BY <1>1, <1>7 DEF SendBatch, BusyWorker
    <2>3. PICK i : i = [from |-> n, to |-> worker[n].task.to,
                 no |-> worker[n].task.no,
                 keys |-> batch, todo |-> batch, data |-> worker[n].data,
                 checked |-> {}, owned |-> {}, fanned |-> FALSE]
      OBVIOUS
    <2>4. i \in Import
      <3>1. /\ worker[n].task.to \in Node /\ worker[n].task.no \in 1 .. MaxTasks
            /\ batch \in SUBSET Key /\ worker[n].data \in Data
        BY <2>2 DEF BusyWorker, Task
      <3>2. QED
        BY <2>3, <3>1 DEF Import
    <2>5. /\ AllGood(hist, i.data) /\ i.owned \subseteq i.keys /\ i.checked \subseteq i.todo
          /\ i.todo \subseteq i.keys /\ \A k \in i.keys : i.data[k] # Absent
      BY <1>2, <2>1, <2>2, <2>3
    <2>6. PICK w : w = [worker[n] EXCEPT !.pc = "waiting", !.batch = batch]
      OBVIOUS
    <2>7. /\ w \in BusyWorker /\ w.pc = "waiting" /\ w.task = worker[n].task
          /\ w.data = worker[n].data /\ w.left = worker[n].left
      BY <2>2, <2>6 DEF BusyWorker
    <2>8. /\ worker' \in [Node -> IdleWorker \cup BusyWorker] /\ worker'[n] = w
          /\ \A x \in Node \ {n} : worker'[x] = worker[x]
      BY <1>1, <2>1, <2>6, <2>7
    <2>9. /\ UNCHANGED <<factor, ring, store, active, sets, created, second, changes, writing, hist, acked, mishaps>>
          /\ imports' = imports \cup {i}
      BY <1>7, <2>1, <2>3 DEF SendBatch
    <2>10. worker' \in [Node -> WorkerType] /\ imports' \subseteq Import
      BY <2>4, <2>8, <2>9, Shapes DEF WorkerType, IdleWorker, BusyWorker
    <2>11. \A x \in Node : worker'[x].pc # "idle" =>
              /\ worker'[x].left \subseteq worker'[x].task.keys
              /\ AllGood(hist, worker'[x].data)
              /\ worker'[x].pc # "deleting" => \A k \in worker'[x].left : worker'[x].data[k] # Absent
      BY <1>2, <2>2, <2>7, <2>8
    <2>12. TypeOK'
      BY <2>9, <2>10, <2>11 DEF TypeInv, TypeOK, Import
    <2>13. RecordInv'
      BY <2>5, <2>9, <2>11 DEF TypeInv, RecordInv
    <2>14. QED
      BY <2>12, <2>13 DEF TypeInv
  <1>8. ASSUME NEW k \in Key, DeleteKey(n, k) PROVE TypeInv'
    <2>1. PICK w : w = [worker[n] EXCEPT !.left = @ \ {k}]
      OBVIOUS
    <2>2. worker[n] \in BusyWorker /\ worker[n].pc = "deleting"
      BY <1>1, <1>8 DEF DeleteKey
    <2>3. /\ w \in BusyWorker /\ w.pc = "deleting" /\ w.task = worker[n].task /\ w.data = worker[n].data
          /\ w.left \subseteq worker[n].left
      BY <2>1, <2>2 DEF BusyWorker
    <2>4. /\ worker' \in [Node -> IdleWorker \cup BusyWorker] /\ worker'[n] = w
          /\ \A x \in Node \ {n} : worker'[x] = worker[x]
      BY <1>1, <1>8, <2>1, <2>3 DEF DeleteKey
    <2>5. /\ UNCHANGED <<factor, ring, active, imports, sets, created, second, changes, writing, hist, acked>>
          /\ store' = [store EXCEPT ![n][k] = Absent]
          /\ mishaps' = IF store[n][k] \in {Absent, worker[n].data[k]} THEN mishaps
                        ELSE mishaps \cup {Mishap(store[n][k], "unsent")}
      BY <1>8 DEF DeleteKey
    <2>6. worker' \in [Node -> WorkerType]
      BY <2>4 DEF WorkerType, IdleWorker, BusyWorker
    <2>7. \A x \in Node : worker'[x].pc # "idle" =>
              /\ worker'[x].left \subseteq worker'[x].task.keys
              /\ AllGood(hist, worker'[x].data)
              /\ worker'[x].pc # "deleting" => \A q \in worker'[x].left : worker'[x].data[q] # Absent
      BY <1>2, <2>2, <2>3, <2>4
    <2>8. store' \in [Node -> Data] /\ \A x \in Node : AllGood(hist, store'[x])
      <3>1. Good(hist, k, Absent)
        BY Shapes DEF Good, Absent
      <3>2. store' \in [Node -> Data]
        BY <2>5, Shapes DEF Data
      <3>3. \A x \in Node, q \in Key : store'[x][q] = IF x = n /\ q = k THEN Absent ELSE store[x][q]
        BY <2>5, Shapes
      <3>4. QED
        BY <3>1, <3>2, <3>3 DEF AllGood, TypeInv, RecordInv
    <2>9. store[n][k] # Absent => store[n][k].id \in 1 .. Len(hist)
      <3>1. Good(hist, k, store[n][k])
        BY DEF TypeInv, RecordInv, AllGood
      <3>2. QED
        BY <3>1, Shapes DEF Good
    <2>10. /\ \A x \in mishaps' : x.id \in 1 .. Len(hist)
           /\ mishaps' \subseteq [id : 1 .. MaxWrites, cause : {"unsent", "outranked", "overwritten"}]
      <3>1. Len(hist) <= MaxWrites /\ Len(hist) \in Nat /\ MaxWrites \in Nat
        BY Shapes, MigrationAssumption DEF TypeInv, TypeOK
      <3>2. QED
        BY <2>5, <2>9, <3>1 DEF Mishap, TypeInv, TypeOK, RecordInv
    <2>11. TypeOK'
      BY <2>5, <2>6, <2>7, <2>8, <2>10 DEF TypeInv, TypeOK
    <2>12. RecordInv'
      BY <2>5, <2>7, <2>8, <2>10 DEF TypeInv, RecordInv
    <2>13. QED
      BY <2>11, <2>12 DEF TypeInv
  <1>9. QED
    BY <1>3, <1>4, <1>5, <1>6, <1>7, <1>8 DEF WorkerStep

\* A record that is set in a store, with the mishap that comes with it.
LEMMA OverwriteTypes ==
    ASSUME TypeInv, NEW n \in Node, NEW k \in Key, NEW rec \in Record, Good(hist, k, rec),
           Overwrite(n, k, rec)
    PROVE  /\ store' \in [Node -> Data] /\ \A x \in Node : AllGood(hist, store'[x])
           /\ \A x \in mishaps' : x.id \in 1 .. Len(hist)
           /\ mishaps' \subseteq [id : 1 .. MaxWrites, cause : {"unsent", "outranked", "overwritten"}]
  <1>1. /\ store' = [store EXCEPT ![n][k] = rec]
        /\ mishaps' = IF rec.id >= store[n][k].id THEN mishaps
                      ELSE mishaps \cup {Mishap(store[n][k], "overwritten")}
    BY DEF Overwrite
  <1>2. store' \in [Node -> Data]
    BY <1>1, Shapes DEF Data
  <1>3. \A x \in Node, q \in Key : store'[x][q] = IF x = n /\ q = k THEN rec ELSE store[x][q]
    BY <1>1, Shapes
  <1>4. \A x \in Node : AllGood(hist, store'[x])
    BY <1>3 DEF AllGood, TypeInv, RecordInv
  <1>5. rec.id \in Nat /\ store[n][k].id \in 0 .. Len(hist) /\ Len(hist) \in Nat
    <2>1. Good(hist, k, store[n][k])
      BY DEF TypeInv, RecordInv, AllGood
    <2>2. QED
      BY <2>1, Shapes DEF Good
  <1>6. rec.id >= store[n][k].id \/ store[n][k].id \in 1 .. Len(hist)
    BY <1>5
  <1>7. 1 .. Len(hist) \subseteq 1 .. MaxWrites
    <2>1. Len(hist) <= MaxWrites /\ Len(hist) \in Nat /\ MaxWrites \in Nat
      BY Shapes, MigrationAssumption DEF TypeInv, TypeOK
    <2>2. \A x \in 1 .. Len(hist) : x \in 1 .. MaxWrites
      BY <2>1
    <2>3. QED
      BY <2>2
  <1>8. /\ \A x \in mishaps : x.id \in 1 .. Len(hist)
        /\ mishaps \subseteq [id : 1 .. MaxWrites, cause : {"unsent", "outranked", "overwritten"}]
    BY DEF TypeInv, TypeOK, RecordInv
  <1>9. /\ \A x \in mishaps' : x.id \in 1 .. Len(hist)
        /\ mishaps' \subseteq [id : 1 .. MaxWrites, cause : {"unsent", "outranked", "overwritten"}]
    <2>1. CASE rec.id >= store[n][k].id
      BY <1>1, <1>8, <2>1
    <2>2. CASE ~(rec.id >= store[n][k].id)
      <3>1. store[n][k].id \in 1 .. Len(hist) /\ store[n][k].id \in 1 .. MaxWrites
        BY <1>6, <1>7, <2>2
      <3>2. mishaps' = mishaps \cup {Mishap(store[n][k], "overwritten")}
        BY <1>1, <2>2
      <3>3. QED
        BY <1>8, <3>1, <3>2 DEF Mishap
    <2>3. QED
      BY <2>1, <2>2
  <1>10. QED
    BY <1>2, <1>4, <1>9

\* What the handler of a request does to it.
LEMMA ImportMoves ==
    ASSUME NEW i \in Import, NEW T \in SUBSET Key, NEW C \in SUBSET Key, NEW O \in SUBSET Key,
           NEW b \in BOOLEAN
    PROVE  /\ [i EXCEPT !.todo = T] \in Import
           /\ [i EXCEPT !.checked = C] \in Import
           /\ [i EXCEPT !.checked = C, !.todo = T, !.owned = O] \in Import
           /\ [i EXCEPT !.fanned = b] \in Import
  BY DEF Import

\* A request, what it moves to.
SameRequest(i, j) ==
    /\ j \in Import
    /\ j.from = i.from /\ j.to = i.to /\ j.no = i.no /\ j.keys = i.keys /\ j.data = i.data
    /\ j.owned \subseteq j.keys /\ j.checked \subseteq j.todo /\ j.todo \subseteq i.todo

\* The target of a migration.
LEMMA ImportTypes ==
    ASSUME TypeInv, NEW i \in imports,
           \/ ImportFanOut(i) \/ \E k \in Key : ImportCheck(i, k) \/ ImportSet(i, k)
    PROVE  /\ TypeInv'
           /\ \E j : SameRequest(i, j) /\ imports' = (imports \ {i}) \cup {j}
  <1> USE DEF requests, counters, writes
  <1>1. /\ i \in Import /\ imports \subseteq Import
        /\ AllGood(hist, i.data) /\ i.owned \subseteq i.keys /\ i.checked \subseteq i.todo
        /\ i.todo \subseteq i.keys /\ \A k \in i.keys : i.data[k] # Absent
    BY Shapes DEF TypeInv, RecordInv
  <1>2. i.to \in Node /\ i.data \in Data /\ i.todo \in SUBSET Key /\ i.owned \in SUBSET Key
        /\ i.keys \in SUBSET Key
    BY <1>1 DEF Import
  <1>3. ASSUME NEW j, SameRequest(i, j), imports' = (imports \ {i}) \cup {j},
               UNCHANGED <<factor, ring, active, worker, created, second, changes, writing, hist, acked>>,
               store' \in [Node -> Data], \A x \in Node : AllGood(hist, store'[x]),
               sets' \subseteq SetRequest, \A s \in sets' : Good(hist, s.key, s.rec),
               \A x \in mishaps' : x.id \in 1 .. Len(hist),
               mishaps' \subseteq [id : 1 .. MaxWrites, cause : {"unsent", "outranked", "overwritten"}]
        PROVE  TypeInv'
    <2>1. imports' \subseteq Import
      BY <1>1, <1>3 DEF SameRequest
    <2>2. TypeOK'
      BY <1>3, <2>1 DEF TypeInv, TypeOK, Import, SetRequest
    <2>3. AllGood(hist, j.data) /\ j.owned \subseteq j.keys /\ j.checked \subseteq j.todo
          /\ j.todo \subseteq j.keys /\ \A k \in j.keys : j.data[k] # Absent
      BY <1>1, <1>3 DEF SameRequest
    <2>4. RecordInv'
      BY <1>3, <2>3 DEF TypeInv, RecordInv
    <2>5. QED
      BY <2>2, <2>4 DEF TypeInv
  <1>4. /\ store \in [Node -> Data] /\ \A x \in Node : AllGood(hist, store[x])
        /\ sets \subseteq SetRequest /\ \A s \in sets : Good(hist, s.key, s.rec)
        /\ \A x \in mishaps : x.id \in 1 .. Len(hist)
        /\ mishaps \subseteq [id : 1 .. MaxWrites, cause : {"unsent", "outranked", "overwritten"}]
    BY Shapes DEF TypeInv, TypeOK, RecordInv
  <1>5. CASE ImportFanOut(i)
    <2>1. PICK j : j = [i EXCEPT !.fanned = TRUE]
      OBVIOUS
    <2>2. SameRequest(i, j)
      BY <1>1, <2>1, ImportMoves DEF SameRequest, Import
    <2>3. PICK sent \in SUBSET {[to |-> m, key |-> k, rec |-> i.data[k],
                            checked |-> FALSE] : m \in Node, k \in i.owned} : sets' = sets \cup sent
      BY <1>5 DEF ImportFanOut
    <2>4. \A s \in sent : s \in SetRequest /\ Good(hist, s.key, s.rec)
      <3>1. \A k \in i.owned : k \in Key /\ i.data[k] \in Record /\ Good(hist, k, i.data[k])
        BY <1>1, <1>2 DEF AllGood, Data
      <3>2. ASSUME NEW s \in sent PROVE s \in SetRequest /\ Good(hist, s.key, s.rec)
        <4>1. PICK m \in Node, k \in i.owned :
                 s = [to |-> m, key |-> k, rec |-> i.data[k], checked |-> FALSE]
          BY <2>3
        <4>2. s \in SetRequest
          BY <3>1, <4>1 DEF SetRequest
        <4>3. s.key = k /\ s.rec = i.data[k]
          BY <4>1
        <4>4. QED
          BY <3>1, <4>2, <4>3
      <3>3. QED
        BY <3>2
    <2>5. imports' = (imports \ {i}) \cup {j}
      BY <1>5, <2>1 DEF ImportFanOut
    <2>6. TypeInv'
      <3>1. sets' \subseteq SetRequest /\ \A s \in sets' : Good(hist, s.key, s.rec)
        BY <1>4, <2>3, <2>4
      <3>2. UNCHANGED <<factor, ring, store, active, worker, created, second, changes, writing, hist, acked, mishaps>>
        BY <1>5 DEF ImportFanOut
      <3>3. QED
        BY <1>3, <1>4, <2>2, <2>5, <3>1, <3>2
    <2>7. QED
      BY <2>2, <2>5, <2>6
  <1>6. ASSUME NEW k \in Key, ImportCheck(i, k)
        PROVE  /\ TypeInv'
               /\ \E j : SameRequest(i, j) /\ imports' = (imports \ {i}) \cup {j}
    <2>1. k \in i.todo /\ k \in i.keys /\ i.checked = {} /\ i.data[k] \in Record
      BY <1>1, <1>2, <1>6 DEF ImportCheck, Data
    <2>2. UNCHANGED <<factor, ring, store, active, worker, sets, created, second, changes, writing, hist, acked>>
      BY <1>6 DEF ImportCheck
    <2>3. CASE SortsBefore(i.data[k], store[i.to][k])
      <3>1. PICK j : j = [i EXCEPT !.todo = @ \ {k}]
        OBVIOUS
      <3>2. SameRequest(i, j)
        <4>1. j \in Import /\ j.todo = i.todo \ {k} /\ j.checked = i.checked /\ j.owned = i.owned
              /\ j.from = i.from /\ j.to = i.to /\ j.no = i.no /\ j.keys = i.keys /\ j.data = i.data
          BY <1>1, <1>2, <3>1, ImportMoves DEF Import
        <4>2. QED
          BY <1>1, <2>1, <4>1 DEF SameRequest
      <3>3. /\ imports' = (imports \ {i}) \cup {j}
            /\ mishaps' = IF i.data[k].id < store[i.to][k].id THEN mishaps
                            ELSE mishaps \cup {Mishap(i.data[k], "outranked")}
        BY <1>6, <2>3, <3>1 DEF ImportCheck
      <3>4. i.data[k].id \in 1 .. Len(hist) /\ Len(hist) \in Nat
        <4>1. Good(hist, k, i.data[k]) /\ i.data[k] # Absent
          BY <1>1, <2>1 DEF AllGood
        <4>2. QED
          BY <4>1, Shapes DEF Good
      <3>5. i.data[k].id \in 1 .. MaxWrites
        <4>1. Len(hist) <= MaxWrites /\ MaxWrites \in Nat
          BY MigrationAssumption DEF TypeInv, TypeOK
        <4>2. QED
          BY <3>4, <4>1
      <3>6. /\ \A x \in mishaps' : x.id \in 1 .. Len(hist)
            /\ mishaps' \subseteq [id : 1 .. MaxWrites, cause : {"unsent", "outranked", "overwritten"}]
        BY <1>4, <3>3, <3>4, <3>5 DEF Mishap
      <3>7. QED
        BY <1>3, <1>4, <2>2, <3>2, <3>3, <3>6
    <2>4. CASE ~SortsBefore(i.data[k], store[i.to][k])
      <3>1. PICK j : j = [i EXCEPT !.checked = {k}]
        OBVIOUS
      <3>2. SameRequest(i, j)
        <4>1. j \in Import /\ j.todo = i.todo /\ j.checked = {k} /\ j.owned = i.owned
              /\ j.from = i.from /\ j.to = i.to /\ j.no = i.no /\ j.keys = i.keys /\ j.data = i.data
          BY <1>1, <1>2, <3>1, ImportMoves DEF Import
        <4>2. QED
          BY <1>1, <2>1, <4>1 DEF SameRequest
      <3>3. imports' = (imports \ {i}) \cup {j} /\ UNCHANGED mishaps
        BY <1>6, <2>4, <3>1 DEF ImportCheck
      <3>4. QED
        BY <1>3, <1>4, <2>2, <3>2, <3>3
    <2>5. QED
      BY <2>3, <2>4
  <1>7. ASSUME NEW k \in Key, ImportSet(i, k)
        PROVE  /\ TypeInv'
               /\ \E j : SameRequest(i, j) /\ imports' = (imports \ {i}) \cup {j}
    <2>1. k \in i.keys /\ k \in i.todo /\ i.data[k] \in Record /\ Good(hist, k, i.data[k])
      BY <1>1, <1>2, <1>7 DEF ImportSet, Data, AllGood
    <2>2. Overwrite(i.to, k, i.data[k])
          /\ UNCHANGED <<factor, ring, active, worker, sets, created, second, changes, writing, hist, acked>>
      BY <1>7 DEF ImportSet
    <2>3. PICK O : O = IF GetNode(ring[i.to], k) = i.to THEN i.owned \cup {k} ELSE i.owned
      OBVIOUS
    <2>4. O \in SUBSET Key /\ O \subseteq i.keys
      BY <1>1, <1>2, <2>1, <2>3
    <2>5. PICK j : j = [i EXCEPT !.checked = {}, !.todo = @ \ {k}, !.owned = O]
      OBVIOUS
    <2>6. SameRequest(i, j)
      <3>1. j \in Import /\ j.todo = i.todo \ {k} /\ j.checked = {} /\ j.owned = O
            /\ j.from = i.from /\ j.to = i.to /\ j.no = i.no /\ j.keys = i.keys /\ j.data = i.data
        BY <1>1, <1>2, <2>4, <2>5, ImportMoves DEF Import
      <3>2. QED
        BY <1>1, <2>4, <3>1 DEF SameRequest
    <2>7. imports' = (imports \ {i}) \cup {j}
      <3>1. [i EXCEPT !.checked = {}, !.todo = @ \ {k},
                      !.owned = IF GetNode(ring[i.to], k) = i.to THEN @ \cup {k} ELSE @] = j
        BY <2>3, <2>5
      <3>2. QED
        BY <1>7, <3>1 DEF ImportSet
    <2>8. QED
      BY <1>2, <1>3, <1>4, <2>1, <2>2, <2>6, <2>7, OverwriteTypes
  <1>8. QED
    BY <1>5, <1>6, <1>7

\* The answer of the target, and the requests of the fan-out.
LEMMA AnswerTypes ==
    ASSUME TypeInv,
           \/ \E i \in imports : ImportAnswer(i)
           \/ \E s \in sets : ReplicaSetCheck(s) \/ ReplicaSet(s)
    PROVE  TypeInv'
  <1> USE DEF requests, counters, writes
  <1>1. ASSUME NEW i \in imports, ImportAnswer(i) PROVE TypeInv'
    <2>1. i.from \in Node /\ i \in Import
      BY Shapes DEF Import
    <2>2. /\ UNCHANGED <<factor, ring, store, active, sets, created, second, changes, writing, hist, acked, mishaps>>
          /\ imports' = imports \ {i}
      BY <1>1 DEF ImportAnswer
    <2>3. /\ worker' \in [Node -> WorkerType]
          /\ \A x \in Node : worker'[x].pc # "idle" =>
              /\ worker'[x].left \subseteq worker'[x].task.keys
              /\ AllGood(hist, worker'[x].data)
              /\ worker'[x].pc # "deleting" => \A k \in worker'[x].left : worker'[x].data[k] # Absent
      <3>1. /\ worker \in [Node -> WorkerType]
            /\ \A x \in Node : worker[x].pc # "idle" =>
                /\ worker[x].left \subseteq worker[x].task.keys
                /\ AllGood(hist, worker[x].data)
                /\ worker[x].pc # "deleting" => \A k \in worker[x].left : worker[x].data[k] # Absent
        BY DEF TypeInv, TypeOK, RecordInv
      <3>2. CASE UNCHANGED worker
        BY <3>1, <3>2
      <3>3. CASE /\ worker[i.from].pc = "waiting"
                 /\ worker' = [worker EXCEPT ![i.from].pc = "sending", ![i.from].left = @ \ i.keys]
        <4>1. PICK w : w = [worker[i.from] EXCEPT !.pc = "sending", !.left = @ \ i.keys]
          OBVIOUS
        <4>2. worker[i.from] \in BusyWorker
          BY <2>1, <3>3, Shapes
        <4>3. /\ w \in BusyWorker /\ w.pc = "sending" /\ w.task = worker[i.from].task
              /\ w.data = worker[i.from].data /\ w.left \subseteq worker[i.from].left
          BY <4>1, <4>2 DEF BusyWorker
        <4>4. w \in WorkerType
          BY <4>3 DEF WorkerType, BusyWorker
        <4>5. /\ worker' \in [Node -> WorkerType] /\ worker'[i.from] = w
              /\ \A x \in Node \ {i.from} : worker'[x] = worker[x]
          BY <2>1, <3>1, <3>3, <4>1, <4>4
        <4>6. QED
          BY <2>1, <3>1, <3>3, <4>3, <4>5
      <3>4. QED
        BY <1>1, <3>2, <3>3 DEF ImportAnswer
    <2>4. TypeOK'
      BY <2>2, <2>3 DEF TypeInv, TypeOK
    <2>5. RecordInv'
      BY <2>2, <2>3 DEF TypeInv, RecordInv
    <2>6. QED
      BY <2>4, <2>5 DEF TypeInv
  <1>2. ASSUME NEW s \in sets, ReplicaSetCheck(s) PROVE TypeInv'
    <2>1. s \in SetRequest /\ [s EXCEPT !.checked = TRUE] \in SetRequest
          /\ [s EXCEPT !.checked = TRUE].key = s.key /\ [s EXCEPT !.checked = TRUE].rec = s.rec
      BY Shapes DEF SetRequest
    <2>2. /\ UNCHANGED <<factor, ring, store, active, worker, imports, created, second, changes, writing, hist,
                         acked, mishaps>>
          /\ \A r \in sets' : r \in sets \/ r = [s EXCEPT !.checked = TRUE]
      BY <1>2 DEF ReplicaSetCheck
    <2>3. sets' \subseteq SetRequest /\ \A r \in sets' : Good(hist, r.key, r.rec)
      BY <2>1, <2>2, Shapes DEF TypeInv, RecordInv
    <2>4. TypeOK' /\ RecordInv'
      BY <2>2, <2>3 DEF TypeInv, TypeOK, RecordInv, SetRequest
    <2>5. QED
      BY <2>4 DEF TypeInv
  <1>3. ASSUME NEW s \in sets, ReplicaSet(s) PROVE TypeInv'
    <2>1. s.to \in Node /\ s.key \in Key /\ s.rec \in Record /\ Good(hist, s.key, s.rec)
      BY Shapes DEF SetRequest, TypeInv, RecordInv
    <2>2. /\ UNCHANGED <<factor, ring, active, worker, imports, created, second, changes, writing, hist, acked>>
          /\ sets' = sets \ {s} /\ Overwrite(s.to, s.key, s.rec)
      BY <1>3 DEF ReplicaSet
    <2>3. /\ store' \in [Node -> Data] /\ \A x \in Node : AllGood(hist, store'[x])
          /\ \A x \in mishaps' : x.id \in 1 .. Len(hist)
          /\ mishaps' \subseteq [id : 1 .. MaxWrites, cause : {"unsent", "outranked", "overwritten"}]
      BY <2>1, <2>2, OverwriteTypes
    <2>4. TypeOK'
      BY <2>2, <2>3 DEF TypeInv, TypeOK
    <2>5. RecordInv'
      BY <2>2, <2>3 DEF TypeInv, RecordInv
    <2>6. QED
      BY <2>4, <2>5 DEF TypeInv
  <1>4. QED
    BY <1>1, <1>2, <1>3

\* Client writes.
LEMMA WriteTypes ==
    ASSUME TypeInv,
           \/ \E k \in Key : WriteBegin(k)
           \/ \E n \in Node : WriteCommit(n)
           \/ WriteEnd \/ WriteFails
    PROVE  /\ TypeInv'
           /\ Len(hist) <= Len(hist') /\ Len(hist') \in Nat
           /\ \A j \in 1 .. Len(hist) : hist'[j] = hist[j]
  <1> USE DEF requests, counters, writes
  <1>1. Len(hist) \in Nat /\ Len(hist) <= MaxWrites /\ MaxWrites \in Nat /\ Leader \in Node
    BY Shapes, MigrationAssumption DEF TypeInv, TypeOK
  <1>2. ASSUME NEW k \in Key, WriteBegin(k)
        PROVE  /\ TypeInv' /\ Len(hist) <= Len(hist') /\ Len(hist') \in Nat
               /\ \A j \in 1 .. Len(hist) : hist'[j] = hist[j]
    <2>1. /\ UNCHANGED <<factor, ring, store, active, worker, imports, sets, created, second, changes, acked, mishaps>>
          /\ hist' = Append(hist, k) /\ Len(hist) < MaxWrites /\ writing = NoWrite
          /\ writing' = [id |-> Len(hist'), done |-> {}, key |-> k,
                         rec |-> [id |-> Len(hist'), ver |-> store[Leader][k].ver + 1]]
      BY <1>2 DEF WriteBegin
    <2>2. /\ hist' \in Seq(Key) /\ Len(hist') = Len(hist) + 1 /\ hist'[Len(hist) + 1] = k
          /\ \A j \in 1 .. Len(hist) : hist'[j] = hist[j]
      <3>1. hist \in Seq(Key)
        BY DEF TypeInv, TypeOK
      <3>2. QED
        BY <2>1, <3>1, AppendProperties
    <2>3. Len(hist') \in 1 .. MaxWrites /\ Len(hist') \in Nat /\ Len(hist) <= Len(hist')
          /\ Len(hist') <= MaxWrites
      BY <1>1, <2>1, <2>2
    <2>4. store[Leader][k].ver + 1 \in 1 .. Len(hist')
      <3>1. Good(hist, k, store[Leader][k])
        BY <1>1 DEF TypeInv, RecordInv, AllGood
      <3>2. QED
        BY <1>1, <2>2, <3>1 DEF Good
    <2>5. PICK r : r = [id |-> Len(hist'), ver |-> store[Leader][k].ver + 1]
      OBVIOUS
    <2>6. r \in Record /\ r.id = Len(hist') /\ Good(hist', k, r)
      <3>1. r.id = Len(hist') /\ r.ver = store[Leader][k].ver + 1
        BY <2>5
      <3>2. Len(hist') \in 0 .. MaxWrites /\ store[Leader][k].ver + 1 \in 0 .. MaxWrites
        BY <1>1, <2>3, <2>4
      <3>3. r \in Record
        BY <2>5, <3>2 DEF Record
      <3>4. QED
        BY <1>1, <2>2, <2>3, <2>4, <3>1, <3>3 DEF Good
    <2>7. writing' \in Write /\ writing'.id = Len(hist') /\ writing'.rec = r /\ writing'.key = k
      <3>1. writing' = [id |-> Len(hist'), done |-> {}, key |-> k, rec |-> r]
        BY <2>1, <2>5
      <3>2. QED
        BY <2>3, <2>6, <3>1 DEF Write
    <2>8. \A q \in Key : \A x : Good(hist, q, x) => Good(hist', q, x)
      BY <1>1, <2>2, <2>3, GoodGrows
    <2>9. acked' \subseteq 1 .. Len(hist') /\ \A x \in mishaps' : x.id \in 1 .. Len(hist')
      <3>1. \A x \in 1 .. Len(hist) : x \in 1 .. Len(hist')
        BY <1>1, <2>3
      <3>2. QED
        BY <2>1, <3>1 DEF TypeInv, TypeOK, RecordInv
    <2>10. TypeOK'
      BY <2>1, <2>2, <2>3, <2>7, <2>9 DEF TypeInv, TypeOK, Write
    <2>11. RecordInv'
      <3>1. \A d : AllGood(hist, d) => AllGood(hist', d)
        BY <2>8 DEF AllGood
      <3>2. \A s \in sets : s.key \in Key
        BY Shapes DEF SetRequest
      <3>3. QED
        BY <2>1, <2>6, <2>7, <2>8, <2>9, <3>1, <3>2 DEF TypeInv, RecordInv
    <2>12. QED
      BY <2>2, <2>3, <2>10, <2>11 DEF TypeInv
  <1>3. ASSUME NEW n \in Node, writing # NoWrite, store' = [store EXCEPT ![n][writing.key] = writing.rec]
        PROVE  store' \in [Node -> Data] /\ \A x \in Node : AllGood(hist, store'[x])
    <2>1. writing.key \in Key /\ writing.rec \in Record /\ Good(hist, writing.key, writing.rec)
      BY <1>3, Shapes DEF Write, TypeInv, RecordInv
    <2>2. store' \in [Node -> Data]
      BY <1>3, <2>1, Shapes DEF Data
    <2>3. \A x \in Node, q \in Key :
             store'[x][q] = IF x = n /\ q = writing.key THEN writing.rec ELSE store[x][q]
      BY <1>3, <2>1, Shapes
    <2>4. QED
      BY <2>1, <2>2, <2>3 DEF AllGood, TypeInv, RecordInv
  <1>4. ASSUME NEW n \in Node, WriteCommit(n) PROVE TypeInv' /\ hist' = hist
    <2>1. /\ UNCHANGED <<factor, ring, active, worker, imports, sets, created, second, changes, hist, acked, mishaps>>
          /\ writing # NoWrite /\ store' = [store EXCEPT ![n][writing.key] = writing.rec]
          /\ writing' = [writing EXCEPT !.done = @ \cup {n}]
      BY <1>4 DEF WriteCommit
    <2>2. /\ writing' \in Write /\ writing'.id = writing.id /\ writing'.rec = writing.rec
          /\ writing'.key = writing.key
      BY <2>1, Shapes DEF Write
    <2>3. store' \in [Node -> Data] /\ \A x \in Node : AllGood(hist, store'[x])
      BY <1>3, <2>1
    <2>4. TypeOK'
      BY <2>1, <2>2, <2>3 DEF TypeInv, TypeOK, Write
    <2>5. RecordInv'
      BY <2>1, <2>2, <2>3 DEF TypeInv, RecordInv
    <2>6. QED
      BY <2>1, <2>4, <2>5 DEF TypeInv
  <1>5. CASE WriteEnd
    <2>1. /\ UNCHANGED <<factor, ring, active, worker, imports, sets, created, second, changes, hist, mishaps>>
          /\ writing # NoWrite /\ store' = [store EXCEPT ![Leader][writing.key] = writing.rec]
          /\ writing' = NoWrite /\ acked' = acked \cup {writing.id}
      BY <1>5 DEF WriteEnd
    <2>2. store' \in [Node -> Data] /\ \A x \in Node : AllGood(hist, store'[x])
      BY <1>1, <1>3, <2>1
    <2>3. acked' \subseteq 1 .. Len(hist)
      <3>1. writing.id \in 1 .. Len(hist)
        <4>1. writing.id = Len(hist) /\ writing.id \in 1 .. MaxWrites
          BY <2>1, Shapes DEF Write, TypeInv, RecordInv
        <4>2. QED
          BY <1>1, <4>1
      <3>2. QED
        BY <2>1, <3>1 DEF TypeInv, TypeOK
    <2>4. TypeOK'
      BY <2>1, <2>2, <2>3 DEF TypeInv, TypeOK
    <2>5. RecordInv'
      BY <2>1, <2>2 DEF TypeInv, RecordInv
    <2>6. QED
      BY <1>1, <2>1, <2>4, <2>5 DEF TypeInv
  <1>6. CASE WriteFails
    <2>1. /\ UNCHANGED <<factor, ring, store, active, worker, imports, sets, created, second, changes, hist, acked, mishaps>>
          /\ writing' = NoWrite
      BY <1>6 DEF WriteFails
    <2>2. TypeOK' /\ RecordInv'
      BY <2>1 DEF TypeInv, TypeOK, RecordInv
    <2>3. QED
      BY <1>1, <2>1, <2>2 DEF TypeInv
  <1>7. QED
    BY <1>1, <1>2, <1>4, <1>5, <1>6

\* A cluster that starts.
LEMMA InitTypes == Init => TypeInv
  <1> SUFFICES ASSUME Init PROVE TypeInv
    OBVIOUS
  <1>1. /\ Absent \in Record /\ Absent.id = 0 /\ Absent.ver = 0 /\ NoTask \in IdleWorker /\ NoTask.pc = "idle"
        /\ 0 \in 0 .. MaxTasks /\ 0 \in 0 .. MaxSecond /\ 0 \in 0 .. MaxRingChanges /\ 0 <= MaxWrites
    BY MigrationAssumption DEF Absent, Record, NoTask, IdleWorker
  <1>2. hist = <<>> /\ Len(hist) = 0 /\ hist \in Seq(Key)
    BY EmptySeq DEF Init
  <1>3. NoTask \in WorkerType
    BY <1>1 DEF WorkerType, IdleWorker
  <1>4. TypeOK
    <2>1. ring \in [Node -> SUBSET Node] /\ \A n \in Node : n \in ring[n]
      BY MigrationAssumption DEF Init
    <2>2. QED
      BY <1>1, <1>2, <1>3, <2>1 DEF Init, TypeOK, Data
  <1>5. RecordInv
    <2>1. \A k : Good(hist, k, Absent)
      BY <1>1, <1>2 DEF Good
    <2>2. QED
      BY <1>1, <2>1 DEF Init, RecordInv, AllGood
  <1>6. QED
    BY <1>4, <1>5 DEF TypeInv

\* Every step keeps the types.
LEMMA StepTypes == TypeInv /\ [Next]_vars => TypeInv'
  <1> SUFFICES ASSUME TypeInv, [Next]_vars PROVE TypeInv'
    OBVIOUS
  <1>1. CASE UNCHANGED vars
    BY <1>1 DEF vars, requests, counters, writes, TypeInv, TypeOK, RecordInv
  <1>2. CASE Next
    BY <1>2, RingTypes, WorkerTypes, ImportTypes, AnswerTypes, WriteTypes DEF Next, ImportStep
  <1>3. QED
    BY <1>1, <1>2

\* TypeOK of the runs, for every cluster: the shapes, the uniqueness of task ids, and
\* that a thread only ever sends and deletes keys of its task, whatever tasks,
\* cancellations, lost answers and changes of the rings come together.
THEOREM MigrationTypes == Spec => []TypeOK
  <1>1. TypeInv => TypeOK
    BY DEF TypeInv
  <1>2. QED
    BY <1>1, InitTypes, StepTypes, PTL DEF Spec

-----------------------------------------------------------------------------
(* Moving a key. *)

Marked(k, x) == \E y \in mishaps : y.id >= x /\ hist[y.id] = k

\* A record of k that is as new as x is at a node the walk meets before n, or one that
\* is as new had a mishap.
Safe(n, k, x) == \/ \E m \in Node : Before(k, m, n) /\ store[m][k].id >= x
                 \/ Marked(k, x)

\* The task of n sends every key to a node met before n.
Forward(n, t) == \A k \in t.keys : Before(k, t.to, n)

\* The tasks that n has yet to start.
Coming(n) == worker[n].todo \cup {t \in active[n] : t.state = "PENDING"}

\* The keys of the task that the target has answered for.
Done(n) == IF worker[n].pc = "deleting" THEN worker[n].task.keys
           ELSE worker[n].task.keys \ worker[n].left

\* LostOnlyByMishap, for one write.
Outcome(w) == Kept(w) \/ Marked(hist[w], w)

\* A number belongs to one task, and is not used again once the task has begun.
TaskOK(n) ==
    /\ \A t, u \in active[n] : t.no = u.no => t = u
    /\ \A t, u \in worker[n].todo : t.no = u.no => t = u
    /\ \A t \in active[n] \cup worker[n].todo : t.no <= created /\ Forward(n, t)
    /\ worker[n].pc # "idle" =>
          /\ worker[n].task.no <= created /\ Forward(n, worker[n].task)
          /\ \A t \in Coming(n) : t.no # worker[n].task.no
    /\ \A i \in imports : i.from = n =>
          i.no <= created /\ \A t \in Coming(n) : t.no # i.no

\* A request carries what the task captured.
RequestOK(i) ==
    /\ i.fanned => i.todo = {}
    /\ \A k \in i.keys : Before(k, i.to, i.from)
    /\ worker[i.from].pc # "idle" /\ worker[i.from].task.no = i.no =>
          i.data = worker[i.from].data

\* What has been sent and what has been handled need not be kept any more.
SentSafe(n) ==
    worker[n].pc # "idle" =>
        \A k \in Done(n) : worker[n].data[k] # Absent => Safe(n, k, worker[n].data[k].id)
HandledSafe(i) == \A k \in i.keys \ i.todo : Safe(i.from, k, i.data[k].id)

MoveInv ==
    /\ TypeInv
    /\ \A n \in Node : TaskOK(n) /\ SentSafe(n)
    /\ \A i \in imports : RequestOK(i) /\ HandledSafe(i)
    /\ \A w \in acked : Outcome(w)

\* Records have numbers of the history.
LEMMA Numbers ==
    ASSUME TypeInv
    PROVE  /\ \A n \in Node, k \in Key : store[n][k].id \in Nat
           /\ \A n \in Node, k \in Key : worker[n].pc # "idle" => worker[n].data[k].id \in Nat
           /\ \A i \in imports, k \in Key : i.data[k].id \in Nat
           /\ \A y \in mishaps : y.id \in 1 .. Len(hist)
           /\ Len(hist) \in Nat /\ acked \subseteq 1 .. Len(hist)
           /\ \A w \in acked : hist[w] \in Key
  <1>1. \A r \in Record : r.id \in Nat
    BY MigrationAssumption DEF Record
  <1>2. \A n \in Node, k \in Key : store[n][k] \in Record
    BY Shapes
  <1>3. \A n \in Node, k \in Key : worker[n].pc # "idle" => worker[n].data[k] \in Record
    BY Shapes DEF BusyWorker, Data
  <1>4. \A i \in imports, k \in Key : i.data[k] \in Record
    BY Shapes DEF Import, Data
  <1>5. hist \in Seq(Key) /\ acked \subseteq 1 .. Len(hist) /\ \A y \in mishaps : y.id \in 1 .. Len(hist)
    BY DEF TypeInv, TypeOK, RecordInv
  <1>6. \A w \in acked : hist[w] \in Key
    BY <1>5, ElementOfSeq
  <1>7. QED
    BY <1>1, <1>2, <1>3, <1>4, <1>5, <1>6, Shapes

\* A mishap stays known.
LEMMA MarkedKeeps ==
    ASSUME TypeInv, \A j \in 1 .. Len(hist) : hist'[j] = hist[j], mishaps \subseteq mishaps',
           NEW k, NEW x, Marked(k, x)
    PROVE  Marked(k, x)'
  <1>1. PICK y \in mishaps : y.id >= x /\ hist[y.id] = k
    BY DEF Marked
  <1>2. y \in mishaps' /\ hist'[y.id] = k
    BY <1>1, Numbers
  <1>3. QED
    BY <1>1, <1>2 DEF Marked

\* One record changes: to a newer one, with a mishap, or after it was sent.
LEMMA SafeKeeps ==
    ASSUME TypeInv, TypeInv', \A j \in 1 .. Len(hist) : hist'[j] = hist[j], mishaps \subseteq mishaps',
           NEW h \in Node, NEW q \in Key, NEW v \in Nat, v = store[h][q].id,
           \A m \in Node, k \in Key : m # h \/ k # q => store'[m][k] = store[m][k],
           store'[h][q].id >= v \/ Marked(q, v)' \/ Safe(h, q, v)
    PROVE  /\ \A n \in Node, k \in Key, x \in Nat : Safe(n, k, x) => Safe(n, k, x)'
           /\ \A w \in acked : Outcome(w) => Outcome(w)'
  <1>1. /\ \A m \in Node, k \in Key : store[m][k].id \in Nat /\ store'[m][k].id \in Nat
        /\ \A y \in mishaps' : y.id \in Int
    <2>1. \A r \in Record : r.id \in Nat
      BY MigrationAssumption DEF Record
    <2>2. \A m \in Node, k \in Key : store[m][k] \in Record /\ store'[m][k] \in Record
      BY DEF TypeInv, TypeOK, Data
    <2>3. \A y \in mishaps' : y.id \in Int
      BY MigrationAssumption DEF TypeInv, TypeOK
    <2>4. QED
      BY <2>1, <2>2, <2>3
  <1>2. ASSUME NEW x \in Nat, v >= x
        PROVE  \/ store'[h][q].id >= x
               \/ \E m \in Node : Before(q, m, h) /\ store'[m][q].id >= x
               \/ Marked(q, x)'
    <2>1. CASE store'[h][q].id >= v
      BY <1>1, <1>2, <2>1
    <2>2. ASSUME Marked(q, v)' PROVE Marked(q, x)'
      BY <1>1, <1>2, <2>2 DEF Marked
    <2>3. CASE Safe(h, q, v)
      <3>1. CASE Marked(q, v)
        BY <2>2, <3>1, MarkedKeeps
      <3>2. ASSUME NEW m \in Node, Before(q, m, h), store[m][q].id >= v
            PROVE  store'[m][q].id >= x
        <4>1. m # h
          BY <3>2, WalkOrder
        <4>2. QED
          BY <1>1, <1>2, <3>2, <4>1
      <3>3. QED
        BY <2>3, <3>1, <3>2 DEF Safe
    <2>4. QED
      BY <2>1, <2>2, <2>3
  <1>3. ASSUME NEW n \in Node, NEW k \in Key, NEW x \in Nat, Safe(n, k, x) PROVE Safe(n, k, x)'
    <2>1. CASE Marked(k, x)
      BY <2>1, MarkedKeeps DEF Safe
    <2>2. ASSUME NEW m \in Node, Before(k, m, n), store[m][k].id >= x PROVE Safe(n, k, x)'
      <3>1. CASE m # h \/ k # q
        BY <2>2, <3>1 DEF Safe
      <3>2. CASE m = h /\ k = q
        <4>1. \/ store'[h][q].id >= x
              \/ \E l \in Node : Before(q, l, h) /\ store'[l][q].id >= x
              \/ Marked(q, x)'
          BY <1>2, <2>2, <3>2
        <4>2. \A l \in Node : Before(q, l, h) => Before(k, l, n)
          BY <2>2, <3>2, WalkOrder
        <4>3. QED
          BY <2>2, <3>2, <4>1, <4>2 DEF Safe
      <3>3. QED
        BY <3>1, <3>2
    <2>3. QED
      BY <1>3, <2>1, <2>2 DEF Safe
  <1>4. ASSUME NEW w \in acked, Outcome(w) PROVE Outcome(w)'
    <2>1. w \in Nat /\ hist'[w] = hist[w] /\ hist[w] \in Key
      BY Numbers
    <2>2. PICK k \in Key : k = hist[w]
      BY <2>1
    <2>3. Marked(k, w)' => Outcome(w)'
      BY <2>1, <2>2 DEF Outcome, Marked
    <2>4. \A m \in Node : store'[m][k].id >= w => Outcome(w)'
      BY <2>1, <2>2 DEF Outcome, Kept
    <2>5. CASE Marked(k, w)
      BY <2>3, <2>5, MarkedKeeps
    <2>6. ASSUME NEW m \in Node, store[m][k].id >= w PROVE Outcome(w)'
      <3>1. CASE m # h \/ k # q
        BY <2>4, <2>6, <3>1
      <3>2. CASE m = h /\ k = q
        BY <1>2, <2>1, <2>3, <2>4, <2>6, <3>2
      <3>3. QED
        BY <3>1, <3>2
    <2>7. QED
      BY <1>4, <2>2, <2>5, <2>6 DEF Outcome, Kept
  <1>5. QED
    BY <1>3, <1>4

\* Steps that change no record.
LEMMA SafeStays ==
    ASSUME TypeInv, \A j \in 1 .. Len(hist) : hist'[j] = hist[j], mishaps \subseteq mishaps', store' = store
    PROVE  /\ \A n \in Node, k \in Key, x \in Nat : Safe(n, k, x) => Safe(n, k, x)'
           /\ \A w \in acked : Outcome(w) => Outcome(w)'
  <1>1. ASSUME NEW n \in Node, NEW k \in Key, NEW x \in Nat, Safe(n, k, x) PROVE Safe(n, k, x)'
    BY <1>1, MarkedKeeps DEF Safe
  <1>2. ASSUME NEW w \in acked, Outcome(w) PROVE Outcome(w)'
    <2>1. w \in 1 .. Len(hist) /\ hist'[w] = hist[w] /\ hist[w] \in Key
      BY Numbers
    <2>2. PICK k \in Key : k = hist[w]
      BY <2>1
    <2>3. Marked(k, w) => Marked(k, w)'
      BY MarkedKeeps
    <2>4. QED
      BY <1>2, <2>1, <2>2, <2>3 DEF Outcome, Kept, Marked
  <1>3. QED
    BY <1>1, <1>2

\* Nodes and requests that a step leaves alone.
LEMMA OtherTasks ==
    ASSUME TypeInv, NEW n \in Node, TaskOK(n), worker'[n] = worker[n], active'[n] = active[n],
           created \in Nat, created' \in Nat, created <= created',
           \A i \in imports' : i.from = n => \E j \in imports : j.from = n /\ j.no = i.no
    PROVE  TaskOK(n)'
  <1>1. /\ \A t \in active[n] \cup worker[n].todo : t.no \in Int
        /\ worker[n].pc # "idle" => worker[n].task.no \in Int
        /\ \A i \in imports : i.no \in Int
    BY Shapes DEF TypeInv, TypeOK, Task, IdleWorker, BusyWorker, Import
  <1>2. \A x \in Int : x <= created => x <= created'
    OBVIOUS
  <1>3. Coming(n)' = Coming(n)
    BY DEF Coming
  <1>4. QED
    BY <1>1, <1>2, <1>3 DEF TaskOK, Forward

\* What was sent and handled, as long as the thread and the request stay.
LEMMA OtherSafe ==
    ASSUME TypeInv, \A n \in Node, k \in Key, x \in Nat : Safe(n, k, x) => Safe(n, k, x)'
    PROVE  /\ \A n \in Node : SentSafe(n) /\ worker'[n] = worker[n] => SentSafe(n)'
           /\ \A i \in imports : HandledSafe(i) => HandledSafe(i)'
           /\ \A i \in imports : RequestOK(i) /\ worker'[i.from] = worker[i.from] => RequestOK(i)'
  <1>1. ASSUME NEW n \in Node, SentSafe(n), worker'[n] = worker[n] PROVE SentSafe(n)'
    <2>1. ASSUME worker[n].pc # "idle", NEW k \in Done(n), worker[n].data[k] # Absent
          PROVE  Safe(n, k, worker[n].data[k].id) /\ k \in Key /\ worker[n].data[k].id \in Nat
      <3>1. k \in Key
        BY <2>1, Shapes DEF Done, BusyWorker, Task
      <3>2. QED
        BY <1>1, <2>1, <3>1, Numbers DEF SentSafe
    <2>2. ASSUME worker'[n].pc # "idle", NEW k \in Done(n)', worker'[n].data[k] # Absent
          PROVE  Safe(n, k, worker[n].data[k].id)'
      <3>1. worker[n].pc # "idle" /\ k \in Done(n) /\ worker[n].data[k] # Absent
        BY <1>1, <2>2 DEF Done
      <3>2. PICK x \in Nat : x = worker[n].data[k].id
        BY <2>1, <3>1
      <3>3. Safe(n, k, x)'
        BY <2>1, <3>1, <3>2
      <3>4. QED
        BY <1>1, <3>2, <3>3 DEF Safe, Marked
    <2>3. QED
      BY <2>2 DEF SentSafe
  <1>2. ASSUME NEW i \in imports, HandledSafe(i) PROVE HandledSafe(i)'
    <2>1. i \in Import /\ \A k \in Key : i.data[k].id \in Nat
      BY Shapes, Numbers
    <2>2. i.from \in Node /\ i.keys \subseteq Key
      BY <2>1 DEF Import
    <2>3. QED
      BY <1>2, <2>1, <2>2 DEF HandledSafe
  <1>3. QED
    BY <1>1, <1>2 DEF RequestOK

\* Steps that change no record, no request and no answer.
LEMMA QuietMove ==
    ASSUME MoveInv, TypeInv', UNCHANGED <<store, imports, hist, acked, mishaps>>,
           \A n \in Node : TaskOK(n)',
           \A n \in Node : worker'[n] = worker[n] \/ SentSafe(n)',
           \A i \in imports : worker'[i.from] = worker[i.from] \/ RequestOK(i)'
    PROVE  MoveInv'
  <1>1. /\ \A n \in Node, k \in Key, x \in Nat : Safe(n, k, x) => Safe(n, k, x)'
        /\ \A w \in acked : Outcome(w) => Outcome(w)'
    BY SafeStays DEF MoveInv
  <1>2. /\ \A n \in Node : SentSafe(n) /\ worker'[n] = worker[n] => SentSafe(n)'
        /\ \A i \in imports : HandledSafe(i) => HandledSafe(i)'
        /\ \A i \in imports : RequestOK(i) /\ worker'[i.from] = worker[i.from] => RequestOK(i)'
    BY <1>1, OtherSafe DEF MoveInv
  <1>3. \A n \in Node : SentSafe(n)'
    BY <1>2 DEF MoveInv
  <1>4. \A i \in imports' : RequestOK(i)' /\ HandledSafe(i)'
    BY <1>2 DEF MoveInv
  <1>5. \A w \in acked' : Outcome(w)'
    BY <1>1 DEF MoveInv
  <1>6. QED
    BY <1>3, <1>4, <1>5 DEF MoveInv

\* The tasks of n change: those to begin have new numbers.
LEMMA TasksMove ==
    ASSUME MoveInv, TypeInv', UNCHANGED <<store, worker, imports, hist, acked, mishaps>>,
           NEW n \in Node, \A m \in Node \ {n} : active'[m] = active[m],
           created \in Nat, created' \in Nat, created <= created',
           \A t, u \in active'[n] : t.no = u.no => t = u,
           \A t \in active'[n] : t.no <= created' /\ Forward(n, t),
           \A t \in active'[n] : t.state = "PENDING" => t \in active[n] \/ t.no > created
    PROVE  MoveInv'
  <1>1. \A m \in Node \ {n} : TaskOK(m)'
    BY OtherTasks DEF MoveInv
  <1>2. TaskOK(n)'
    <2>1. /\ \A t \in active'[n] \cup worker[n].todo : t.no \in Int
          /\ worker[n].pc # "idle" => worker[n].task.no \in Int
          /\ \A i \in imports : i.no \in Int
      <3>1. active' \in [Node -> SUBSET Task] /\ TypeInv
        BY DEF TypeInv, TypeOK, MoveInv
      <3>2. QED
        BY <3>1, Shapes DEF Task, IdleWorker, BusyWorker, Import
    <2>2. TaskOK(n)
      BY DEF MoveInv
    <2>3. \A t \in Coming(n)' : t \in Coming(n) \/ (t \in active'[n] /\ t.no > created)
      BY DEF Coming
    <2>4. /\ worker'[n].pc # "idle" =>
               /\ worker'[n].task.no <= created' /\ Forward(n, worker'[n].task)
               /\ \A t \in Coming(n)' : t.no # worker'[n].task.no
          /\ \A i \in imports' : i.from = n =>
                i.no <= created' /\ \A t \in Coming(n)' : t.no # i.no
      BY <2>1, <2>2, <2>3 DEF TaskOK
    <2>5. \A t \in worker[n].todo : t.no <= created' /\ Forward(n, t)
      BY <2>1, <2>2 DEF TaskOK
    <2>6. QED
      BY <2>2, <2>4, <2>5 DEF TaskOK, Forward
  <1>3. QED
    BY <1>1, <1>2, QuietMove

\* New tasks send forward.
LEMMA AddMove ==
    ASSUME MoveInv, TypeInv', UNCHANGED <<store, worker, imports, hist, acked, mishaps>>,
           NEW n \in Node, NEW kind \in {"migrate", "rebalance"},
           NEW f \in [Node -> SUBSET Key], AddTasks(n, kind, f),
           \A m \in Node : \A k \in f[m] : Before(k, m, n)
    PROVE  MoveInv'
  <1>1. /\ created' \in 0 .. MaxTasks /\ created <= created'
        /\ \A m \in Node \ {n} : active'[m] = active[m]
        /\ \A t \in active'[n] \ active[n] : /\ t.no \in created + 1 .. created'
                                             /\ t.to \in Node /\ t.keys = f[t.to]
        /\ \A t, u \in active'[n] \ active[n] : t.no = u.no => t = u
    BY AddTypes DEF MoveInv
  <1>2. created \in Nat /\ created' \in Nat /\ MaxTasks \in Nat
    BY <1>1, MigrationAssumption DEF MoveInv, TypeInv, TypeOK
  <1>3. \A t \in active[n] : t.no <= created /\ t.no \in Int /\ Forward(n, t)
    BY DEF MoveInv, TaskOK, TypeInv, TypeOK, Task
  <1>4. \A t \in active'[n] \ active[n] : t.no > created /\ t.no <= created' /\ t.no \in Int /\ Forward(n, t)
    BY <1>1, <1>2 DEF Forward
  <1>5. \A t, u \in active'[n] : t.no = u.no => t = u
    <2>1. ASSUME NEW t \in active'[n], NEW u \in active'[n], t.no = u.no PROVE t = u
      <3>1. (t \in active[n] /\ u \in active[n]) \/ (t \notin active[n] /\ u \notin active[n])
        BY <1>2, <1>3, <1>4, <2>1
      <3>2. QED
        BY <1>1, <2>1, <3>1 DEF MoveInv, TaskOK
    <2>2. QED
      BY <2>1
  <1>6. \A t \in active'[n] : t.no <= created' /\ Forward(n, t)
    BY <1>1, <1>2, <1>3, <1>4
  <1>7. QED
    BY <1>1, <1>2, <1>4, <1>5, <1>6, TasksMove

\* Changes of the ring, REBALANCE and cancel_migration.
LEMMA RingMove ==
    ASSUME MoveInv, TypeInv', NEW n \in Node,
           \/ \E m \in Node : AddToRing(n, m) \/ RemoveFromRing(n, m)
           \/ Rebalance(n)
           \/ \E t \in active[n] : CancelMigration(n, t)
    PROVE  MoveInv'
  <1> USE DEF requests, counters, writes
  <1>1. /\ ring \in [Node -> SUBSET Node] /\ n \in ring[n] /\ active \in [Node -> SUBSET Task]
        /\ factor \in Factors /\ created \in Nat /\ created <= created /\ MoveInv
    <2>1. created \in 0 .. MaxTasks /\ MaxTasks \in Nat
      BY MigrationAssumption DEF MoveInv, TypeInv, TypeOK
    <2>2. created \in Nat /\ created <= created
      BY <2>1
    <2>3. QED
      BY <2>2 DEF MoveInv, TypeInv, TypeOK
  <1>2. ASSUME NEW m \in Node, AddToRing(n, m) PROVE MoveInv'
    <2> DEFINE f == [x \in Node |-> {k \in LocalKeys(n) : x = m /\ GetNode(ring'[n], k) = m}]
    <2>1. AddTasks(n, "migrate", f) /\ f \in [Node -> SUBSET Key]
      BY <1>2 DEF AddToRing, LocalKeys
    <2>2. ring'[n] = ring[n] \cup {m} /\ m \notin ring[n]
      BY <1>1, <1>2 DEF AddToRing, WithNode
    <2>3. ASSUME NEW x \in Node, NEW k \in f[x] PROVE Before(k, x, n)
      <3>1. k \in Key /\ x = m /\ GetNode(ring'[n], k) = m
        BY <2>3 DEF LocalKeys
      <3>2. ring'[n] \subseteq Node /\ n \in ring'[n] /\ n # m
        BY <1>1, <2>2
      <3>3. QED
        BY <3>1, <3>2, FirstNode
    <2>4. UNCHANGED <<store, worker, imports, hist, acked, mishaps>>
      BY <1>2 DEF AddToRing
    <2> HIDE DEF f
    <2>5. QED
      BY <1>1, <2>1, <2>3, <2>4, AddMove
  <1>3. ASSUME NEW m \in Node, RemoveFromRing(n, m) PROVE MoveInv'
    <2>1. UNCHANGED <<store, worker, active, created, imports, hist, acked, mishaps>>
      BY <1>3 DEF RemoveFromRing
    <2>2. \A x \in Node : TaskOK(x)'
      BY <1>1, <2>1, OtherTasks DEF MoveInv
    <2>3. QED
      BY <1>1, <2>1, <2>2, QuietMove
  <1>4. CASE Rebalance(n)
    <2> DEFINE gone == {k \in LocalKeys(n) : n \notin GetNodes(ring[n], k)}
               f == [m \in Node |-> {k \in gone : GetNode(ring[n], k) = m}]
    <2>1. AddTasks(n, "rebalance", f) /\ f \in [Node -> SUBSET Key]
      BY <1>4 DEF Rebalance, LocalKeys
    <2>2. ASSUME NEW x \in Node, NEW k \in f[x] PROVE Before(k, x, n)
      <3>1. k \in Key /\ n \notin GetNodes(ring[n], k) /\ GetNode(ring[n], k) = x
        BY <2>2 DEF LocalKeys
      <3>2. ring[n] \subseteq Node
        BY <1>1
      <3>3. QED
        BY <1>1, <3>1, <3>2, LaterNode
    <2>3. UNCHANGED <<store, worker, imports, hist, acked, mishaps>>
      BY <1>4 DEF Rebalance
    <2> HIDE DEF f
    <2>4. QED
      BY <1>1, <2>1, <2>2, <2>3, AddMove
  <1>5. ASSUME NEW t \in active[n], CancelMigration(n, t) PROVE MoveInv'
    <2>1. t \in Task
      BY <1>1
    <2>2. PICK c : c = [t EXCEPT !.state = "CANCELLED"]
      OBVIOUS
    <2>3. c \in Task /\ c.no = t.no /\ c.keys = t.keys /\ c.to = t.to /\ c.state # "PENDING"
      BY <2>1, <2>2 DEF Task
    <2>4. /\ active' = [active EXCEPT ![n] = (@ \ {t}) \cup {c}]
          /\ UNCHANGED <<store, worker, created, imports, hist, acked, mishaps>>
      BY <1>5, <2>2 DEF CancelMigration
    <2>5. active'[n] = (active[n] \ {t}) \cup {c} /\ \A m \in Node \ {n} : active'[m] = active[m]
      BY <1>1, <2>4
    <2>6. TaskOK(n)
      BY DEF MoveInv
    <2>7. \A u, v \in active'[n] : u.no = v.no => u = v
      BY <2>3, <2>5, <2>6 DEF TaskOK
    <2>8. \A u \in active'[n] : u.no <= created' /\ Forward(n, u)
      BY <2>3, <2>4, <2>5, <2>6 DEF TaskOK, Forward
    <2>9. QED
      BY <1>1, <2>3, <2>4, <2>5, <2>7, <2>8, TasksMove
  <1>6. QED
    BY <1>2, <1>3, <1>4, <1>5

\* A step of one thread that changes no record and no request.
LEMMA ThreadMove ==
    ASSUME MoveInv, TypeInv', UNCHANGED <<store, imports, hist, acked, mishaps, created>>,
           NEW n \in Node, TaskOK(n)', SentSafe(n)',
           \A m \in Node \ {n} : worker'[m] = worker[m] /\ active'[m] = active[m],
           worker'[n].pc = "idle" \/ \A i \in imports : i.from = n => RequestOK(i)'
    PROVE  MoveInv'
  <1>1. created \in Nat /\ created <= created'
    <2>1. created \in 0 .. MaxTasks /\ MaxTasks \in Nat
      BY MigrationAssumption DEF MoveInv, TypeInv, TypeOK
    <2>2. QED
      BY <2>1
  <1>2. \A m \in Node \ {n} : TaskOK(m)'
    BY <1>1, OtherTasks DEF MoveInv
  <1>3. \A i \in imports : worker'[i.from] = worker[i.from] \/ RequestOK(i)'
    <2>1. \A i \in imports : i.from \in Node
      BY Shapes DEF MoveInv, Import
    <2>2. ASSUME worker'[n].pc = "idle", NEW i \in imports, i.from = n PROVE RequestOK(i)'
      BY <2>2 DEF MoveInv, RequestOK
    <2>3. QED
      BY <2>1, <2>2
  <1>4. QED
    BY <1>2, <1>3, QuietMove

\* The thread lists, begins and ends tasks, and decides what to delete.
LEMMA TaskMove ==
    ASSUME MoveInv, TypeInv', NEW n \in Node,
           \/ ListPending(n) \/ StartTask(n) \/ SendFails(n) \/ DecideDelete(n) \/ FinishTask(n)
    PROVE  MoveInv'
  <1> USE DEF requests, counters, writes
  <1>1. /\ TypeInv /\ TaskOK(n) /\ SentSafe(n) /\ MoveInv /\ \A i \in imports : RequestOK(i)
        /\ active \in [Node -> SUBSET Task] /\ worker \in [Node -> IdleWorker \cup BusyWorker]
        /\ worker[n].pc = "idle" => worker[n] \in IdleWorker
        /\ worker[n].pc # "idle" => worker[n] \in BusyWorker
    BY Shapes DEF MoveInv, TypeInv, TypeOK
  <1>2. CASE ListPending(n)
    <2>1. PICK pending : pending = {t \in active[n] : t.state = "PENDING"}
      OBVIOUS
    <2>2. /\ worker[n] = NoTask /\ worker' = [worker EXCEPT ![n].todo = pending]
          /\ UNCHANGED <<store, active, imports, hist, acked, mishaps, created>>
      BY <1>2, <2>1 DEF ListPending
    <2>3. /\ worker'[n].pc = "idle" /\ worker'[n].todo = pending
          /\ \A m \in Node \ {n} : worker'[m] = worker[m] /\ active'[m] = active[m]
      BY <1>1, <2>2 DEF NoTask
    <2>4. Coming(n)' = pending /\ pending \subseteq Coming(n)
      BY <2>1, <2>2, <2>3 DEF Coming
    <2>5. TaskOK(n)'
      BY <1>1, <2>1, <2>2, <2>3, <2>4 DEF TaskOK, Forward
    <2>6. SentSafe(n)'
      BY <2>3 DEF SentSafe
    <2>7. QED
      BY <1>1, <2>2, <2>3, <2>5, <2>6, ThreadMove
  <1>3. CASE StartTask(n)
    <2>1. PICK t \in worker[n].todo :
            /\ worker' = [worker EXCEPT ![n] =
                 [pc |-> "sending", todo |-> @.todo \ {t}, task |-> t,
                  data |-> store[n], left |-> t.keys \cap LocalKeys(n), batch |-> {}]]
            /\ active' = [active EXCEPT ![n] =
                 {IF u.no = t.no THEN [u EXCEPT !.state = "IN_PROGRESS"] ELSE u : u \in @}]
      BY <1>3 DEF StartTask
    <2>2. UNCHANGED <<store, imports, hist, acked, mishaps, created>>
      BY <1>3 DEF StartTask
    <2>3. /\ worker'[n].pc = "sending" /\ worker'[n].todo = worker[n].todo \ {t}
          /\ worker'[n].task = t /\ worker'[n].data = store[n]
          /\ worker'[n].left = t.keys \cap LocalKeys(n)
          /\ active'[n] = {IF u.no = t.no THEN [u EXCEPT !.state = "IN_PROGRESS"] ELSE u : u \in active[n]}
          /\ \A m \in Node \ {n} : worker'[m] = worker[m] /\ active'[m] = active[m]
      BY <1>1, <2>1
    <2>4. ASSUME NEW v \in active'[n]
          PROVE  \E u \in active[n] : /\ v.no = u.no /\ v.to = u.to /\ v.keys = u.keys
                                      /\ v = IF u.no = t.no THEN [u EXCEPT !.state = "IN_PROGRESS"] ELSE u
                                      /\ v.state = "PENDING" => v = u /\ u.no # t.no
      <3>1. PICK u \in active[n] : v = IF u.no = t.no THEN [u EXCEPT !.state = "IN_PROGRESS"] ELSE u
        BY <2>3
      <3>2. u \in Task
        BY <1>1
      <3>3. /\ [u EXCEPT !.state = "IN_PROGRESS"].no = u.no /\ [u EXCEPT !.state = "IN_PROGRESS"].to = u.to
            /\ [u EXCEPT !.state = "IN_PROGRESS"].keys = u.keys
            /\ [u EXCEPT !.state = "IN_PROGRESS"].state = "IN_PROGRESS"
        BY <3>2 DEF Task
      <3>4. QED
        BY <3>1, <3>3
    <2>5. Coming(n)' \subseteq Coming(n) /\ \A u \in Coming(n)' : u.no # t.no
      BY <1>1, <2>1, <2>3, <2>4 DEF Coming, TaskOK
    <2>6. t \in Coming(n)
      BY DEF Coming
    <2>7. TaskOK(n)'
      <3>1. \A u, v \in active'[n] : u.no = v.no => u = v
        BY <1>1, <2>4 DEF TaskOK
      <3>2. \A u, v \in worker'[n].todo : u.no = v.no => u = v
        BY <1>1, <2>3 DEF TaskOK
      <3>3. \A u \in active'[n] \cup worker'[n].todo : u.no <= created' /\ Forward(n, u)
        BY <1>1, <2>2, <2>3, <2>4 DEF TaskOK, Forward
      <3>4. t.no <= created' /\ Forward(n, t)
        BY <1>1, <2>2 DEF TaskOK
      <3>5. \A i \in imports' : i.from = n => i.no <= created' /\ \A u \in Coming(n)' : u.no # i.no
        BY <1>1, <2>2, <2>5 DEF TaskOK
      <3>6. QED
        BY <2>3, <2>5, <3>1, <3>2, <3>3, <3>4, <3>5 DEF TaskOK, Forward
    <2>8. SentSafe(n)'
      <3>1. ASSUME NEW k \in Done(n)' PROVE worker'[n].data[k] = Absent
        <4>1. k \in t.keys /\ k \notin LocalKeys(n)
          BY <2>3, <3>1 DEF Done
        <4>2. k \in Key
          BY <1>1, <2>1, <4>1 DEF IdleWorker, BusyWorker, Task
        <4>3. QED
          BY <2>3, <4>1, <4>2 DEF LocalKeys
      <3>2. QED
        BY <3>1 DEF SentSafe
    <2>9. ASSUME NEW i \in imports, i.from = n PROVE RequestOK(i)'
      <3>1. i.no # t.no
        BY <1>1, <2>6, <2>9 DEF TaskOK
      <3>2. QED
        BY <1>1, <2>3, <2>9, <3>1 DEF RequestOK
    <2>10. QED
      BY <1>1, <2>2, <2>3, <2>7, <2>8, <2>9, ThreadMove
  <1>4. ASSUME EndTask(n), UNCHANGED <<store, imports, hist, acked, mishaps, created>> PROVE MoveInv'
    <2>1. /\ worker'[n].pc = "idle" /\ worker'[n].todo = worker[n].todo
          /\ active'[n] \subseteq active[n]
          /\ \A m \in Node \ {n} : worker'[m] = worker[m] /\ active'[m] = active[m]
      BY <1>1, <1>4 DEF EndTask, NoTask
    <2>2. Coming(n)' \subseteq Coming(n)
      BY <2>1 DEF Coming
    <2>3. TaskOK(n)'
      BY <1>1, <1>4, <2>1, <2>2 DEF TaskOK, Forward
    <2>4. SentSafe(n)'
      BY <2>1 DEF SentSafe
    <2>5. QED
      BY <1>1, <1>4, <2>1, <2>3, <2>4, ThreadMove
  <1>5. CASE DecideDelete(n)
    <2>1. /\ worker[n].pc = "sending" /\ worker[n].left = {}
          /\ worker' = [worker EXCEPT ![n].pc = "deleting", ![n].left =
                          {k \in worker[n].task.keys : n \notin GetNodes(ring[n], k)}]
          /\ UNCHANGED <<store, active, imports, hist, acked, mishaps, created>>
      BY <1>5 DEF DecideDelete
    <2>2. worker[n] \in BusyWorker
      BY <1>1, <2>1
    <2>3. /\ worker'[n].pc = "deleting" /\ worker'[n].todo = worker[n].todo
          /\ worker'[n].task = worker[n].task /\ worker'[n].data = worker[n].data
          /\ \A m \in Node \ {n} : worker'[m] = worker[m] /\ active'[m] = active[m]
      BY <1>1, <2>1, <2>2 DEF BusyWorker
    <2>4. Coming(n)' = Coming(n)
      BY <2>1, <2>3 DEF Coming
    <2>5. TaskOK(n)'
      BY <1>1, <2>1, <2>3, <2>4 DEF TaskOK, Forward
    <2>6. Done(n)' = Done(n)
      BY <2>1, <2>3 DEF Done
    <2>7. SentSafe(n)'
      BY <1>1, <2>1, <2>3, <2>6 DEF SentSafe, Safe, Marked
    <2>8. \A i \in imports : i.from = n => RequestOK(i)'
      BY <1>1, <2>1, <2>3 DEF RequestOK
    <2>9. UNCHANGED <<store, imports, hist, acked, mishaps, created>>
      BY <2>1
    <2>10. QED
      BY <1>1, <2>3, <2>5, <2>7, <2>8, <2>9, ThreadMove
  <1>6. QED
    BY <1>2, <1>3, <1>4, <1>5 DEF SendFails, FinishTask

\* What a step does to one request, and to nothing else that the requests depend on.
LEMMA SendMove ==
    ASSUME MoveInv, TypeInv', NEW n \in Node, SendBatch(n)
    PROVE  MoveInv'
  <1> USE DEF requests, counters, writes
  <1>1. /\ TypeInv /\ TaskOK(n) /\ SentSafe(n)
        /\ \A i \in imports : RequestOK(i) /\ HandledSafe(i) /\ i.from \in Node
        /\ worker \in [Node -> IdleWorker \cup BusyWorker]
        /\ worker[n].pc = "sending" /\ worker[n] \in BusyWorker
        /\ worker[n].left \subseteq worker[n].task.keys
    BY Shapes DEF MoveInv, TypeInv, TypeOK, SendBatch, Import
  <1>2. PICK batch \in SUBSET worker[n].left :
          /\ worker' = [worker EXCEPT ![n].pc = "waiting", ![n].batch = batch]
          /\ imports' = imports \cup
               {[from |-> n, to |-> worker[n].task.to, no |-> worker[n].task.no,
                 keys |-> batch, todo |-> batch, data |-> worker[n].data,
                 checked |-> {}, owned |-> {}, fanned |-> FALSE]}
    BY DEF SendBatch
  <1>3. UNCHANGED <<store, active, hist, acked, mishaps, created>>
    BY DEF SendBatch
  <1>4. /\ worker'[n].pc = "waiting" /\ worker'[n].todo = worker[n].todo
        /\ worker'[n].task = worker[n].task /\ worker'[n].data = worker[n].data
        /\ worker'[n].left = worker[n].left
        /\ \A m \in Node \ {n} : worker'[m] = worker[m] /\ active'[m] = active[m]
    BY <1>1, <1>2, <1>3 DEF BusyWorker
  <1>5. PICK j : j = [from |-> n, to |-> worker[n].task.to, no |-> worker[n].task.no,
                      keys |-> batch, todo |-> batch, data |-> worker[n].data,
                      checked |-> {}, owned |-> {}, fanned |-> FALSE]
    OBVIOUS
  <1>6. /\ imports' = imports \cup {j} /\ j.from = n /\ j.to = worker[n].task.to
        /\ j.no = worker[n].task.no /\ j.keys = batch /\ j.todo = batch /\ j.data = worker[n].data
        /\ j.fanned = FALSE
    BY <1>2, <1>5
  <1>7. /\ \A m \in Node, k \in Key, x \in Nat : Safe(m, k, x) => Safe(m, k, x)'
        /\ \A w \in acked : Outcome(w) => Outcome(w)'
    BY <1>1, <1>3, SafeStays
  <1>8. /\ \A m \in Node : SentSafe(m) /\ worker'[m] = worker[m] => SentSafe(m)'
        /\ \A i \in imports : HandledSafe(i) => HandledSafe(i)'
        /\ \A i \in imports : RequestOK(i) /\ worker'[i.from] = worker[i.from] => RequestOK(i)'
    BY <1>1, <1>7, OtherSafe
  <1>9. Coming(n)' = Coming(n)
    BY <1>3, <1>4 DEF Coming
  <1>10. TaskOK(n)'
    <2>1. \A i \in imports' : i.from = n => i.no <= created' /\ \A u \in Coming(n)' : u.no # i.no
      BY <1>1, <1>3, <1>6, <1>9 DEF TaskOK
    <2>2. QED
      BY <1>1, <1>3, <1>4, <1>9, <2>1 DEF TaskOK, Forward
  <1>11. \A m \in Node \ {n} : TaskOK(m)'
    <2>1. created \in Nat /\ created <= created'
      <3>1. created \in 0 .. MaxTasks /\ MaxTasks \in Nat
        BY MigrationAssumption DEF MoveInv, TypeInv, TypeOK
      <3>2. QED
        BY <1>3, <3>1
    <2>2. \A m \in Node \ {n} : \A i \in imports' : i.from = m => i \in imports
      BY <1>6
    <2>3. QED
      BY <1>3, <1>4, <2>1, <2>2, OtherTasks DEF MoveInv
  <1>12. SentSafe(n)'
    <2>1. Done(n)' = Done(n)
      BY <1>1, <1>4 DEF Done
    <2>2. QED
      BY <1>1, <1>3, <1>4, <2>1 DEF SentSafe, Safe, Marked
  <1>13. \A i \in imports : RequestOK(i)'
    BY <1>1, <1>4, <1>8 DEF RequestOK
  <1>14. RequestOK(j)' /\ HandledSafe(j)'
    <2>1. Forward(n, worker[n].task)
      BY <1>1 DEF TaskOK
    <2>2. \A k \in j.keys : Before(k, j.to, j.from)
      BY <1>1, <1>6, <2>1 DEF Forward
    <2>3. RequestOK(j)'
      BY <1>4, <1>6, <2>2 DEF RequestOK
    <2>4. HandledSafe(j)'
      BY <1>6 DEF HandledSafe
    <2>5. QED
      BY <2>3, <2>4
  <1>15. \A m \in Node : TaskOK(m)' /\ SentSafe(m)'
    BY <1>4, <1>8, <1>10, <1>11, <1>12 DEF MoveInv
  <1>16. \A i \in imports' : RequestOK(i)' /\ HandledSafe(i)'
    BY <1>1, <1>6, <1>8, <1>13, <1>14
  <1>17. \A w \in acked' : Outcome(w)'
    BY <1>3, <1>7 DEF MoveInv
  <1>18. QED
    BY <1>15, <1>16, <1>17 DEF MoveInv

\* Steps that change records, and keep every request, thread and task.
LEMMA StoreMove ==
    ASSUME MoveInv, TypeInv', UNCHANGED <<active, worker, created>>, imports' \subseteq imports,
           \A n \in Node, k \in Key, x \in Nat : Safe(n, k, x) => Safe(n, k, x)',
           \A w \in acked : Outcome(w) => Outcome(w)',
           \A w \in acked' \ acked : Outcome(w)'
    PROVE  MoveInv'
  <1>1. /\ \A m \in Node : SentSafe(m) /\ worker'[m] = worker[m] => SentSafe(m)'
        /\ \A i \in imports : HandledSafe(i) => HandledSafe(i)'
        /\ \A i \in imports : RequestOK(i) /\ worker'[i.from] = worker[i.from] => RequestOK(i)'
    BY OtherSafe DEF MoveInv
  <1>2. \A m \in Node : TaskOK(m)'
    <2>1. created \in Nat /\ created <= created'
      <3>1. created \in 0 .. MaxTasks /\ MaxTasks \in Nat
        BY MigrationAssumption DEF MoveInv, TypeInv, TypeOK
      <3>2. QED
        BY <3>1
    <2>2. QED
      BY <2>1, OtherTasks DEF MoveInv
  <1>3. QED
    BY <1>1, <1>2 DEF MoveInv

\* _delete_migrated_keys.
LEMMA DeleteMove ==
    ASSUME MoveInv, TypeInv', NEW n \in Node, NEW k \in Key, DeleteKey(n, k)
    PROVE  MoveInv'
  <1> USE DEF requests, counters, writes
  <1>1. /\ TypeInv /\ TaskOK(n) /\ SentSafe(n)
        /\ \A i \in imports : RequestOK(i) /\ HandledSafe(i) /\ i.from \in Node
        /\ worker \in [Node -> IdleWorker \cup BusyWorker]
        /\ worker[n].pc = "deleting" /\ worker[n] \in BusyWorker
        /\ worker[n].left \subseteq worker[n].task.keys /\ k \in worker[n].left
        /\ store \in [Node -> [Key -> Record]]
    BY Shapes DEF MoveInv, TypeInv, TypeOK, DeleteKey, Import
  <1>2. /\ worker' = [worker EXCEPT ![n].left = @ \ {k}]
        /\ store' = [store EXCEPT ![n][k] = Absent]
        /\ mishaps' = IF store[n][k] \in {Absent, worker[n].data[k]} THEN mishaps
                      ELSE mishaps \cup {Mishap(store[n][k], "unsent")}
        /\ UNCHANGED <<active, imports, hist, acked, created>>
    BY DEF DeleteKey
  <1>3. /\ worker'[n].pc = "deleting" /\ worker'[n].todo = worker[n].todo
        /\ worker'[n].task = worker[n].task /\ worker'[n].data = worker[n].data
        /\ \A m \in Node \ {n} : worker'[m] = worker[m] /\ active'[m] = active[m]
    BY <1>1, <1>2 DEF BusyWorker
  <1>4. /\ \A m \in Node, q \in Key : m # n \/ q # k => store'[m][q] = store[m][q]
        /\ store'[n][k] = Absent
    BY <1>1, <1>2
  <1>5. PICK v \in Nat : v = store[n][k].id
    BY <1>1, Numbers
  <1>6. mishaps \subseteq mishaps' /\ \A j \in 1 .. Len(hist) : hist'[j] = hist[j]
    BY <1>2
  <1>7. Good(hist, k, store[n][k])
    BY <1>1 DEF TypeInv, RecordInv, AllGood
  <1>8. store'[n][k].id >= v \/ Marked(k, v)' \/ Safe(n, k, v)
    <2>1. CASE store[n][k] = Absent
      BY <1>4, <1>5, <2>1 DEF Absent
    <2>2. CASE store[n][k] # Absent /\ store[n][k] = worker[n].data[k]
      <3>1. k \in Done(n)
        BY <1>1 DEF Done
      <3>2. QED
        BY <1>1, <1>5, <2>2, <3>1 DEF SentSafe
    <2>3. CASE store[n][k] # Absent /\ store[n][k] # worker[n].data[k]
      <3>1. PICK y : y = Mishap(store[n][k], "unsent")
        OBVIOUS
      <3>2. y \in mishaps' /\ y.id = v
        BY <1>2, <1>5, <2>3, <3>1 DEF Mishap
      <3>3. hist'[y.id] = k
        BY <1>2, <1>5, <1>7, <2>3, <3>2 DEF Good
      <3>4. y.id >= v
        BY <1>5, <3>2
      <3>5. QED
        BY <3>2, <3>3, <3>4 DEF Marked
    <2>4. QED
      BY <2>1, <2>2, <2>3
  <1>9. /\ \A m \in Node, q \in Key, x \in Nat : Safe(m, q, x) => Safe(m, q, x)'
        /\ \A w \in acked : Outcome(w) => Outcome(w)'
    BY <1>1, <1>4, <1>5, <1>6, <1>8, SafeKeeps
  <1>10. /\ \A m \in Node : SentSafe(m) /\ worker'[m] = worker[m] => SentSafe(m)'
         /\ \A i \in imports : HandledSafe(i) => HandledSafe(i)'
         /\ \A i \in imports : RequestOK(i) /\ worker'[i.from] = worker[i.from] => RequestOK(i)'
    BY <1>1, <1>9, OtherSafe
  <1>11. \A i \in imports : RequestOK(i)'
    BY <1>1, <1>3, <1>10 DEF RequestOK
  <1>12. TaskOK(n)'
    <2>1. Coming(n)' = Coming(n)
      BY <1>2, <1>3 DEF Coming
    <2>2. QED
      BY <1>1, <1>2, <1>3, <2>1 DEF TaskOK, Forward
  <1>13. \A m \in Node \ {n} : TaskOK(m)'
    <2>1. created \in Nat /\ created <= created'
      <3>1. created \in 0 .. MaxTasks /\ MaxTasks \in Nat
        BY MigrationAssumption DEF MoveInv, TypeInv, TypeOK
      <3>2. QED
        BY <1>2, <3>1
    <2>2. QED
      BY <1>2, <1>3, <2>1, OtherTasks DEF MoveInv
  <1>14. SentSafe(n)'
    <2>1. Done(n)' = Done(n) /\ Done(n) \subseteq Key
      BY <1>1, <1>3 DEF Done, BusyWorker, Task
    <2>2. ASSUME NEW q \in Done(n)', worker'[n].data[q] # Absent
          PROVE  Safe(n, q, worker[n].data[q].id)'
      <3>1. PICK x \in Nat : x = worker[n].data[q].id
        BY <1>1, <2>1, <2>2, Numbers
      <3>2. Safe(n, q, x)'
        BY <1>1, <1>3, <1>9, <2>1, <2>2, <3>1 DEF SentSafe
      <3>3. worker'[n].data[q].id = x
        BY <1>3, <3>1
      <3>4. QED
        BY <3>2, <3>3 DEF Safe, Marked
    <2>3. QED
      BY <2>2 DEF SentSafe
  <1>15. QED
    BY <1>1, <1>2, <1>3, <1>9, <1>10, <1>11, <1>12, <1>13, <1>14 DEF MoveInv

\* A record that is set is as new as the one it replaces, or replaces it with a mishap.
LEMMA OverwriteSafe ==
    ASSUME TypeInv, TypeInv', NEW n \in Node, NEW k \in Key, NEW rec \in Record, Overwrite(n, k, rec),
           hist' = hist
    PROVE  /\ store'[n][k] = rec
           /\ \A m \in Node, q \in Key, x \in Nat : Safe(m, q, x) => Safe(m, q, x)'
           /\ \A w \in acked : Outcome(w) => Outcome(w)'
  <1>1. /\ store' = [store EXCEPT ![n][k] = rec]
        /\ mishaps' = IF rec.id >= store[n][k].id THEN mishaps
                      ELSE mishaps \cup {Mishap(store[n][k], "overwritten")}
    BY DEF Overwrite
  <1>2. /\ \A m \in Node, q \in Key : m # n \/ q # k => store'[m][q] = store[m][q]
        /\ store'[n][k] = rec
    BY <1>1, Shapes
  <1>3. PICK v \in Nat : v = store[n][k].id
    BY Numbers
  <1>4. mishaps \subseteq mishaps' /\ \A j \in 1 .. Len(hist) : hist'[j] = hist[j]
    BY <1>1
  <1>5. store'[n][k].id >= v \/ Marked(k, v)'
    <2>1. CASE rec.id >= v
      BY <1>2, <2>1
    <2>2. CASE ~(rec.id >= v)
      <3>1. PICK y : y = Mishap(store[n][k], "overwritten")
        OBVIOUS
      <3>2. y \in mishaps' /\ y.id = v
        BY <1>1, <1>3, <2>2, <3>1 DEF Mishap
      <3>3. Good(hist, k, store[n][k]) /\ rec.id \in Nat
        BY MigrationAssumption DEF TypeInv, RecordInv, AllGood, Record
      <3>4. v # 0 /\ v >= v
        BY <1>3, <2>2, <3>3
      <3>5. hist'[y.id] = k
        BY <1>3, <3>2, <3>3, <3>4 DEF Good
      <3>6. QED
        BY <3>2, <3>4, <3>5 DEF Marked
    <2>3. QED
      BY <2>1, <2>2
  <1>6. QED
    BY <1>2, <1>3, <1>4, <1>5, SafeKeeps

\* A request is handled one step further: keys that are done with are safe.
LEMMA HandleMove ==
    ASSUME MoveInv, TypeInv', NEW i \in imports, NEW j, SameRequest(i, j),
           imports' = (imports \ {i}) \cup {j}, UNCHANGED <<active, worker, created, acked, hist>>,
           \A n \in Node, k \in Key, x \in Nat : Safe(n, k, x) => Safe(n, k, x)',
           \A w \in acked : Outcome(w) => Outcome(w)',
           j.fanned => j.todo = {},
           \A k \in i.todo \ j.todo : Safe(i.from, k, i.data[k].id)'
    PROVE  MoveInv'
  <1>1. /\ \A m \in Node : SentSafe(m) /\ worker'[m] = worker[m] => SentSafe(m)'
        /\ \A r \in imports : HandledSafe(r) => HandledSafe(r)'
        /\ \A r \in imports : RequestOK(r) /\ worker'[r.from] = worker[r.from] => RequestOK(r)'
    BY OtherSafe DEF MoveInv
  <1>2. \A m \in Node : TaskOK(m)'
    <2>1. created \in Nat /\ created <= created'
      <3>1. created \in 0 .. MaxTasks /\ MaxTasks \in Nat
        BY MigrationAssumption DEF MoveInv, TypeInv, TypeOK
      <3>2. QED
        BY <3>1
    <2>2. \A r \in imports' : \E s \in imports : s.from = r.from /\ s.no = r.no
      BY DEF SameRequest
    <2>3. QED
      BY <2>1, <2>2, OtherTasks DEF MoveInv
  <1>3. RequestOK(i)' /\ HandledSafe(i)'
    BY <1>1 DEF MoveInv
  <1>4. RequestOK(j)'
    BY <1>3 DEF RequestOK, SameRequest
  <1>5. HandledSafe(j)'
    <2>1. j.from = i.from /\ j.keys = i.keys /\ j.data = i.data
      BY DEF SameRequest
    <2>2. ASSUME NEW k \in j.keys \ j.todo PROVE Safe(j.from, k, j.data[k].id)'
      <3>1. Safe(i.from, k, i.data[k].id)'
        BY <1>3, <2>1, <2>2 DEF HandledSafe
      <3>2. QED
        BY <2>1, <3>1
    <2>3. QED
      BY <2>2 DEF HandledSafe
  <1>6. QED
    BY <1>1, <1>2, <1>4, <1>5 DEF MoveInv

\* The fan-out of a request.
LEMMA FanOutMove ==
    ASSUME MoveInv, TypeInv', NEW i \in imports, ImportFanOut(i)
    PROVE  MoveInv'
  <1> USE DEF requests, counters, writes
  <1>1. /\ TypeInv /\ RequestOK(i) /\ HandledSafe(i) /\ i \in Import
        /\ AllGood(hist, i.data) /\ i.owned \subseteq i.keys /\ i.checked \subseteq i.todo
        /\ i.todo \subseteq i.keys /\ \A k \in i.keys : i.data[k] # Absent
    BY Shapes DEF MoveInv, TypeInv, RecordInv
  <1>2. i.to \in Node /\ i.from \in Node /\ i.data \in Data /\ i.keys \subseteq Key
        /\ \A k \in Key : i.data[k] \in Record /\ i.data[k].id \in Nat
    BY <1>1, Numbers DEF Import, Data
  <1>3. PICK j : j = [i EXCEPT !.fanned = TRUE]
    OBVIOUS
  <1>4. SameRequest(i, j) /\ j.todo = i.todo
    <2>1. i \in Import
      BY <1>1
    <2>2. j \in Import
      BY <1>3, <2>1 DEF Import
    <2>3. /\ j.todo = i.todo /\ j.checked = i.checked /\ j.owned = i.owned /\ j.from = i.from
          /\ j.to = i.to /\ j.no = i.no /\ j.keys = i.keys /\ j.data = i.data
      BY <1>3, <2>1 DEF Import
    <2>4. QED
      BY <1>1, <2>2, <2>3 DEF SameRequest
  <1>5. /\ imports' = (imports \ {i}) \cup {j} /\ i.todo = {}
        /\ UNCHANGED <<store, active, worker, created, acked, hist, mishaps>>
    BY <1>3 DEF ImportFanOut
  <1>6. /\ \A n \in Node, k \in Key, x \in Nat : Safe(n, k, x) => Safe(n, k, x)'
        /\ \A w \in acked : Outcome(w) => Outcome(w)'
    BY <1>1, <1>5, SafeStays
  <1>7. QED
    BY <1>4, <1>5, <1>6, HandleMove

\* A key that the target skips is safe: the target holds a newer record, or it is a mishap.
LEMMA CheckMove ==
    ASSUME MoveInv, TypeInv', NEW i \in imports, NEW k \in Key, ImportCheck(i, k)
    PROVE  MoveInv'
  <1> USE DEF requests, counters, writes
  <1>1. /\ TypeInv /\ RequestOK(i) /\ HandledSafe(i) /\ i \in Import
        /\ AllGood(hist, i.data) /\ i.owned \subseteq i.keys /\ i.checked \subseteq i.todo
        /\ i.todo \subseteq i.keys /\ \A q \in i.keys : i.data[q] # Absent
    BY Shapes DEF MoveInv, TypeInv, RecordInv
  <1>2. i.to \in Node /\ i.from \in Node /\ i.data \in Data /\ i.keys \subseteq Key
        /\ \A q \in Key : i.data[q] \in Record /\ i.data[q].id \in Nat
    BY <1>1, Numbers DEF Import, Data
  <1>3. /\ k \in i.todo /\ k \in i.keys /\ i.checked = {} /\ ~ i.fanned
        /\ UNCHANGED <<store, active, worker, created, acked, hist>>
    BY <1>1 DEF ImportCheck, RequestOK
  <1>4. CASE SortsBefore(i.data[k], store[i.to][k])
    <2>1. PICK j : j = [i EXCEPT !.todo = @ \ {k}]
      OBVIOUS
    <2>2. SameRequest(i, j) /\ j.todo = i.todo \ {k} /\ j.fanned = i.fanned
      <3>1. i \in Import /\ i.todo \ {k} \in SUBSET Key /\ {k} \in SUBSET Key
        BY <1>1 DEF Import
      <3>2. j \in Import
        BY <2>1, <3>1 DEF Import
      <3>3. /\ j.todo = i.todo \ {k} /\ j.checked = i.checked /\ j.owned = i.owned /\ j.from = i.from
            /\ j.to = i.to /\ j.no = i.no /\ j.keys = i.keys /\ j.data = i.data
        BY <2>1, <3>1 DEF Import
      <3>4. j.fanned = i.fanned
        BY <2>1, <3>1 DEF Import
      <3>5. QED
        BY <1>1, <1>3, <3>2, <3>3, <3>4 DEF SameRequest
    <2>3. /\ imports' = (imports \ {i}) \cup {j}
          /\ mishaps' = IF i.data[k].id < store[i.to][k].id THEN mishaps
                          ELSE mishaps \cup {Mishap(i.data[k], "outranked")}
      BY <1>4, <2>1 DEF ImportCheck
    <2>4. /\ \A n \in Node, q \in Key, x \in Nat : Safe(n, q, x) => Safe(n, q, x)'
          /\ \A w \in acked : Outcome(w) => Outcome(w)'
      <3>1. mishaps \subseteq mishaps'
        BY <2>3
      <3>2. QED
        BY <1>1, <1>3, <3>1, SafeStays
    <2>5. PICK x \in Nat : x = i.data[k].id
      BY <1>2
    <2>6. Safe(i.from, k, x)'
      <3>1. CASE x < store[i.to][k].id
        <4>1. store'[i.to][k].id >= x
          BY <1>1, <1>2, <1>3, <2>5, <3>1, Numbers
        <4>2. Before(k, i.to, i.from)
          BY <1>1, <1>3 DEF RequestOK
        <4>3. QED
          BY <1>2, <4>1, <4>2 DEF Safe
      <3>2. CASE ~(x < store[i.to][k].id)
        <4>1. PICK y : y = Mishap(i.data[k], "outranked")
          OBVIOUS
        <4>2. y \in mishaps' /\ y.id = x
          BY <2>3, <2>5, <3>2, <4>1 DEF Mishap
        <4>3. Good(hist, k, i.data[k]) /\ i.data[k] # Absent
          BY <1>1, <1>3 DEF AllGood
        <4>4. hist'[y.id] = k /\ y.id >= x
          BY <1>3, <2>5, <4>2, <4>3 DEF Good
        <4>5. QED
          BY <4>2, <4>4 DEF Safe, Marked
      <3>3. QED
        BY <3>1, <3>2
    <2>7. \A q \in i.todo \ j.todo : Safe(i.from, q, i.data[q].id)'
      BY <2>2, <2>5, <2>6
    <2>8. QED
      BY <1>3, <2>2, <2>3, <2>4, <2>7, HandleMove
  <1>5. CASE ~SortsBefore(i.data[k], store[i.to][k])
    <2>1. PICK j : j = [i EXCEPT !.checked = {k}]
      OBVIOUS
    <2>2. SameRequest(i, j) /\ j.todo = i.todo /\ j.fanned = i.fanned
      <3>1. i \in Import /\ i.todo \ {k} \in SUBSET Key /\ {k} \in SUBSET Key
        BY <1>1 DEF Import
      <3>2. j \in Import
        BY <2>1, <3>1 DEF Import
      <3>3. /\ j.todo = i.todo /\ j.checked = {k} /\ j.owned = i.owned /\ j.from = i.from
            /\ j.to = i.to /\ j.no = i.no /\ j.keys = i.keys /\ j.data = i.data
        BY <2>1, <3>1 DEF Import
      <3>4. j.fanned = i.fanned
        BY <2>1, <3>1 DEF Import
      <3>5. QED
        BY <1>1, <1>3, <3>2, <3>3, <3>4 DEF SameRequest
    <2>3. imports' = (imports \ {i}) \cup {j} /\ UNCHANGED mishaps
      BY <1>5, <2>1 DEF ImportCheck
    <2>4. /\ \A n \in Node, q \in Key, x \in Nat : Safe(n, q, x) => Safe(n, q, x)'
          /\ \A w \in acked : Outcome(w) => Outcome(w)'
      BY <1>1, <1>3, <2>3, SafeStays
    <2>5. QED
      BY <1>3, <2>2, <2>3, <2>4, HandleMove
  <1>6. QED
    BY <1>4, <1>5

\* A key that the target sets is safe.
LEMMA SetMove ==
    ASSUME MoveInv, TypeInv', NEW i \in imports, NEW k \in Key, ImportSet(i, k)
    PROVE  MoveInv'
  <1> USE DEF requests, counters, writes
  <1>1. /\ TypeInv /\ RequestOK(i) /\ HandledSafe(i) /\ i \in Import
        /\ AllGood(hist, i.data) /\ i.owned \subseteq i.keys /\ i.checked \subseteq i.todo
        /\ i.todo \subseteq i.keys /\ \A q \in i.keys : i.data[q] # Absent
    BY Shapes DEF MoveInv, TypeInv, RecordInv
  <1>2. i.to \in Node /\ i.from \in Node /\ i.data \in Data /\ i.keys \subseteq Key
        /\ \A q \in Key : i.data[q] \in Record /\ i.data[q].id \in Nat
    BY <1>1, Numbers DEF Import, Data
  <1>3. k \in i.keys /\ k \in i.todo /\ ~ i.fanned
    BY <1>1 DEF ImportSet, RequestOK
  <1>4. Overwrite(i.to, k, i.data[k]) /\ UNCHANGED <<active, worker, created, hist, acked>>
    BY DEF ImportSet
  <1>5. PICK O : O = IF GetNode(ring[i.to], k) = i.to THEN i.owned \cup {k} ELSE i.owned
    OBVIOUS
  <1>6. O \in SUBSET Key /\ O \subseteq i.keys
    BY <1>1, <1>2, <1>3, <1>5
  <1>7. PICK j : j = [i EXCEPT !.checked = {}, !.todo = @ \ {k}, !.owned = O]
    OBVIOUS
  <1>8. SameRequest(i, j) /\ j.todo = i.todo \ {k} /\ j.fanned = i.fanned
    <2>1. i \in Import /\ i.todo \ {k} \in SUBSET Key
      BY <1>1 DEF Import
    <2>2. j \in Import
      BY <1>6, <1>7, <2>1 DEF Import
    <2>3. /\ j.todo = i.todo \ {k} /\ j.checked = {} /\ j.owned = O /\ j.from = i.from
          /\ j.to = i.to /\ j.no = i.no /\ j.keys = i.keys /\ j.data = i.data
      BY <1>7, <2>1 DEF Import
    <2>4. j.fanned = i.fanned
      BY <1>7, <2>1 DEF Import
    <2>5. QED
      BY <1>1, <1>6, <2>2, <2>3, <2>4 DEF SameRequest
  <1>9. imports' = (imports \ {i}) \cup {j}
    <2>1. [i EXCEPT !.checked = {}, !.todo = @ \ {k},
                    !.owned = IF GetNode(ring[i.to], k) = i.to THEN @ \cup {k} ELSE @] = j
      BY <1>5, <1>7
    <2>2. QED
      BY <2>1 DEF ImportSet
  <1>10. PICK rec \in Record : rec = i.data[k]
    BY <1>2
  <1>11. /\ store'[i.to][k] = rec
         /\ \A n \in Node, q \in Key, x \in Nat : Safe(n, q, x) => Safe(n, q, x)'
         /\ \A w \in acked : Outcome(w) => Outcome(w)'
    BY <1>1, <1>2, <1>4, <1>10, OverwriteSafe
  <1>12. Safe(i.from, k, i.data[k].id)'
    <2>1. store'[i.to][k].id >= i.data[k].id
      BY <1>2, <1>10, <1>11
    <2>2. Before(k, i.to, i.from)
      BY <1>1, <1>3 DEF RequestOK
    <2>3. QED
      BY <1>2, <2>1, <2>2 DEF Safe
  <1>13. \A q \in i.todo \ j.todo : Safe(i.from, q, i.data[q].id)'
    BY <1>8, <1>12
  <1>14. UNCHANGED <<active, worker, created, acked, hist>> /\ (j.fanned => j.todo = {})
    BY <1>3, <1>4, <1>8
  <1>15. QED
    BY <1>8, <1>9, <1>11, <1>13, <1>14, HandleMove

\* An answer that counts is about what the thread captured: its keys were handled.
LEMMA AnswerMove ==
    ASSUME MoveInv, TypeInv', NEW i \in imports, ImportAnswer(i)
    PROVE  MoveInv'
  <1> USE DEF requests, counters, writes
  <1>1. /\ TypeInv /\ RequestOK(i) /\ HandledSafe(i) /\ i.from \in Node /\ i.keys \subseteq Key
        /\ i.fanned /\ imports' = imports \ {i}
        /\ UNCHANGED <<store, active, created, hist, acked, mishaps>>
    BY Shapes DEF MoveInv, ImportAnswer, Import
  <1>2. /\ \A n \in Node, k \in Key, x \in Nat : Safe(n, k, x) => Safe(n, k, x)'
        /\ \A w \in acked : Outcome(w) => Outcome(w)'
    BY <1>1, SafeStays
  <1>3. CASE UNCHANGED worker
    <2>1. imports' \subseteq imports /\ \A w \in acked' \ acked : Outcome(w)'
      BY <1>1
    <2>2. QED
      BY <1>1, <1>2, <1>3, <2>1, StoreMove
  <1>4. CASE /\ worker[i.from].pc = "waiting" /\ worker[i.from].task.no = i.no
             /\ worker[i.from].batch = i.keys
             /\ worker' = [worker EXCEPT ![i.from].pc = "sending", ![i.from].left = @ \ i.keys]
    <2>1. PICK n \in Node : n = i.from
      BY <1>1
    <2>2. /\ worker \in [Node -> IdleWorker \cup BusyWorker] /\ worker[n] \in BusyWorker
          /\ TaskOK(n) /\ SentSafe(n) /\ worker[n].pc = "waiting" /\ worker[n].task.no = i.no
          /\ worker' = [worker EXCEPT ![n].pc = "sending", ![n].left = @ \ i.keys]
      BY <1>1, <1>4, <2>1, Shapes DEF MoveInv
    <2>3. /\ worker'[n].pc = "sending" /\ worker'[n].todo = worker[n].todo
          /\ worker'[n].task = worker[n].task /\ worker'[n].data = worker[n].data
          /\ worker'[n].left = worker[n].left \ i.keys
          /\ \A m \in Node \ {n} : worker'[m] = worker[m] /\ active'[m] = active[m]
      BY <1>1, <2>2 DEF BusyWorker
    <2>4. /\ \A m \in Node : SentSafe(m) /\ worker'[m] = worker[m] => SentSafe(m)'
          /\ \A r \in imports : HandledSafe(r) => HandledSafe(r)'
          /\ \A r \in imports : RequestOK(r) /\ worker'[r.from] = worker[r.from] => RequestOK(r)'
      BY <1>1, <1>2, OtherSafe
    <2>5. TaskOK(n)'
      <3>1. Coming(n)' = Coming(n)
        BY <1>1, <2>3 DEF Coming
      <3>2. QED
        BY <1>1, <2>2, <2>3, <3>1 DEF TaskOK, Forward
    <2>6. \A m \in Node \ {n} : TaskOK(m)'
      <3>1. created \in Nat /\ created <= created'
        <4>1. created \in 0 .. MaxTasks /\ MaxTasks \in Nat
          BY MigrationAssumption DEF MoveInv, TypeInv, TypeOK
        <4>2. QED
          BY <1>1, <4>1
      <3>2. QED
        BY <1>1, <2>3, <3>1, OtherTasks DEF MoveInv
    <2>7. \A r \in imports' : RequestOK(r)'
      <3>1. \A r \in imports : RequestOK(r) /\ r.from \in Node
        BY Shapes DEF MoveInv, Import
      <3>2. \A r \in imports : r.from = n => RequestOK(r)'
        BY <2>2, <2>3, <3>1 DEF RequestOK
      <3>3. QED
        BY <1>1, <2>3, <2>4, <3>1, <3>2
    <2>8. i.data = worker[n].data /\ i.todo = {}
      BY <1>1, <2>1, <2>2 DEF RequestOK
    <2>9. SentSafe(n)'
      <3>1. ASSUME NEW k \in Done(n)', worker'[n].data[k] # Absent
            PROVE  Safe(n, k, worker[n].data[k].id)'
        <4>1. k \in worker[n].task.keys /\ (k \in Done(n) \/ k \in i.keys)
          BY <2>2, <2>3, <3>1 DEF Done
        <4>2. k \in Key
          BY <2>2, <4>1 DEF BusyWorker, Task
        <4>3. PICK x \in Nat : x = worker[n].data[k].id
          BY <1>1, <2>2, <4>2, Numbers
        <4>4. Safe(n, k, x)
          <5>1. CASE k \in Done(n)
            BY <2>2, <2>3, <3>1, <4>3, <5>1 DEF SentSafe
          <5>2. CASE k \in i.keys
            BY <1>1, <2>1, <2>8, <4>3, <5>2 DEF HandledSafe
          <5>3. QED
            BY <4>1, <5>1, <5>2
        <4>5. Safe(n, k, x)'
          BY <1>2, <4>2, <4>4
        <4>6. worker'[n].data[k].id = x
          BY <2>3, <4>3
        <4>7. QED
          BY <4>5, <4>6 DEF Safe, Marked
      <3>2. QED
        BY <3>1 DEF SentSafe
    <2>10. QED
      BY <1>1, <1>2, <2>3, <2>4, <2>5, <2>6, <2>7, <2>9 DEF MoveInv
  <1>5. QED
    BY <1>3, <1>4 DEF ImportAnswer

\* The fan-out at a replica.
LEMMA ReplicaMove ==
    ASSUME MoveInv, TypeInv', NEW s \in sets, ReplicaSetCheck(s) \/ ReplicaSet(s)
    PROVE  MoveInv'
  <1> USE DEF requests, counters, writes
  <1>1. TypeInv /\ s.to \in Node /\ s.key \in Key /\ s.rec \in Record
    BY Shapes DEF MoveInv, SetRequest
  <1>2. CASE ReplicaSetCheck(s)
    <2>1. UNCHANGED <<store, active, worker, imports, created, hist, acked, mishaps>>
      BY <1>2 DEF ReplicaSetCheck
    <2>2. /\ \A n \in Node, k \in Key, x \in Nat : Safe(n, k, x) => Safe(n, k, x)'
          /\ \A w \in acked : Outcome(w) => Outcome(w)'
      BY <1>1, <2>1, SafeStays
    <2>3. QED
      BY <2>1, <2>2, StoreMove
  <1>3. CASE ReplicaSet(s)
    <2>1. Overwrite(s.to, s.key, s.rec) /\ UNCHANGED <<active, worker, imports, created, hist, acked>>
      BY <1>3 DEF ReplicaSet
    <2>2. /\ \A n \in Node, k \in Key, x \in Nat : Safe(n, k, x) => Safe(n, k, x)'
          /\ \A w \in acked : Outcome(w) => Outcome(w)'
      BY <1>1, <2>1, OverwriteSafe
    <2>3. QED
      BY <2>1, <2>2, StoreMove
  <1>4. QED
    BY <1>2, <1>3

\* Client writes: the one that holds the lock is the newest there is.
LEMMA WriteMove ==
    ASSUME MoveInv, TypeInv',
           \/ \E k \in Key : WriteBegin(k)
           \/ \E n \in Node : WriteCommit(n)
           \/ WriteEnd \/ WriteFails
    PROVE  MoveInv'
  <1> USE DEF requests, counters, writes
  <1>1. TypeInv /\ Leader \in Node
    BY MigrationAssumption DEF MoveInv
  <1>2. Len(hist) <= Len(hist') /\ Len(hist') \in Nat /\ \A j \in 1 .. Len(hist) : hist'[j] = hist[j]
    BY <1>1, WriteTypes
  <1>3. ASSUME UNCHANGED <<store, active, worker, imports, created, acked, mishaps>> PROVE MoveInv'
    <2>1. /\ \A n \in Node, k \in Key, x \in Nat : Safe(n, k, x) => Safe(n, k, x)'
          /\ \A w \in acked : Outcome(w) => Outcome(w)'
      BY <1>1, <1>2, <1>3, SafeStays
    <2>2. QED
      BY <1>3, <2>1, StoreMove
  <1>4. ASSUME NEW n \in Node, writing # NoWrite, store' = [store EXCEPT ![n][writing.key] = writing.rec],
               UNCHANGED <<hist, mishaps>>
        PROVE  /\ \A m \in Node, k \in Key, x \in Nat : Safe(m, k, x) => Safe(m, k, x)'
               /\ \A w \in acked : Outcome(w) => Outcome(w)'
               /\ store'[n][writing.key].id = Len(hist)
               /\ writing.id = Len(hist) /\ hist[Len(hist)] = writing.key /\ writing.key \in Key
               /\ Len(hist) \in Nat
    <2>1. /\ writing \in Write /\ writing.id = Len(hist) /\ writing.rec.id = Len(hist)
          /\ Good(hist, writing.key, writing.rec)
      BY <1>1, <1>4, Shapes DEF TypeInv, RecordInv
    <2>2. writing.key \in Key /\ writing.id # 0
      BY <2>1 DEF Write
    <2>3. PICK k \in Key : k = writing.key
      BY <2>2
    <2>4. /\ \A m \in Node, q \in Key : m # n \/ q # k => store'[m][q] = store[m][q]
          /\ store'[n][k] = writing.rec
      BY <1>1, <1>4, <2>3, Shapes
    <2>5. PICK v \in Nat : v = store[n][k].id
      BY <1>1, Numbers
    <2>6. store'[n][k].id >= v
      <3>1. Good(hist, k, store[n][k])
        BY <1>1 DEF TypeInv, RecordInv, AllGood
      <3>2. v \in 0 .. Len(hist) /\ Len(hist) \in Nat
        BY <1>1, <2>5, <3>1, Numbers DEF Good
      <3>3. QED
        BY <2>1, <2>4, <3>2
    <2>7. mishaps \subseteq mishaps'
      BY <1>4
    <2>8. /\ \A m \in Node, q \in Key, x \in Nat : Safe(m, q, x) => Safe(m, q, x)'
          /\ \A w \in acked : Outcome(w) => Outcome(w)'
      BY <1>1, <1>2, <2>4, <2>5, <2>6, <2>7, SafeKeeps
    <2>9. hist[Len(hist)] = writing.key
      BY <2>1, <2>2 DEF Good
    <2>10. QED
      BY <1>1, <2>1, <2>2, <2>3, <2>4, <2>8, <2>9, Numbers
  <1>5. ASSUME NEW k \in Key, WriteBegin(k) PROVE MoveInv'
    BY <1>3, <1>5 DEF WriteBegin
  <1>6. ASSUME NEW n \in Node, WriteCommit(n) PROVE MoveInv'
    <2>1. /\ writing # NoWrite /\ store' = [store EXCEPT ![n][writing.key] = writing.rec]
          /\ UNCHANGED <<active, worker, imports, created, hist, acked, mishaps>>
      BY <1>6 DEF WriteCommit
    <2>2. /\ \A m \in Node, k \in Key, x \in Nat : Safe(m, k, x) => Safe(m, k, x)'
          /\ \A w \in acked : Outcome(w) => Outcome(w)'
      BY <1>4, <2>1
    <2>3. QED
      BY <2>1, <2>2, StoreMove
  <1>7. CASE WriteEnd
    <2>1. /\ writing # NoWrite /\ store' = [store EXCEPT ![Leader][writing.key] = writing.rec]
          /\ acked' = acked \cup {writing.id}
          /\ UNCHANGED <<active, worker, imports, created, hist, mishaps>>
      BY <1>7 DEF WriteEnd
    <2>2. /\ \A m \in Node, k \in Key, x \in Nat : Safe(m, k, x) => Safe(m, k, x)'
          /\ \A w \in acked : Outcome(w) => Outcome(w)'
          /\ store'[Leader][writing.key].id = Len(hist) /\ writing.id = Len(hist)
          /\ hist[Len(hist)] = writing.key /\ Len(hist) \in Nat
      BY <1>1, <1>4, <2>1
    <2>3. ASSUME NEW w \in acked' \ acked PROVE Outcome(w)'
      <3>1. w = Len(hist)
        BY <2>1, <2>2, <2>3
      <3>2. hist'[w] = writing.key
        BY <2>1, <2>2, <3>1
      <3>3. store'[Leader][hist'[w]].id >= w
        BY <2>2, <3>1, <3>2
      <3>4. QED
        BY <1>1, <3>3 DEF Outcome, Kept
    <2>4. QED
      BY <2>1, <2>2, <2>3, StoreMove
  <1>8. CASE WriteFails
    BY <1>3, <1>8 DEF WriteFails
  <1>9. QED
    BY <1>5, <1>6, <1>7, <1>8

\* At the start nothing moves.
LEMMA InitMove == Init => MoveInv
  <1> SUFFICES ASSUME Init PROVE MoveInv
    OBVIOUS
  <1>1. TypeInv
    BY InitTypes
  <1>2. imports = {} /\ acked = {} /\ \A n \in Node : active[n] = {} /\ worker[n] = NoTask
    BY DEF Init
  <1>3. NoTask.pc = "idle" /\ NoTask.todo = {}
    BY DEF NoTask
  <1>4. \A n \in Node : TaskOK(n) /\ SentSafe(n)
    BY <1>2, <1>3 DEF TaskOK, SentSafe
  <1>5. QED
    BY <1>1, <1>2, <1>4 DEF MoveInv

\* Every step keeps MoveInv.
LEMMA StepMove == MoveInv /\ [Next]_vars => MoveInv'
  <1> SUFFICES ASSUME MoveInv, [Next]_vars PROVE MoveInv'
    OBVIOUS
  <1>1. TypeInv'
    BY StepTypes DEF MoveInv
  <1>2. CASE UNCHANGED vars
    <2>1. UNCHANGED <<store, active, worker, imports, created, hist, acked, mishaps>>
      BY <1>2 DEF vars, requests, counters, writes
    <2>2. /\ \A n \in Node, k \in Key, x \in Nat : Safe(n, k, x) => Safe(n, k, x)'
          /\ \A w \in acked : Outcome(w) => Outcome(w)'
      BY <2>1, SafeStays DEF MoveInv
    <2>3. QED
      BY <1>1, <2>1, <2>2, StoreMove
  <1>3. CASE Next
    <2>1. ASSUME NEW n \in Node, WorkerStep(n) PROVE MoveInv'
      BY <1>1, <2>1, TaskMove, SendMove, DeleteMove DEF WorkerStep
    <2>2. ASSUME ImportStep PROVE MoveInv'
      BY <1>1, <2>2, FanOutMove, CheckMove, SetMove, AnswerMove DEF ImportStep
    <2>3. QED
      BY <1>1, <1>3, <2>1, <2>2, RingMove, ReplicaMove, WriteMove DEF Next
  <1>4. QED
    BY <1>2, <1>3

\* LostOnlyByMishap, for any number of nodes, keys, tasks and writes, any ring, any
\* replication factor and batch size: whatever tasks are made, replaced, cancelled and
\* cut off by a timeout, and however the rings of the nodes differ, an acknowledged
\* write is in some store (or a later one of its key is), or a mishap is on record.
THEOREM MovesLoseByMishap == Spec => []LostOnlyByMishap
  <1>1. MoveInv => LostOnlyByMishap
    BY DEF MoveInv, LostOnlyByMishap, Outcome, Marked
  <1>2. QED
    BY <1>1, InitMove, StepMove, PTL DEF Spec
=============================================================================
