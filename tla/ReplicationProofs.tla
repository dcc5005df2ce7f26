-------------------------- MODULE ReplicationProofs --------------------------
(***************************************************************************)
(* Theorems about Replication, for any nodes, replication factor, views    *)
(* and bounds: its types, for any succession of leaders; and with a stable *)
(* leader, that what is visible was committed, that acknowledged writes    *)
(* are on as many replicas as were counted, and that reads whose level     *)
(* overlaps the level of the writes are fresh.                             *)
(*                                                                         *)
(* Entries are only made where a write starts, and records only come from  *)
(* entries that are committed (HasEntry, HasCopy, CopySource).  A stable   *)
(* leader never uses an index twice, so a commit applies the entry it      *)
(* carries and every acknowledgement counted stands for a replica that     *)
(* has the write.  Versions follow the order of the writes of a key, and   *)
(* a read quorum meets a replica that has each write it must see.          *)
(***************************************************************************)
EXTENDS Replication, FiniteSetTheorems, SequenceTheorems,
        WellFoundedInduction, TLAPS

-----------------------------------------------------------------------------
(* Where entries and records are. *)

\* A thread, a follower, a message or the async queue has the entry e.
HasEntry(e) ==
    \/ \E n \in Node : writer[n] # NoWrite /\ e = writer[n].entry
    \/ \E n \in Node : e \in staged[n]
    \/ \E msg \in net : e = msg.entry
    \/ \E n \in Node : \E i \in 1 .. Len(queue[n]) : e = queue[n][i].entry

\* A store, a read or a repair has the record r of k.
HasCopy(k, r) ==
    \/ \E n \in Node : r = store[n][k]
    \/ \E n \in Node : reader[n] # NoRead /\ reader[n].key = k /\ \E a \in reader[n].got : r = a.rec
    \/ \E p \in repairs : p.key = k /\ r = p.rec

\* A commit may put the record r of k into a store.
Applies(k, r) ==
    \/ \E msg \in net : msg.phase = "commit" /\ ToApply(msg).key = k /\ r = EntryRecord(ToApply(msg))
    \/ \E n \in Node : /\ writer[n] # NoWrite /\ writer[n].pc = "commit"
                       /\ writer[n].entry.key = k /\ r = EntryRecord(writer[n].entry)

\* What they are in the history h.
EntryOK(h, e) ==
    /\ e.id \in 1 .. Len(h) /\ e.ver \in 1 .. Len(h) /\ e.index \in 1 .. Len(h)
    /\ h[e.id].key = e.key /\ h[e.id].op = e.op
RecordOK(h, k, r) ==
    /\ r.id \in 0 .. Len(h) /\ r.ver \in 0 .. Len(h)
    /\ IF r.id = 0 THEN r = Absent ELSE h[r.id].key = k

\* The calls of a write: one acknowledgement per call that was answered.
WriterOK(n, w) ==
    /\ w.todo \subseteq w.targets /\ w.wait \in w.targets \cup {None} /\ w.wait \notin w.todo
    /\ n \notin w.targets /\ w.entry.coord = n
    /\ w.acks <= Cardinality(w.targets \ (w.todo \cup {w.wait}))

HistEntry == [op : {"SET", "DELETE"}, key : Key, seen : SUBSET WriteId]
Queued == [entry : Entry, targets : SUBSET Node]

\* What nodes keep.
StoreShape ==
    /\ store \in [Node -> [Key -> Record]]
    /\ staged \in [Node -> SUBSET Entry]
    /\ \A n \in Node : \A d, e \in staged[n] : d.index = e.index => d = e
    /\ seq \in [Node -> 0 .. MaxWrites]
    /\ \A n \in Node : seq[n] <= Len(hist)

\* The threads that serve clients.
WriterShape ==
    /\ writer \in [Node -> WriterType \cup {NoWrite}]
    /\ \A n \in Node : writer[n] # NoWrite => WriterOK(n, writer[n])
ReaderShape == reader \in [Node -> ReaderType \cup {NoRead}]

\* What is under way.
NetShape ==
    /\ net \subseteq Message /\ repairs \subseteq Repair
    /\ queue \in [Node -> Seq(Queued)]

\* The configuration and the history.
HistShape ==
    /\ consistency \in WriteLevels /\ leaders \in LeaderSets
    /\ hist \in Seq(HistEntry) /\ Len(hist) <= MaxWrites
    /\ acked \subseteq 1 .. Len(hist) /\ failed \subseteq 1 .. Len(hist)
    /\ committing \subseteq 1 .. Len(hist)
    /\ reads \in 0 .. MaxReads /\ restarts \in 0 .. MaxRestarts

ShapeInv == StoreShape /\ WriterShape /\ ReaderShape /\ NetShape /\ HistShape

SourceInv ==
    /\ \A e : HasEntry(e) => EntryOK(hist, e)
    /\ \A k \in Key : \A r : HasCopy(k, r) => RecordOK(hist, k, r)
    /\ \A p \in repairs : p.rec # Absent

TypeInv == ShapeInv /\ SourceInv

\* The types of what nodes keep.
LEMMA Shapes ==
    ASSUME ShapeInv
    PROVE  /\ Len(hist) \in Nat /\ MaxWrites \in Nat /\ IsFiniteSet(Node) /\ None \notin Node
           /\ \A n \in Node : writer[n] # NoWrite => writer[n] \in WriterType /\ WriterOK(n, writer[n])
           /\ \A n \in Node : reader[n] # NoRead => reader[n] \in ReaderType
           /\ NoWrite \notin WriterType /\ NoRead \notin ReaderType
           /\ Absent \in Record /\ Absent.id = 0 /\ Absent.ver = 0
           /\ \A n \in Node : writer[n].pc \in {"prepare", "commit"} => writer[n] # NoWrite
           /\ \A e : HasEntry(e) => e \in Entry
           /\ \A k \in Key : \A r : HasCopy(k, r) => r \in Record
  <1>1. Len(hist) \in Nat /\ MaxWrites \in Nat /\ IsFiniteSet(Node) /\ None \notin Node
    BY LenProperties, ReplicationAssumption DEF ShapeInv, HistShape
  <1>2. \A n \in Node : writer[n] # NoWrite => writer[n] \in WriterType /\ WriterOK(n, writer[n])
    BY DEF ShapeInv, WriterShape
  <1>3. \A n \in Node : reader[n] # NoRead => reader[n] \in ReaderType
    BY DEF ShapeInv, ReaderShape
  <1>4. NoWrite \notin WriterType /\ NoRead \notin ReaderType
    BY DEF NoWrite, NoRead, WriterType, ReaderType
  <1>5. Absent \in Record /\ Absent.id = 0 /\ Absent.ver = 0
    BY <1>1 DEF Absent, Record
  <1>6. \A n \in Node : writer[n].pc \in {"prepare", "commit"} => writer[n] # NoWrite
    BY DEF NoWrite
  <1>7. ASSUME NEW e, HasEntry(e) PROVE e \in Entry
    <2>1. ASSUME NEW n \in Node, writer[n] # NoWrite, e = writer[n].entry PROVE e \in Entry
      BY <1>2, <2>1 DEF WriterType
    <2>2. ASSUME NEW n \in Node, e \in staged[n] PROVE e \in Entry
      BY <2>2 DEF ShapeInv, StoreShape
    <2>3. ASSUME NEW msg \in net, e = msg.entry PROVE e \in Entry
      BY <2>3 DEF ShapeInv, NetShape, Message
    <2>4. ASSUME NEW n \in Node, NEW i \in 1 .. Len(queue[n]), e = queue[n][i].entry PROVE e \in Entry
      <3>1. queue[n] \in Seq(Queued)
        BY DEF ShapeInv, NetShape
      <3>2. queue[n][i] \in Queued
        BY <3>1, ElementOfSeq
      <3>3. QED
        BY <2>4, <3>2 DEF Queued
    <2>5. QED
      BY <1>7, <2>1, <2>2, <2>3, <2>4 DEF HasEntry
  <1>8. ASSUME NEW k \in Key, NEW r, HasCopy(k, r) PROVE r \in Record
    <2>1. ASSUME NEW n \in Node, r = store[n][k] PROVE r \in Record
      BY <2>1 DEF ShapeInv, StoreShape
    <2>2. ASSUME NEW n \in Node, reader[n] # NoRead, NEW a \in reader[n].got, r = a.rec PROVE r \in Record
      BY <1>3, <2>2 DEF ReaderType, Answer
    <2>3. ASSUME NEW p \in repairs, r = p.rec PROVE r \in Record
      BY <2>3 DEF ShapeInv, NetShape, Repair
    <2>4. QED
      BY <1>8, <2>1, <2>2, <2>3 DEF HasCopy
  <1>9. QED
    BY <1>1, <1>2, <1>3, <1>4, <1>5, <1>6, <1>7, <1>8

\* The calls of a write go on, are answered, or time out.
LEMMA CallMoves ==
    ASSUME NEW n \in Node, NEW w \in WriterType, WriterOK(n, w)
    PROVE  /\ \A m \in w.todo : w.wait = None =>
                /\ [w EXCEPT !.todo = @ \ {m}, !.wait = m] \in WriterType
                /\ WriterOK(n, [w EXCEPT !.todo = @ \ {m}, !.wait = m])
                /\ [w EXCEPT !.todo = @ \ {m}] \in WriterType
                /\ WriterOK(n, [w EXCEPT !.todo = @ \ {m}])
           /\ /\ [w EXCEPT !.wait = None] \in WriterType
              /\ WriterOK(n, [w EXCEPT !.wait = None])
           /\ w.wait # None =>
                /\ [w EXCEPT !.wait = None, !.acks = @ + 1] \in WriterType
                /\ WriterOK(n, [w EXCEPT !.wait = None, !.acks = @ + 1])
           /\ w.wait = None => EnterCommit(w) \in WriterType /\ WriterOK(n, EnterCommit(w))
  <1>1. /\ IsFiniteSet(Node) /\ None \notin Node /\ w.targets \subseteq Node /\ w.todo \subseteq Node
        /\ w.acks \in Nat /\ w.wait \in Node \cup {None} /\ Cardinality(Node) \in Nat
    BY ReplicationAssumption, FS_CardinalityType DEF WriterType
  <1>2. \A T : IsFiniteSet(w.targets \ T) /\ Cardinality(w.targets \ T) \in Nat
               /\ Cardinality(w.targets \ T) <= Cardinality(Node)
    <2>1. ASSUME NEW T PROVE IsFiniteSet(w.targets \ T) /\ Cardinality(w.targets \ T) <= Cardinality(Node)
      BY <1>1, FS_Subset
    <2>2. QED
      BY <2>1, FS_CardinalityType
  <1>3. \A S, T : S \subseteq T => Cardinality(w.targets \ T) <= Cardinality(w.targets \ S)
    <2>1. ASSUME NEW S, NEW T, S \subseteq T PROVE Cardinality(w.targets \ T) <= Cardinality(w.targets \ S)
      <3>1. w.targets \ T \in SUBSET (w.targets \ S)
        BY <2>1
      <3>2. QED
        BY <1>2, <3>1, FS_Subset
    <2>2. QED
      BY <2>1
  <1>4. ASSUME NEW m \in w.todo, w.wait = None
        PROVE  /\ [w EXCEPT !.todo = @ \ {m}, !.wait = m] \in WriterType
               /\ WriterOK(n, [w EXCEPT !.todo = @ \ {m}, !.wait = m])
               /\ [w EXCEPT !.todo = @ \ {m}] \in WriterType
               /\ WriterOK(n, [w EXCEPT !.todo = @ \ {m}])
    <2>1. PICK v : v = [w EXCEPT !.todo = @ \ {m}, !.wait = m]
      OBVIOUS
    <2>2. PICK u : u = [w EXCEPT !.todo = @ \ {m}]
      OBVIOUS
    <2>3. /\ v \in WriterType /\ v.todo = w.todo \ {m} /\ v.wait = m /\ v.targets = w.targets
          /\ v.acks = w.acks /\ v.entry = w.entry
      BY <1>1, <2>1 DEF WriterType
    <2>4. /\ u \in WriterType /\ u.todo = w.todo \ {m} /\ u.wait = None /\ u.targets = w.targets
          /\ u.acks = w.acks /\ u.entry = w.entry
      BY <1>1, <1>4, <2>2 DEF WriterType
    <2>5. v.todo \cup {v.wait} \subseteq w.todo \cup {w.wait}
          /\ u.todo \cup {u.wait} \subseteq w.todo \cup {w.wait}
      BY <1>4, <2>3, <2>4
    <2>6. /\ Cardinality(w.targets \ (w.todo \cup {w.wait})) <= Cardinality(w.targets \ (v.todo \cup {v.wait}))
          /\ Cardinality(w.targets \ (w.todo \cup {w.wait})) <= Cardinality(w.targets \ (u.todo \cup {u.wait}))
      BY <1>3, <2>5
    <2>7. /\ w.acks <= Cardinality(w.targets \ (v.todo \cup {v.wait}))
          /\ w.acks <= Cardinality(w.targets \ (u.todo \cup {u.wait}))
      <3>1. w.acks <= Cardinality(w.targets \ (w.todo \cup {w.wait}))
        BY DEF WriterOK
      <3>2. /\ Cardinality(w.targets \ (w.todo \cup {w.wait})) \in Nat
            /\ Cardinality(w.targets \ (v.todo \cup {v.wait})) \in Nat
            /\ Cardinality(w.targets \ (u.todo \cup {u.wait})) \in Nat
        BY <1>2, Zenon
      <3>3. QED
        BY <1>1, <2>6, <3>1, <3>2
    <2>8. WriterOK(n, v)
      BY <1>4, <2>3, <2>7 DEF WriterOK
    <2>9. WriterOK(n, u)
      BY <1>1, <1>4, <2>4, <2>7 DEF WriterOK
    <2>10. QED
      BY <2>1, <2>2, <2>3, <2>4, <2>8, <2>9
  <1>5. [w EXCEPT !.wait = None] \in WriterType /\ WriterOK(n, [w EXCEPT !.wait = None])
    <2>1. PICK v : v = [w EXCEPT !.wait = None]
      OBVIOUS
    <2>2. /\ v \in WriterType /\ v.todo = w.todo /\ v.wait = None /\ v.targets = w.targets
          /\ v.acks = w.acks /\ v.entry = w.entry
      BY <1>1, <2>1 DEF WriterType
    <2>3. Cardinality(w.targets \ (w.todo \cup {w.wait})) <= Cardinality(w.targets \ w.todo)
      BY <1>3
    <2>4. w.targets \ (v.todo \cup {v.wait}) = w.targets \ w.todo
      BY <1>1, <2>2
    <2>5. w.acks <= Cardinality(w.targets \ (v.todo \cup {v.wait}))
      <3>1. w.acks <= Cardinality(w.targets \ (w.todo \cup {w.wait}))
        BY DEF WriterOK
      <3>2. /\ Cardinality(w.targets \ (w.todo \cup {w.wait})) \in Nat
            /\ Cardinality(w.targets \ w.todo) \in Nat
        BY <1>2, Zenon
      <3>3. QED
        BY <1>1, <2>3, <2>4, <3>1, <3>2
    <2>6. WriterOK(n, v)
      BY <1>1, <2>2, <2>5 DEF WriterOK
    <2>7. QED
      BY <2>1, <2>2, <2>6
  <1>6. ASSUME w.wait # None
        PROVE  /\ [w EXCEPT !.wait = None, !.acks = @ + 1] \in WriterType
               /\ WriterOK(n, [w EXCEPT !.wait = None, !.acks = @ + 1])
    <2>1. PICK S : S = w.targets \ (w.todo \cup {w.wait})
      OBVIOUS
    <2>2. w.wait \in w.targets /\ w.wait \notin w.todo /\ w.wait \notin S /\ IsFiniteSet(S)
      BY <1>2, <1>6, <2>1 DEF WriterOK
    <2>3. w.targets \ w.todo = S \cup {w.wait}
      BY <2>1, <2>2
    <2>4. Cardinality(w.targets \ w.todo) = Cardinality(S) + 1 /\ Cardinality(S) \in Nat
      BY <2>2, <2>3, FS_AddElement, FS_CardinalityType
    <2>5. w.acks + 1 <= Cardinality(w.targets \ w.todo) /\ w.acks + 1 \in 0 .. Cardinality(Node)
      <3>1. w.acks <= Cardinality(S)
        BY <2>1 DEF WriterOK
      <3>2. Cardinality(w.targets \ w.todo) <= Cardinality(Node)
        BY <1>2
      <3>3. QED
        BY <1>1, <2>4, <3>1, <3>2
    <2>6. PICK v : v = [w EXCEPT !.wait = None, !.acks = @ + 1]
      OBVIOUS
    <2>7. /\ v \in WriterType /\ v.todo = w.todo /\ v.wait = None /\ v.targets = w.targets
          /\ v.acks = w.acks + 1 /\ v.entry = w.entry
      BY <1>1, <2>5, <2>6 DEF WriterType
    <2>8. w.targets \ (v.todo \cup {v.wait}) = w.targets \ w.todo
      BY <1>1, <2>7
    <2>9. WriterOK(n, v)
      BY <1>1, <2>5, <2>7, <2>8 DEF WriterOK
    <2>10. QED
      BY <2>6, <2>7, <2>9
  <1>7. ASSUME w.wait = None PROVE EnterCommit(w) \in WriterType /\ WriterOK(n, EnterCommit(w))
    <2>1. PICK v : v = EnterCommit(w)
      OBVIOUS
    <2>2. /\ v \in WriterType /\ v.todo = w.targets /\ v.wait = None /\ v.targets = w.targets
          /\ v.acks = 0 /\ v.entry = w.entry
      <3>1. 0 \in 0 .. Cardinality(Node)
        BY <1>1
      <3>2. v = [w EXCEPT !.pc = "commit", !.acks = 0, !.todo = w.targets]
        BY <2>1 DEF EnterCommit
      <3>3. QED
        BY <1>7, <3>1, <3>2 DEF WriterType
    <2>3. 0 <= Cardinality(w.targets \ (v.todo \cup {v.wait}))
      <3>1. Cardinality(w.targets \ (v.todo \cup {v.wait})) \in Nat
        BY <1>2, Zenon
      <3>2. QED
        BY <3>1
    <2>4. WriterOK(n, v)
      BY <1>1, <2>2, <2>3 DEF WriterOK
    <2>5. QED
      BY <2>1, <2>2, <2>4
  <1>8. QED
    BY <1>4, <1>5, <1>6, <1>7

\* A set of naturals that is not empty has a least element.
LEMMA LeastNatural ==
    ASSUME NEW T, T \subseteq Nat, T # {}
    PROVE  \E x \in T : \A y \in T : x <= y
  <1>1. PICK x \in T : \A y \in T : ~(<<y, x>> \in OpToRel(<, Nat))
    BY NatLessThanWellFounded, WFMin
  <1>2. \A y \in T : ~(y < x)
    BY <1>1 DEF OpToRel
  <1>3. QED
    BY <1>2

\* The best of the answers is one of those that have the key, and none of
\* them sorts after it.
LEMMA BestAnswer ==
    ASSUME NEW got \in SUBSET Answer, Present(got) # {}
    PROVE  \E a \in Present(got) : /\ Best(got) = a.rec
                                   /\ \A b \in Present(got) : ~SortsBefore(a.rec, b.rec)
  <1> DEFINE P == Present(got)
  <1>1. MaxWrites \in Nat /\ \A a \in P : a.rec.ver \in 0 .. MaxWrites /\ a.rec.id \in 0 .. MaxWrites
    BY ReplicationAssumption DEF Present, Answer, Record
  <1>2. PICK a \in P : \A b \in P : b.rec.ver <= a.rec.ver
    <2>1. PICK T : T = {MaxWrites - a.rec.ver : a \in P}
      OBVIOUS
    <2>2. T \subseteq Nat /\ T # {}
      BY <1>1, <2>1
    <2>3. PICK x \in T : \A y \in T : x <= y
      BY <2>2, LeastNatural
    <2>4. PICK a \in P : x = MaxWrites - a.rec.ver
      BY <2>1, <2>3
    <2>5. ASSUME NEW b \in P PROVE b.rec.ver <= a.rec.ver
      <3>1. x <= MaxWrites - b.rec.ver
        BY <2>1, <2>3
      <3>2. QED
        BY <1>1, <2>4, <3>1
    <2>6. QED
      BY <2>5
  <1>3. PICK c \in P : c.rec.ver = a.rec.ver /\ \A b \in P : b.rec.ver = a.rec.ver => b.rec.id <= c.rec.id
    <2>1. PICK T : T = {MaxWrites - b.rec.id : b \in {b \in P : b.rec.ver = a.rec.ver}}
      OBVIOUS
    <2>2. T \subseteq Nat /\ T # {}
      BY <1>1, <2>1
    <2>3. PICK x \in T : \A y \in T : x <= y
      BY <2>2, LeastNatural
    <2>4. PICK c \in P : c.rec.ver = a.rec.ver /\ x = MaxWrites - c.rec.id
      BY <2>1, <2>3
    <2>5. ASSUME NEW b \in P, b.rec.ver = a.rec.ver PROVE b.rec.id <= c.rec.id
      <3>1. x <= MaxWrites - b.rec.id
        BY <2>1, <2>3, <2>5
      <3>2. QED
        BY <1>1, <2>4, <3>1
    <2>6. QED
      BY <2>4, <2>5
  <1>4. \A b \in P : ~SortsBefore(c.rec, b.rec)
    BY <1>1, <1>2, <1>3 DEF SortsBefore
  <1>5. QED
    BY <1>4 DEF Best

\* The best answer, and what is repaired with it.
LEMMA BestFacts ==
    ASSUME NEW got \in SUBSET Answer
    PROVE  /\ Best(got) \in Record
           /\ Best(got) = Absent \/ \E a \in got : Best(got) = a.rec
           /\ \A k \in Key : \A p \in RepairsFor(k, got) :
                p \in Repair /\ p.key = k /\ p.rec = Best(got) /\ Best(got) # Absent
  <1>1. Absent \in Record
    BY ReplicationAssumption DEF Absent, Record
  <1>2. CASE Present(got) = {}
    <2>1. Best(got) = Absent
      BY <1>2 DEF Best
    <2>2. \A k : RepairsFor(k, got) = {}
      BY <1>2 DEF RepairsFor
    <2>3. QED
      BY <1>1, <2>1, <2>2
  <1>3. CASE Present(got) # {}
    <2>1. PICK a \in Present(got) : Best(got) = a.rec
      BY <1>3, BestAnswer
    <2>2. a \in got /\ a.rec # Absent /\ a.rec \in Record
      BY DEF Present, Answer
    <2>3. ASSUME NEW k \in Key, NEW p \in RepairsFor(k, got)
          PROVE  p \in Repair /\ p.key = k /\ p.rec = Best(got) /\ Best(got) # Absent
      <3>1. PICK b \in got : p = [to |-> b.node, key |-> k, rec |-> Best(got), checked |-> FALSE]
        BY DEF RepairsFor
      <3>2. b.node \in Node
        BY DEF Answer
      <3>3. QED
        BY <2>1, <2>2, <3>1, <3>2 DEF Repair
    <2>4. QED
      BY <2>1, <2>2, <2>3
  <1>4. QED
    BY <1>2, <1>3

\* What a commit applies was staged under its index, or is what it carries.
LEMMA ToApplyIs ==
    ASSUME ShapeInv, NEW msg \in net
    PROVE  /\ msg.to \in Node /\ msg.entry \in Entry /\ ToApply(msg) \in Entry
           /\ \/ ToApply(msg) = msg.entry
              \/ ToApply(msg) \in staged[msg.to] /\ ToApply(msg).index = msg.entry.index
           /\ \A e \in staged[msg.to] : e.index = msg.entry.index => ToApply(msg) = e
           /\ HasEntry(ToApply(msg))
  <1>1. msg.to \in Node /\ msg.entry \in Entry /\ staged[msg.to] \subseteq Entry
    BY DEF ShapeInv, NetShape, StoreShape, Message
  <1>2. \/ ToApply(msg) = msg.entry
        \/ ToApply(msg) \in staged[msg.to] /\ ToApply(msg).index = msg.entry.index
    BY DEF ToApply
  <1>3. \A e \in staged[msg.to] : e.index = msg.entry.index => ToApply(msg) = e
    <2>1. \A d, e \in staged[msg.to] : d.index = e.index => d = e
      BY <1>1 DEF ShapeInv, StoreShape
    <2>2. ASSUME NEW e \in staged[msg.to], e.index = msg.entry.index
          PROVE  ToApply(msg) \in staged[msg.to] /\ ToApply(msg).index = msg.entry.index
      BY <2>2 DEF ToApply
    <2>3. QED
      BY <2>1, <2>2
  <1>4. HasEntry(ToApply(msg))
    BY <1>1, <1>2 DEF HasEntry
  <1>5. QED
    BY <1>1, <1>2, <1>3, <1>4

\* The record of an entry.
LEMMA RecordOfEntry ==
    ASSUME NEW e \in Entry
    PROVE  EntryRecord(e) \in Record
  BY ReplicationAssumption DEF Entry, WriteId, EntryRecord, Absent, Record

\* A store after one record was put.
LEMMA PutStore ==
    ASSUME StoreShape, NEW n \in Node, NEW k \in Key, NEW rec \in Record, NEW cause,
           Put(n, k, rec, cause)
    PROVE  /\ store' \in [Node -> [Key -> Record]]
           /\ \A m \in Node : \A q \in Key : store'[m][q] = IF m = n /\ q = k THEN rec ELSE store[m][q]
  BY DEF StoreShape, Put

\* The writers after one of them moved.
LEMMA WriterChange ==
    ASSUME WriterShape, NEW n \in Node, NEW v \in WriterType \cup {NoWrite},
           v # NoWrite => WriterOK(n, v), writer' = [writer EXCEPT ![n] = v]
    PROVE  /\ WriterShape'
           /\ writer'[n] = v /\ \A m \in Node \ {n} : writer'[m] = writer[m]
  <1>1. /\ writer' \in [Node -> WriterType \cup {NoWrite}]
        /\ writer'[n] = v /\ \A m \in Node \ {n} : writer'[m] = writer[m]
    BY DEF WriterShape
  <1>2. \A m \in Node : writer'[m] # NoWrite => WriterOK(m, writer'[m])
    BY <1>1 DEF WriterShape
  <1>3. QED
    BY <1>1, <1>2 DEF WriterShape

\* The writers after a response: the one that waits for it counts it.
LEMMA ResponseShape ==
    ASSUME ShapeInv, NEW msg \in net, ReplicateResponse(msg)
    PROVE  /\ WriterShape'
           /\ \A n \in Node :
                \/ writer'[n] = writer[n]
                \/ /\ n = msg.entry.coord /\ writer[n] # NoWrite /\ writer'[n] # NoWrite
                   /\ writer[n].wait = msg.to /\ Message0(n, msg.to) = msg
                   /\ writer'[n] = [writer[n] EXCEPT !.wait = None, !.acks = @ + 1]
  <1>1. msg.to \in Node /\ msg.entry.coord \in Node /\ None \notin Node
    BY ReplicationAssumption DEF ShapeInv, NetShape, Message, Entry
  <1>2. PICK n \in Node : n = msg.entry.coord
    BY <1>1
  <1>3. CASE UNCHANGED writer
    BY <1>3 DEF ShapeInv, WriterShape
  <1>4. CASE /\ writer[n] # NoWrite
             /\ writer[n].wait = msg.to /\ Message0(n, msg.to) = msg
             /\ writer' = [writer EXCEPT ![n].wait = None, ![n].acks = @ + 1]
    <2>1. writer[n] \in WriterType /\ WriterOK(n, writer[n]) /\ writer[n].wait # None
      BY <1>1, <1>4, Shapes
    <2>2. PICK v : v = [writer[n] EXCEPT !.wait = None, !.acks = @ + 1]
      OBVIOUS
    <2>3. v \in WriterType /\ WriterOK(n, v)
      BY <2>1, <2>2, CallMoves
    <2>4. writer' = [writer EXCEPT ![n] = v]
      BY <1>4, <2>1, <2>2 DEF ShapeInv, WriterShape, WriterType
    <2>5. WriterShape' /\ writer'[n] = v /\ \A m \in Node \ {n} : writer'[m] = writer[m]
      BY <2>3, <2>4, WriterChange DEF ShapeInv
    <2>6. v # NoWrite
      BY <2>3, Shapes
    <2>7. QED
      BY <1>2, <1>4, <2>2, <2>5, <2>6
  <1>5. QED
    BY <1>2, <1>3, <1>4 DEF ReplicateResponse

-----------------------------------------------------------------------------
(* The types, for any leaders. *)

\* A write that starts is the next of the history.
LEMMA HistGrows ==
    ASSUME ShapeInv, NEW n \in Node, NEW op \in Ops, NEW k \in Key, Started(n, op, k)
    PROVE  /\ hist' \in Seq(HistEntry) /\ Len(hist') = Len(hist) + 1 /\ Len(hist') <= MaxWrites
           /\ \A i \in 1 .. Len(hist) : hist'[i] = hist[i]
           /\ hist'[Len(hist) + 1] = [op |-> op, key |-> k, seen |-> acked]
           /\ Len(hist) + 1 \in WriteId /\ Len(hist) + 1 \in 1 .. Len(hist')
           /\ 1 .. Len(hist) \subseteq 1 .. Len(hist')
           /\ seq' \in [Node -> 0 .. MaxWrites] /\ \A m \in Node : seq'[m] <= Len(hist')
           /\ seq'[n] = seq[n] + 1 /\ \A m \in Node \ {n} : seq'[m] = seq[m]
  <1>1. Len(hist) \in Nat /\ MaxWrites \in Nat /\ Len(hist) < MaxWrites /\ Ops \subseteq {"SET", "DELETE"}
    BY Shapes, ReplicationAssumption DEF Started
  <1>2. PICK h : h = [op |-> op, key |-> k, seen |-> acked]
    OBVIOUS
  <1>3. h \in HistEntry /\ hist \in Seq(HistEntry) /\ hist' = Append(hist, h)
    <2>1. acked \subseteq WriteId
      BY <1>1 DEF ShapeInv, HistShape, WriteId
    <2>2. QED
      BY <1>1, <1>2, <2>1 DEF HistEntry, ShapeInv, HistShape, Started
  <1>4. /\ hist' \in Seq(HistEntry) /\ Len(hist') = Len(hist) + 1
        /\ \A i \in 1 .. Len(hist) : hist'[i] = hist[i]
        /\ hist'[Len(hist) + 1] = h
    BY <1>3, AppendProperties
  <1>5. /\ seq' \in [Node -> 0 .. MaxWrites] /\ \A m \in Node : seq'[m] <= Len(hist')
        /\ seq'[n] = seq[n] + 1 /\ \A m \in Node \ {n} : seq'[m] = seq[m]
    <2>1. seq' = [seq EXCEPT ![n] = @ + 1] /\ seq \in [Node -> 0 .. MaxWrites]
          /\ \A m \in Node : seq[m] <= Len(hist)
      BY DEF Started, ShapeInv, StoreShape
    <2>2. QED
      BY <1>1, <1>4, <2>1
  <1>6. QED
    BY <1>1, <1>2, <1>4, <1>5 DEF WriteId

\* TypeOK is part of the shape.
LEMMA ShapeTypes ==
    ASSUME ShapeInv
    PROVE  TypeOK
  <1>1. Len(hist) \in Nat /\ MaxWrites \in Nat /\ Len(hist) <= MaxWrites /\ IsFiniteSet(Node)
    BY Shapes DEF ShapeInv, HistShape
  <1>2. ASSUME NEW n \in Node, writer[n] # NoWrite PROVE writer[n].acks <= Cardinality(writer[n].targets)
    <2>1. PICK w : w = writer[n]
      OBVIOUS
    <2>2. w \in WriterType /\ WriterOK(n, w)
      BY <1>2, <2>1, Shapes
    <2>3. IsFiniteSet(w.targets) /\ w.acks \in Nat
      BY <1>1, <2>2, FS_Subset, FS_CardinalityType DEF WriterType
    <2>4. w.targets \ (w.todo \cup {w.wait}) \in SUBSET w.targets
      OBVIOUS
    <2>5. /\ Cardinality(w.targets \ (w.todo \cup {w.wait})) <= Cardinality(w.targets)
          /\ Cardinality(w.targets \ (w.todo \cup {w.wait})) \in Nat /\ Cardinality(w.targets) \in Nat
      BY <2>3, <2>4, FS_Subset, FS_CardinalityType
    <2>6. w.acks <= Cardinality(w.targets \ (w.todo \cup {w.wait}))
      BY <2>2 DEF WriterOK
    <2>7. QED
      BY <2>1, <2>3, <2>5, <2>6
  <1>3. ASSUME NEW n \in Node PROVE \A i \in DOMAIN queue[n] : queue[n][i].entry \in Entry
    <2>1. queue[n] \in Seq(Queued)
      BY DEF ShapeInv, NetShape
    <2>2. ASSUME NEW i \in DOMAIN queue[n] PROVE queue[n][i].entry \in Entry
      <3>1. i \in 1 .. Len(queue[n])
        BY <2>1, LenProperties
      <3>2. queue[n][i] \in Queued
        BY <2>1, <3>1, ElementOfSeq
      <3>3. QED
        BY <3>2 DEF Queued
    <2>3. QED
      BY <2>2
  <1>4. acked \subseteq WriteId /\ failed \subseteq WriteId /\ committing \subseteq WriteId
    BY <1>1 DEF ShapeInv, HistShape, WriteId
  <1>5. \A n \in Node : /\ staged[n] \subseteq Entry
                        /\ writer[n] \in WriterType \cup {NoWrite}
                        /\ reader[n] \in ReaderType \cup {NoRead}
    BY DEF ShapeInv, StoreShape, WriterShape, ReaderShape
  <1>6. QED
    BY <1>2, <1>3, <1>4, <1>5 DEF TypeOK, ShapeInv, StoreShape, NetShape, HistShape

\* A write that starts.
LEMMA BeginShape ==
    ASSUME TypeInv, NEW n \in Node, NEW op \in Ops, NEW k \in Key, BeginWrite(n, op, k)
    PROVE  /\ ShapeInv'
           /\ writer'[n] \in WriterType /\ writer'[n].acks = 0
           /\ writer'[n].pc = IF Required(consistency) > 1 THEN "prepare" ELSE "commit"
           /\ writer'[n].wait = None /\ writer'[n].todo = writer'[n].targets
           /\ writer'[n].targets \in {v \ {n} : v \in View(n)}
           /\ writer'[n].entry = [id |-> Len(hist) + 1, op |-> op, key |-> k,
                   ver |-> NextVersion(n, k), index |-> seq[n] + 1, coord |-> n]
           /\ EntryOK(hist', writer'[n].entry)
           /\ \A m \in Node \ {n} : writer'[m] = writer[m]
           /\ \A e : HasEntry(e)' => HasEntry(e) \/ e = writer'[n].entry
  <1>1. PICK view \in View(n) :
            /\ writer' = [writer EXCEPT ![n] =
                   [pc |-> IF Required(consistency) > 1 THEN "prepare" ELSE "commit",
                    entry |-> [id |-> Len(hist) + 1, op |-> op, key |-> k,
                               ver |-> NextVersion(n, k), index |-> seq[n] + 1, coord |-> n],
                    targets |-> view \ {n}, todo |-> view \ {n}, wait |-> None, acks |-> 0]]
            /\ committing' = IF Required(consistency) > 1 THEN committing ELSE committing \cup {Len(hist) + 1}
            /\ queue' = IF consistency = "ONE" /\ view \ {n} # {}
                          THEN [queue EXCEPT ![n] =
                                  Append(@, [entry |-> [id |-> Len(hist) + 1, op |-> op, key |-> k,
                                                        ver |-> NextVersion(n, k), index |-> seq[n] + 1,
                                                        coord |-> n],
                                             targets |-> view \ {n}])]
                          ELSE queue
    BY DEF BeginWrite
  <1>2. PICK e : e = [id |-> Len(hist) + 1, op |-> op, key |-> k,
                      ver |-> NextVersion(n, k), index |-> seq[n] + 1, coord |-> n]
    OBVIOUS
  <1>3. PICK T : T = view \ {n}
    OBVIOUS
  <1>4. PICK w : w = [pc |-> IF Required(consistency) > 1 THEN "prepare" ELSE "commit",
                      entry |-> e, targets |-> T, todo |-> T, wait |-> None, acks |-> 0]
    OBVIOUS
  <1>5. /\ Len(hist) \in Nat /\ MaxWrites \in Nat /\ Len(hist) < MaxWrites /\ seq[n] \in Nat /\ seq[n] <= Len(hist)
        /\ Ops \subseteq {"SET", "DELETE"} /\ Views \subseteq SUBSET Node /\ None \notin Node
    BY Shapes, ReplicationAssumption DEF BeginWrite, Started, TypeInv, ShapeInv, StoreShape
  <1>6. T \subseteq Node /\ n \notin T /\ IsFiniteSet(T) /\ Cardinality(T) \in Nat
        /\ 0 \in 0 .. Cardinality(Node)
    BY <1>3, <1>5, ReplicationAssumption, FS_Subset, FS_CardinalityType DEF View
  <1>7. NextVersion(n, k) \in 1 .. Len(hist) + 1
    <2>1. HasCopy(k, store[n][k])
      BY DEF HasCopy
    <2>2. store[n][k].ver \in 0 .. Len(hist)
      BY <2>1 DEF TypeInv, SourceInv, RecordOK
    <2>3. QED
      BY <1>5, <2>2 DEF NextVersion
  <1>8. e \in Entry
    BY <1>2, <1>5, <1>7 DEF Entry, WriteId
  <1>9. w \in WriterType /\ w # NoWrite
    BY <1>4, <1>6, <1>8 DEF WriterType, NoWrite
  <1>10. WriterOK(n, w)
    <2>1. /\ w.todo = T /\ w.targets = T /\ w.wait = None /\ w.acks = 0 /\ w.entry = e
      BY <1>4
    <2>2. T \ (T \cup {None}) = {} /\ Cardinality({}) = 0 /\ e.coord = n
      BY <1>2, FS_EmptySet
    <2>3. w.acks <= Cardinality(w.targets \ (w.todo \cup {w.wait}))
      BY <2>1, <2>2
    <2>4. QED
      BY <1>5, <1>6, <2>1, <2>2, <2>3 DEF WriterOK
  <1>11. writer' = [writer EXCEPT ![n] = w]
    BY <1>1, <1>2, <1>3, <1>4
  <1>12. WriterShape' /\ writer'[n] = w /\ \A m \in Node \ {n} : writer'[m] = writer[m]
    BY <1>9, <1>10, <1>11, WriterChange DEF TypeInv, ShapeInv
  <1>13. /\ queue' \in [Node -> Seq(Queued)]
         /\ \A m \in Node : \A i \in 1 .. Len(queue'[m]) :
              queue'[m][i].entry = e \/ \E j \in 1 .. Len(queue[m]) : queue'[m][i] = queue[m][j]
    <2>1. queue \in [Node -> Seq(Queued)]
      BY DEF TypeInv, ShapeInv, NetShape
    <2>2. PICK q : q = [entry |-> e, targets |-> T]
      OBVIOUS
    <2>3. q \in Queued /\ q.entry = e
      BY <1>6, <1>8, <2>2 DEF Queued
    <2>4. CASE queue' = queue
      BY <2>1, <2>4
    <2>5. CASE queue' = [queue EXCEPT ![n] = Append(@, q)]
      <3>1. queue'[n] = Append(queue[n], q) /\ \A m \in Node \ {n} : queue'[m] = queue[m]
        BY <2>1, <2>5
      <3>2. /\ Append(queue[n], q) \in Seq(Queued) /\ Len(Append(queue[n], q)) = Len(queue[n]) + 1
            /\ Append(queue[n], q)[Len(queue[n]) + 1] = q /\ Len(queue[n]) \in Nat
            /\ \A i \in 1 .. Len(queue[n]) : Append(queue[n], q)[i] = queue[n][i]
        BY <2>1, <2>3, AppendProperties, LenProperties
      <3>3. queue' \in [Node -> Seq(Queued)]
        BY <2>1, <2>5, <3>2
      <3>4. ASSUME NEW m \in Node, NEW i \in 1 .. Len(queue'[m])
            PROVE  queue'[m][i].entry = e \/ \E j \in 1 .. Len(queue[m]) : queue'[m][i] = queue[m][j]
        <4>1. CASE m # n
          BY <3>1, <4>1
        <4>2. CASE m = n
          <5>1. i \in 1 .. Len(queue[n]) \/ i = Len(queue[n]) + 1
            BY <3>1, <3>2, <4>2
          <5>2. QED
            BY <2>3, <3>1, <3>2, <4>2, <5>1
        <4>3. QED
          BY <4>1, <4>2
      <3>5. QED
        BY <3>3, <3>4
    <2>6. QED
      BY <1>1, <1>2, <1>3, <2>2, <2>4, <2>5
  <1>14. /\ hist' \in Seq(HistEntry) /\ Len(hist') = Len(hist) + 1 /\ Len(hist') <= MaxWrites
         /\ hist'[Len(hist) + 1] = [op |-> op, key |-> k, seen |-> acked]
         /\ Len(hist) + 1 \in 1 .. Len(hist') /\ 1 .. Len(hist) \subseteq 1 .. Len(hist')
         /\ seq' \in [Node -> 0 .. MaxWrites] /\ \A m \in Node : seq'[m] <= Len(hist')
    BY HistGrows DEF BeginWrite, TypeInv
  <1>15. ShapeInv'
    <2>1. StoreShape'
      BY <1>14 DEF BeginWrite, TypeInv, ShapeInv, StoreShape
    <2>2. ReaderShape'
      BY DEF BeginWrite, TypeInv, ShapeInv, ReaderShape
    <2>3. NetShape'
      BY <1>13 DEF BeginWrite, TypeInv, ShapeInv, NetShape
    <2>4. HistShape'
      <3>1. committing' \subseteq 1 .. Len(hist')
        BY <1>1, <1>14 DEF TypeInv, ShapeInv, HistShape
      <3>2. QED
        BY <1>14, <3>1 DEF BeginWrite, TypeInv, ShapeInv, HistShape, outcome
    <2>5. QED
      BY <1>12, <2>1, <2>2, <2>3, <2>4 DEF ShapeInv
  <1>16. EntryOK(hist', e)
    <2>1. e.id = Len(hist) + 1 /\ e.ver = NextVersion(n, k) /\ e.index = seq[n] + 1 /\ e.key = k /\ e.op = op
      BY <1>2
    <2>2. QED
      BY <1>5, <1>7, <1>14, <2>1 DEF EntryOK
  <1>17. ASSUME NEW d, HasEntry(d)' PROVE HasEntry(d) \/ d = e
    <2>1. staged' = staged /\ net' = net
      BY DEF BeginWrite
    <2>2. ASSUME NEW m \in Node, writer'[m] # NoWrite, d = writer'[m].entry PROVE HasEntry(d) \/ d = e
      BY <1>4, <1>12, <2>2 DEF HasEntry
    <2>3. ASSUME NEW m \in Node, NEW i \in 1 .. Len(queue'[m]), d = queue'[m][i].entry
          PROVE  HasEntry(d) \/ d = e
      BY <1>13, <2>3 DEF HasEntry
    <2>4. QED
      BY <1>17, <2>1, <2>2, <2>3 DEF HasEntry
  <1>18. w.pc = (IF Required(consistency) > 1 THEN "prepare" ELSE "commit") /\ w.wait = None
         /\ w.todo = T /\ w.targets = T /\ w.acks = 0 /\ w.entry = e
    BY <1>4
  <1>19. QED
    BY <1>2, <1>3, <1>9, <1>12, <1>15, <1>16, <1>17, <1>18

\* The entries that a node, a message or the queue has.
LEMMA Held ==
    /\ \A n \in Node : writer[n] # NoWrite => HasEntry(writer[n].entry)
    /\ \A n \in Node : \A e \in staged[n] : HasEntry(e)
    /\ \A msg \in net : HasEntry(msg.entry)
    /\ \A n \in Node : \A i \in 1 .. Len(queue[n]) : HasEntry(queue[n][i].entry)
  BY DEF HasEntry

\* A step that only moves entries around makes no new one.
LEMMA NoNewEntry ==
    ASSUME \A n \in Node : writer'[n] # NoWrite => writer[n] # NoWrite /\ writer'[n].entry = writer[n].entry,
           \A n \in Node : \A e \in staged'[n] : HasEntry(e),
           \A msg \in net' : HasEntry(msg.entry),
           \A n \in Node : \A i \in 1 .. Len(queue'[n]) : HasEntry(queue'[n][i].entry)
    PROVE  \A e : HasEntry(e)' => HasEntry(e)
  <1>1. ASSUME NEW e, HasEntry(e)' PROVE HasEntry(e)
    <2>1. ASSUME NEW n \in Node, writer'[n] # NoWrite, e = writer'[n].entry PROVE HasEntry(e)
      BY <2>1 DEF HasEntry
    <2>2. QED
      BY <1>1, <2>1 DEF HasEntry
  <1>2. QED
    BY <1>1

\* A write sends or gives up on its next call.
LEMMA SendShape ==
    ASSUME ShapeInv, NEW n \in Node, NEW m \in Node, SendReplicate(n, m)
    PROVE  /\ ShapeInv'
           /\ \A e : HasEntry(e)' => HasEntry(e)
           /\ writer[n] \in WriterType /\ writer'[n] \in WriterType
           /\ \/ /\ writer'[n] = [writer[n] EXCEPT !.todo = @ \ {m}, !.wait = m]
                 /\ net' = net \cup {Message0(n, m)}
              \/ /\ writer'[n] = [writer[n] EXCEPT !.todo = @ \ {m}]
                 /\ net' = net
           /\ \A q \in Node \ {n} : writer'[q] = writer[q]
  <1>1. /\ writer[n] \in WriterType /\ WriterOK(n, writer[n]) /\ writer[n] # NoWrite
        /\ writer[n].wait = None /\ m \in writer[n].todo /\ writer \in [Node -> WriterType \cup {NoWrite}]
    BY Shapes DEF SendReplicate, ShapeInv, WriterShape
  <1>2. ASSUME NEW v, v \in {[writer[n] EXCEPT !.todo = @ \ {m}, !.wait = m], [writer[n] EXCEPT !.todo = @ \ {m}]},
               writer' = [writer EXCEPT ![n] = v]
        PROVE  WriterShape' /\ writer'[n] = v /\ v \in WriterType /\ v.entry = writer[n].entry
               /\ \A q \in Node \ {n} : writer'[q] = writer[q]
    <2>1. v \in WriterType /\ WriterOK(n, v)
      <3>1. PICK w : w = writer[n]
        OBVIOUS
      <3>2. w \in WriterType /\ WriterOK(n, w) /\ m \in w.todo /\ w.wait = None
        BY <1>1, <3>1
      <3>3. /\ [w EXCEPT !.todo = @ \ {m}, !.wait = m] \in WriterType
            /\ WriterOK(n, [w EXCEPT !.todo = @ \ {m}, !.wait = m])
            /\ [w EXCEPT !.todo = @ \ {m}] \in WriterType
            /\ WriterOK(n, [w EXCEPT !.todo = @ \ {m}])
        BY <3>2, CallMoves, Zenon
      <3>4. QED
        BY <1>2, <3>1, <3>3
    <2>2. v.entry = writer[n].entry
      BY <1>1, <1>2 DEF WriterType
    <2>3. QED
      BY <1>2, <2>1, <2>2, WriterChange DEF ShapeInv
  <1>3. /\ WriterShape' /\ writer'[n].entry = writer[n].entry /\ writer'[n] \in WriterType
        /\ \/ /\ writer'[n] = [writer[n] EXCEPT !.todo = @ \ {m}, !.wait = m]
              /\ net' = net \cup {Message0(n, m)}
           \/ /\ writer'[n] = [writer[n] EXCEPT !.todo = @ \ {m}]
              /\ net' = net
        /\ \A q \in Node \ {n} : writer'[q] = writer[q]
    <2>1. CASE /\ writer' = [writer EXCEPT ![n].todo = @ \ {m}, ![n].wait = m]
               /\ net' = net \cup {Message0(n, m)}
      <3>1. writer' = [writer EXCEPT ![n] = [writer[n] EXCEPT !.todo = @ \ {m}, !.wait = m]]
        BY <1>1, <2>1 DEF WriterType
      <3>2. QED
        BY <1>2, <2>1, <3>1
    <2>2. CASE writer' = [writer EXCEPT ![n].todo = @ \ {m}] /\ UNCHANGED net
      <3>1. writer' = [writer EXCEPT ![n] = [writer[n] EXCEPT !.todo = @ \ {m}]]
        BY <1>1, <2>2 DEF WriterType
      <3>2. QED
        BY <1>2, <2>2, <3>1
    <2>3. QED
      BY <2>1, <2>2 DEF SendReplicate
  <1>4. Message0(n, m) \in Message /\ Message0(n, m).entry = writer[n].entry
    BY <1>1 DEF Message0, Message, WriterType
  <1>5. ShapeInv'
    <2>1. NetShape'
      BY <1>3, <1>4 DEF SendReplicate, ShapeInv, NetShape
    <2>2. StoreShape' /\ ReaderShape' /\ HistShape'
      BY DEF SendReplicate, ShapeInv, StoreShape, ReaderShape, HistShape, nodeState, outcome
    <2>3. QED
      BY <1>3, <2>1, <2>2 DEF ShapeInv
  <1>6. \A e : HasEntry(e)' => HasEntry(e)
    <2>1. staged' = staged /\ queue' = queue
      BY DEF SendReplicate, nodeState
    <2>2. \A msg \in net' : HasEntry(msg.entry)
      BY <1>1, <1>3, <1>4, Held
    <2>3. \A q \in Node : writer'[q] # NoWrite => writer[q] # NoWrite /\ writer'[q].entry = writer[q].entry
      BY <1>1, <1>3
    <2>4. QED
      BY <2>1, <2>2, <2>3, Held, NoNewEntry
  <1>7. QED
    BY <1>1, <1>3, <1>5, <1>6

\* A call times out.
LEMMA TimeoutShape ==
    ASSUME ShapeInv, NEW n \in Node, ReplicateTimeout(n)
    PROVE  /\ ShapeInv'
           /\ \A e : HasEntry(e)' => HasEntry(e)
           /\ writer[n] # NoWrite /\ writer[n] \in WriterType
           /\ writer'[n] = [writer[n] EXCEPT !.wait = None]
           /\ \A q \in Node \ {n} : writer'[q] = writer[q]
  <1>1. /\ writer[n] \in WriterType /\ WriterOK(n, writer[n]) /\ writer[n] # NoWrite
        /\ writer \in [Node -> WriterType \cup {NoWrite}]
    BY Shapes DEF ReplicateTimeout, ShapeInv, WriterShape
  <1>2. PICK v : v = [writer[n] EXCEPT !.wait = None]
    OBVIOUS
  <1>3. v \in WriterType /\ WriterOK(n, v)
    BY <1>1, <1>2, CallMoves
  <1>4. v.entry = writer[n].entry
    BY <1>1, <1>2 DEF WriterType
  <1>5. writer' = [writer EXCEPT ![n] = v]
    BY <1>1, <1>2 DEF ReplicateTimeout, WriterType
  <1>6. WriterShape' /\ writer'[n] = v /\ \A q \in Node \ {n} : writer'[q] = writer[q]
    BY <1>3, <1>5, WriterChange DEF ShapeInv
  <1>7. ShapeInv'
    <2>1. StoreShape' /\ ReaderShape' /\ NetShape' /\ HistShape'
      BY DEF ReplicateTimeout, ShapeInv, StoreShape, ReaderShape, NetShape, HistShape, nodeState, outcome, messages
    <2>2. QED
      BY <1>6, <2>1 DEF ShapeInv
  <1>8. \A e : HasEntry(e)' => HasEntry(e)
    <2>1. staged' = staged /\ queue' = queue /\ net' = net
      BY DEF ReplicateTimeout, nodeState, messages
    <2>2. \A q \in Node : writer'[q] # NoWrite => writer[q] # NoWrite /\ writer'[q].entry = writer[q].entry
      BY <1>1, <1>4, <1>6
    <2>3. QED
      BY <2>1, <2>2, Held, NoNewEntry
  <1>9. QED
    BY <1>1, <1>2, <1>6, <1>7, <1>8

\* The prepares are over.
LEMMA PrepareDoneShape ==
    ASSUME TypeInv, NEW n \in Node, PrepareDone(n)
    PROVE  /\ ShapeInv'
           /\ \A e : HasEntry(e)' => HasEntry(e)
           /\ writer[n] # NoWrite /\ writer[n] \in WriterType /\ writer[n].wait = None
           /\ writer'[n] = NoWrite \/ writer'[n] = EnterCommit(writer[n])
           /\ \A q \in Node \ {n} : writer'[q] = writer[q]
  <1>0. ShapeInv
    BY DEF TypeInv
  <1>1. writer[n] # NoWrite
    BY <1>0, Shapes DEF PrepareDone, CallsDone
  <1>2. writer[n] \in WriterType /\ WriterOK(n, writer[n]) /\ writer[n].wait = None
    BY <1>0, <1>1, Shapes DEF PrepareDone, CallsDone
  <1>3. PICK v : writer' = [writer EXCEPT ![n] = v] /\ (v = NoWrite \/ v = EnterCommit(writer[n]))
    BY DEF PrepareDone
  <1>4. v \in WriterType \cup {NoWrite} /\ (v # NoWrite => WriterOK(n, v))
    BY <1>2, <1>3, CallMoves
  <1>5. v # NoWrite => v.entry = writer[n].entry
    BY <1>2, <1>3 DEF WriterType, EnterCommit
  <1>6. WriterShape' /\ writer'[n] = v /\ \A q \in Node \ {n} : writer'[q] = writer[q]
    BY <1>0, <1>3, <1>4, WriterChange DEF ShapeInv
  <1>7. ShapeInv'
    <2>1. StoreShape' /\ ReaderShape' /\ NetShape'
      BY <1>0 DEF PrepareDone, ShapeInv, StoreShape, ReaderShape, NetShape, nodeState, messages
    <2>2. HistShape'
      <3>1. writer[n].entry.id \in 1 .. Len(hist)
        BY <1>1, Held DEF TypeInv, SourceInv, EntryOK
      <3>2. QED
        BY <1>0, <3>1 DEF PrepareDone, ShapeInv, HistShape, nodeState
    <2>3. QED
      BY <1>6, <2>1, <2>2 DEF ShapeInv
  <1>8. \A e : HasEntry(e)' => HasEntry(e)
    <2>1. staged' = staged /\ queue' = queue /\ net' = net
      BY DEF PrepareDone, nodeState, messages
    <2>2. \A q \in Node : writer'[q] # NoWrite => writer[q] # NoWrite /\ writer'[q].entry = writer[q].entry
      BY <1>1, <1>5, <1>6
    <2>3. QED
      BY <2>1, <2>2, Held, NoNewEntry
  <1>9. QED
    BY <1>1, <1>2, <1>3, <1>6, <1>7, <1>8

\* The commits are over.
LEMMA CommitDoneShape ==
    ASSUME TypeInv, NEW n \in Node, CommitDone(n)
    PROVE  /\ ShapeInv'
           /\ \A e : HasEntry(e)' => HasEntry(e)
           /\ writer[n] # NoWrite /\ writer[n] \in WriterType
           /\ writer'[n] = NoWrite
           /\ \A q \in Node \ {n} : writer'[q] = writer[q]
           /\ \/ store' = store
              \/ \A m \in Node : \A q \in Key :
                    store'[m][q] = IF m = n /\ q = writer[n].entry.key THEN EntryRecord(writer[n].entry)
                                   ELSE store[m][q]
  <1>0. ShapeInv
    BY DEF TypeInv
  <1>1. writer[n] # NoWrite
    BY <1>0, Shapes DEF CommitDone, CallsDone
  <1>2. writer[n] \in WriterType /\ writer[n].entry \in Entry /\ writer[n].entry.key \in Key
    BY <1>0, <1>1, Shapes DEF WriterType, Entry
  <1>3. WriterShape' /\ writer'[n] = NoWrite /\ \A q \in Node \ {n} : writer'[q] = writer[q]
    BY <1>0, WriterChange DEF CommitDone, ShapeInv
  <1>4. /\ store' \in [Node -> [Key -> Record]]
        /\ \/ store' = store
           \/ \A m \in Node : \A q \in Key :
                 store'[m][q] = IF m = n /\ q = writer[n].entry.key THEN EntryRecord(writer[n].entry)
                                ELSE store[m][q]
    <2>1. CASE UNCHANGED store
      BY <1>0, <2>1 DEF ShapeInv, StoreShape
    <2>2. CASE Put(n, writer[n].entry.key, EntryRecord(writer[n].entry), "commit")
      BY <1>0, <1>2, <2>2, RecordOfEntry, PutStore DEF ShapeInv
    <2>3. QED
      BY <2>1, <2>2 DEF CommitDone, ApplyEntry
  <1>5. ShapeInv'
    <2>1. StoreShape' /\ ReaderShape' /\ NetShape'
      BY <1>0, <1>4 DEF CommitDone, ShapeInv, StoreShape, ReaderShape, NetShape, messages
    <2>2. HistShape'
      <3>1. writer[n].entry.id \in 1 .. Len(hist)
        BY <1>1, Held DEF TypeInv, SourceInv, EntryOK
      <3>2. acked' \subseteq acked \cup {writer[n].entry.id} /\ failed' \subseteq failed \cup {writer[n].entry.id}
        BY DEF CommitDone
      <3>3. /\ consistency' = consistency /\ leaders' = leaders /\ hist' = hist /\ committing' = committing
            /\ reads' = reads /\ restarts' = restarts
        BY DEF CommitDone
      <3>4. QED
        BY <1>0, <3>1, <3>2, <3>3 DEF ShapeInv, HistShape
    <2>3. QED
      BY <1>3, <2>1, <2>2 DEF ShapeInv
  <1>6. \A e : HasEntry(e)' => HasEntry(e)
    <2>1. staged' = staged /\ queue' = queue /\ net' = net
      BY DEF CommitDone, messages
    <2>2. QED
      BY <1>3, <2>1, Held, NoNewEntry
  <1>7. QED
    BY <1>1, <1>2, <1>3, <1>4, <1>5, <1>6

\* The async loop takes a write from the queue.
LEMMA AsyncShape ==
    ASSUME ShapeInv, NEW n \in Node, AsyncReplicate(n)
    PROVE  /\ ShapeInv'
           /\ \A e : HasEntry(e)' => HasEntry(e)
           /\ \A msg \in net' : msg \in net \/ msg.phase = "prepare"
  <1>1. PICK s : s = queue[n]
    OBVIOUS
  <1>2. s \in Seq(Queued) /\ s # <<>> /\ queue \in [Node -> Seq(Queued)]
    BY <1>1 DEF AsyncReplicate, ShapeInv, NetShape
  <1>3. /\ Len(s) \in Nat /\ Len(s) # 0 /\ Head(s) \in Queued /\ Head(s) = s[1] /\ 1 \in 1 .. Len(s)
    BY <1>2, HeadTailProperties, EmptySeq, LenProperties
  <1>4. /\ Tail(s) \in Seq(Queued) /\ Len(Tail(s)) = Len(s) - 1
        /\ \A i \in 1 .. Len(Tail(s)) : Tail(s)[i] = s[i + 1] /\ i + 1 \in 1 .. Len(s)
    <2>1. Tail(s) \in Seq(Queued) /\ Len(Tail(s)) = Len(s) - 1
          /\ \A i \in 1 .. Len(Tail(s)) : Tail(s)[i] = s[i + 1]
      BY <1>2, HeadTailProperties
    <2>2. QED
      BY <1>3, <2>1
  <1>5. PICK reached \in SUBSET s[1].targets :
            net' = net \cup {[phase |-> "prepare", to |-> m, entry |-> s[1].entry] : m \in reached}
    <2>1. \E reached \in SUBSET Head(queue[n]).targets :
            net' = net \cup {[phase |-> "prepare", to |-> m, entry |-> Head(queue[n]).entry] : m \in reached}
      BY DEF AsyncReplicate
    <2>2. PICK h : h = Head(queue[n])
      OBVIOUS
    <2>3. \E reached \in SUBSET h.targets :
            net' = net \cup {[phase |-> "prepare", to |-> m, entry |-> h.entry] : m \in reached}
      BY <2>1, <2>2
    <2>4. h = s[1]
      BY <1>1, <1>3, <2>2
    <2>5. QED
      BY <2>3, <2>4
  <1>6. s[1].entry \in Entry /\ s[1].targets \subseteq Node /\ HasEntry(s[1].entry)
    BY <1>1, <1>3, Held DEF Queued
  <1>7. queue' = [queue EXCEPT ![n] = Tail(s)]
    BY <1>1 DEF AsyncReplicate
  <1>8. ShapeInv'
    <2>1. NetShape'
      <3>1. net' \subseteq Message
        BY <1>5, <1>6 DEF Message, ShapeInv, NetShape
      <3>2. queue' \in [Node -> Seq(Queued)]
        BY <1>2, <1>4, <1>7
      <3>3. QED
        BY <3>1, <3>2 DEF AsyncReplicate, ShapeInv, NetShape
    <2>2. StoreShape' /\ WriterShape' /\ ReaderShape' /\ HistShape'
      BY DEF AsyncReplicate, ShapeInv, StoreShape, WriterShape, ReaderShape, HistShape, nodeState, outcome
    <2>3. QED
      BY <2>1, <2>2 DEF ShapeInv
  <1>9. \A e : HasEntry(e)' => HasEntry(e)
    <2>1. staged' = staged /\ writer' = writer
      BY DEF AsyncReplicate, nodeState
    <2>2. \A msg \in net' : HasEntry(msg.entry)
      BY <1>5, <1>6, Held
    <2>3. ASSUME NEW m \in Node, NEW i \in 1 .. Len(queue'[m]) PROVE HasEntry(queue'[m][i].entry)
      <3>1. CASE m = n
        BY <1>1, <1>2, <1>4, <1>7, <3>1, Held
      <3>2. CASE m # n
        BY <1>2, <1>7, <3>2, Held
      <3>3. QED
        BY <3>1, <3>2
    <2>4. QED
      BY <2>1, <2>2, <2>3, Held, NoNewEntry
  <1>10. QED
    BY <1>5, <1>8, <1>9

\* A PREPARE is handled.
LEMMA PrepareShape ==
    ASSUME ShapeInv, NEW msg \in net, HandlePrepare(msg)
    PROVE  /\ ShapeInv'
           /\ \A e : HasEntry(e)' => HasEntry(e)
           /\ net' = net \ {msg}
  <1>1. msg.to \in Node /\ msg.entry \in Entry
    BY ToApplyIs
  <1>2. WriterShape'
        /\ \A n \in Node : writer'[n] # NoWrite => writer[n] # NoWrite /\ writer'[n].entry = writer[n].entry
    <2>1. WriterShape'
          /\ \A n \in Node :
                \/ writer'[n] = writer[n]
                \/ writer[n] # NoWrite /\ writer'[n] = [writer[n] EXCEPT !.wait = None, !.acks = @ + 1]
      BY ResponseShape DEF HandlePrepare
    <2>2. \A n \in Node : writer[n] # NoWrite => writer[n] \in WriterType
      BY Shapes
    <2>3. QED
      BY <2>1, <2>2 DEF WriterType
  <1>3. /\ staged' \in [Node -> SUBSET Entry]
        /\ \A n \in Node : \A e \in staged'[n] :
             \/ e \in staged[n] /\ (n = msg.to => e.index # msg.entry.index)
             \/ n = msg.to /\ e = msg.entry
    <2>1. PICK S : S = {e \in staged[msg.to] : e.index # msg.entry.index} \cup {msg.entry}
      OBVIOUS
    <2>2. staged' = [staged EXCEPT ![msg.to] = S] /\ staged \in [Node -> SUBSET Entry]
      BY <2>1 DEF HandlePrepare, ShapeInv, StoreShape
    <2>3. S \subseteq Entry /\ \A e \in S : (e \in staged[msg.to] /\ e.index # msg.entry.index) \/ e = msg.entry
      BY <1>1, <2>1, <2>2
    <2>4. staged' \in [Node -> SUBSET Entry]
      BY <2>2, <2>3
    <2>5. \A n \in Node : staged'[n] = IF n = msg.to THEN S ELSE staged[n]
      BY <1>1, <2>2
    <2>6. QED
      BY <2>3, <2>4, <2>5
  <1>4. ShapeInv'
    <2>1. StoreShape'
      <3>1. ASSUME NEW n \in Node, NEW d \in staged'[n], NEW e \in staged'[n], d.index = e.index PROVE d = e
        BY <1>3, <3>1 DEF ShapeInv, StoreShape
      <3>2. QED
        BY <1>3, <3>1 DEF HandlePrepare, ShapeInv, StoreShape
    <2>2. ReaderShape' /\ NetShape' /\ HistShape'
      BY DEF HandlePrepare, ShapeInv, ReaderShape, NetShape, HistShape, outcome
    <2>3. QED
      BY <1>2, <2>1, <2>2 DEF ShapeInv
  <1>5. \A e : HasEntry(e)' => HasEntry(e)
    <2>1. queue' = queue /\ net' \subseteq net
      BY DEF HandlePrepare
    <2>2. \A n \in Node : \A e \in staged'[n] : HasEntry(e)
      BY <1>3, Held
    <2>3. QED
      BY <1>2, <2>1, <2>2, Held, NoNewEntry
  <1>6. QED
    BY <1>4, <1>5 DEF HandlePrepare

\* A COMMIT is handled.
LEMMA CommitShape ==
    ASSUME ShapeInv, NEW msg \in net, HandleCommit(msg)
    PROVE  /\ ShapeInv'
           /\ \A e : HasEntry(e)' => HasEntry(e)
           /\ net' = net \ {msg}
           /\ \A m \in Node : \A q \in Key :
                 store'[m][q] = IF m = msg.to /\ q = ToApply(msg).key THEN EntryRecord(ToApply(msg))
                                ELSE store[m][q]
  <1>1. msg.to \in Node /\ msg.entry \in Entry /\ ToApply(msg) \in Entry /\ ToApply(msg).key \in Key
    BY ToApplyIs DEF Entry
  <1>2. WriterShape'
        /\ \A n \in Node : writer'[n] # NoWrite => writer[n] # NoWrite /\ writer'[n].entry = writer[n].entry
    <2>1. WriterShape'
          /\ \A n \in Node :
                \/ writer'[n] = writer[n]
                \/ writer[n] # NoWrite /\ writer'[n] = [writer[n] EXCEPT !.wait = None, !.acks = @ + 1]
      BY ResponseShape DEF HandleCommit
    <2>2. \A n \in Node : writer[n] # NoWrite => writer[n] \in WriterType
      BY Shapes
    <2>3. QED
      BY <2>1, <2>2 DEF WriterType
  <1>3. staged' \in [Node -> SUBSET Entry] /\ \A n \in Node : staged'[n] \subseteq staged[n]
    BY <1>1 DEF HandleCommit, ShapeInv, StoreShape
  <1>4. /\ store' \in [Node -> [Key -> Record]]
        /\ \A m \in Node : \A q \in Key :
              store'[m][q] = IF m = msg.to /\ q = ToApply(msg).key THEN EntryRecord(ToApply(msg))
                             ELSE store[m][q]
    <2>1. Put(msg.to, ToApply(msg).key, EntryRecord(ToApply(msg)), "commit")
      BY DEF HandleCommit, ApplyEntry
    <2>2. QED
      BY <1>1, <2>1, RecordOfEntry, PutStore DEF ShapeInv
  <1>5. ShapeInv'
    <2>1. StoreShape'
      BY <1>3, <1>4 DEF HandleCommit, ShapeInv, StoreShape
    <2>2. ReaderShape' /\ NetShape' /\ HistShape'
      BY DEF HandleCommit, ShapeInv, ReaderShape, NetShape, HistShape, outcome
    <2>3. QED
      BY <1>2, <2>1, <2>2 DEF ShapeInv
  <1>6. \A e : HasEntry(e)' => HasEntry(e)
    <2>1. queue' = queue /\ net' \subseteq net
      BY DEF HandleCommit
    <2>2. \A n \in Node : \A e \in staged'[n] : HasEntry(e)
      BY <1>3, Held
    <2>3. QED
      BY <1>2, <2>1, <2>2, Held, NoNewEntry
  <1>7. QED
    BY <1>4, <1>5, <1>6 DEF HandleCommit

\* A GET starts.
LEMMA StartReadShape ==
    ASSUME ShapeInv, NEW c \in Node, NEW k \in Key, NEW level \in ReadLevels, StartRead(c, k, level)
    PROVE  ShapeInv'
  <1>1. PICK r : r = [pc |-> "reading", key |-> k, level |-> level, seen |-> acked,
                      todo |-> Replicas[k] \ {c},
                      got |-> IF c \in Replicas[k] THEN {LocalRead(c, k)} ELSE {}]
    OBVIOUS
  <1>2. LocalRead(c, k) \in Answer
    BY DEF LocalRead, Answer, ShapeInv, StoreShape
  <1>3. acked \subseteq WriteId
    BY ShapeTypes DEF TypeOK
  <1>4. Replicas[k] \subseteq Node
    BY ReplicationAssumption
  <1>5. (IF c \in Replicas[k] THEN {LocalRead(c, k)} ELSE {}) \in SUBSET Answer
    BY <1>2
  <1>6. r \in ReaderType
    BY <1>1, <1>3, <1>4, <1>5 DEF ReaderType
  <1>7. ReaderShape'
    BY <1>1, <1>6 DEF StartRead, ShapeInv, ReaderShape
  <1>8. HistShape'
    <2>1. reads' \in 0 .. MaxReads
      BY ReplicationAssumption DEF StartRead, ShapeInv, HistShape
    <2>2. QED
      BY <2>1 DEF StartRead, ShapeInv, HistShape, nodeState, outcome
  <1>9. StoreShape' /\ WriterShape' /\ NetShape'
    BY DEF StartRead, ShapeInv, StoreShape, WriterShape, NetShape, nodeState, messages
  <1>10. QED
    BY <1>7, <1>8, <1>9 DEF ShapeInv

\* A replica answers a GET, or is not reached.
LEMMA RemoteReadShape ==
    ASSUME ShapeInv, NEW c \in Node, NEW m \in Node, RemoteRead(c, m)
    PROVE  /\ ShapeInv'
           /\ reader[c] # NoRead /\ reader[c] \in ReaderType /\ m \in reader[c].todo
           /\ \E real \in BOOLEAN :
                reader'[c] = [reader[c] EXCEPT !.todo = @ \ {m},
                    !.got = @ \cup {[node |-> m, real |-> real,
                                     rec |-> IF real THEN store[m][reader[c].key] ELSE Absent]}]
           /\ \A q \in Node \ {c} : reader'[q] = reader[q]
  <1>1. reader[c] # NoRead /\ reader[c] \in ReaderType /\ m \in reader[c].todo
        /\ reader \in [Node -> ReaderType \cup {NoRead}]
    BY Shapes DEF RemoteRead, ShapeInv, ReaderShape
  <1>2. PICK real \in BOOLEAN :
            reader' = [reader EXCEPT
             ![c].todo = @ \ {m},
             ![c].got = @ \cup {[node |-> m, rec |-> IF real THEN store[m][reader[c].key] ELSE Absent,
                                 real |-> real]}]
    BY DEF RemoteRead
  <1>3. PICK a : a = [node |-> m, rec |-> IF real THEN store[m][reader[c].key] ELSE Absent, real |-> real]
    OBVIOUS
  <1>4. a \in Answer
    <2>1. store[m][reader[c].key] \in Record /\ Absent \in Record
      BY <1>1, Shapes DEF ShapeInv, StoreShape, ReaderType
    <2>2. QED
      BY <1>3, <2>1 DEF Answer
  <1>5. PICK r : r = [reader[c] EXCEPT !.todo = @ \ {m}, !.got = @ \cup {a}]
    OBVIOUS
  <1>6. r \in ReaderType
    BY <1>1, <1>4, <1>5 DEF ReaderType
  <1>7. reader' = [reader EXCEPT ![c] = r]
    BY <1>1, <1>2, <1>3, <1>5 DEF ReaderType
  <1>8. ReaderShape' /\ reader'[c] = r /\ \A q \in Node \ {c} : reader'[q] = reader[q]
    BY <1>1, <1>6, <1>7 DEF ReaderShape
  <1>9. StoreShape' /\ WriterShape' /\ NetShape' /\ HistShape'
    BY DEF RemoteRead, ShapeInv, StoreShape, WriterShape, NetShape, HistShape, nodeState, messages, outcome
  <1>10. r = [reader[c] EXCEPT !.todo = @ \ {m},
                    !.got = @ \cup {[node |-> m, real |-> real,
                                     rec |-> IF real THEN store[m][reader[c].key] ELSE Absent]}]
    BY <1>3, <1>5
  <1>11. QED
    BY <1>1, <1>8, <1>9, <1>10 DEF ShapeInv

\* A GET ends.
LEMMA ReadEndShape ==
    ASSUME ShapeInv, NEW c \in Node, ReadFails(c) \/ FinishRead(c)
    PROVE  /\ ShapeInv'
           /\ reader' = [reader EXCEPT ![c] = NoRead]
  <1>1. reader' = [reader EXCEPT ![c] = NoRead]
    BY DEF ReadFails, FinishRead
  <1>2. ReaderShape'
    BY <1>1 DEF ShapeInv, ReaderShape
  <1>3. StoreShape' /\ WriterShape' /\ HistShape'
    BY DEF ReadFails, FinishRead, ShapeInv, StoreShape, WriterShape, HistShape, nodeState, outcome
  <1>4. NetShape'
    <2>1. CASE ReadFails(c)
      BY <2>1 DEF ReadFails, ShapeInv, NetShape, messages
    <2>2. CASE FinishRead(c)
      <3>1. PICK sent \in SUBSET RepairsFor(reader[c].key, reader[c].got) : repairs' = repairs \cup sent
        BY <2>2 DEF FinishRead
      <3>2. reader[c].got \in SUBSET Answer /\ reader[c].key \in Key
        BY <2>2, Shapes DEF FinishRead, ReaderType
      <3>3. RepairsFor(reader[c].key, reader[c].got) \subseteq Repair
        BY <3>2, BestFacts
      <3>4. QED
        BY <2>2, <3>1, <3>3 DEF FinishRead, ShapeInv, NetShape
    <2>3. QED
      BY <2>1, <2>2
  <1>5. QED
    BY <1>1, <1>2, <1>3, <1>4 DEF ShapeInv

\* A repair is compared with the record it would replace.
LEMMA RepairCheckShape ==
    ASSUME ShapeInv, NEW p \in repairs, RepairCheck(p)
    PROVE  /\ ShapeInv'
           /\ \A q \in repairs' : q \in repairs \/ (q.to = p.to /\ q.key = p.key /\ q.rec = p.rec)
  <1>1. p \in Repair
    BY DEF ShapeInv, NetShape
  <1>2. PICK d : d = [p EXCEPT !.checked = TRUE]
    OBVIOUS
  <1>3. d \in Repair /\ d.to = p.to /\ d.key = p.key /\ d.rec = p.rec
    BY <1>1, <1>2 DEF Repair
  <1>4. repairs' \subseteq repairs \cup {d}
    BY <1>2 DEF RepairCheck
  <1>5. NetShape'
    BY <1>3, <1>4 DEF RepairCheck, ShapeInv, NetShape
  <1>6. StoreShape' /\ WriterShape' /\ ReaderShape' /\ HistShape'
    BY DEF RepairCheck, ShapeInv, StoreShape, WriterShape, ReaderShape, HistShape, nodeState, outcome
  <1>7. QED
    BY <1>3, <1>4, <1>5, <1>6 DEF ShapeInv

\* A repair is written.
LEMMA RepairSetShape ==
    ASSUME ShapeInv, NEW p \in repairs, RepairSet(p)
    PROVE  /\ ShapeInv'
           /\ p.to \in Node /\ p.key \in Key
           /\ \A m \in Node : \A q \in Key :
                 store'[m][q] = IF m = p.to /\ q = p.key THEN p.rec ELSE store[m][q]
  <1>1. p \in Repair /\ p.to \in Node /\ p.key \in Key /\ p.rec \in Record
    BY DEF ShapeInv, NetShape, Repair
  <1>2. /\ store' \in [Node -> [Key -> Record]]
        /\ \A m \in Node : \A q \in Key :
              store'[m][q] = IF m = p.to /\ q = p.key THEN p.rec ELSE store[m][q]
    BY <1>1, PutStore DEF RepairSet, ShapeInv
  <1>3. StoreShape' /\ NetShape'
    BY <1>2 DEF RepairSet, ShapeInv, StoreShape, NetShape
  <1>4. WriterShape' /\ ReaderShape' /\ HistShape'
    BY DEF RepairSet, ShapeInv, WriterShape, ReaderShape, HistShape, outcome
  <1>5. QED
    BY <1>1, <1>2, <1>3, <1>4 DEF ShapeInv

\* A process restarts.
LEMMA RestartShape ==
    ASSUME ShapeInv, NEW n \in Node, Restart(n)
    PROVE  /\ ShapeInv'
           /\ \A e : HasEntry(e)' => HasEntry(e)
  <1>0. Len(hist) \in Nat /\ MaxWrites \in Nat /\ MaxRestarts \in Nat
    BY Shapes, ReplicationAssumption
  <1>1. WriterShape' /\ \A m \in Node : writer'[m] = writer[m] \/ writer'[m] = NoWrite
    BY DEF Restart, ShapeInv, WriterShape
  <1>2. ReaderShape'
    BY DEF Restart, ShapeInv, ReaderShape
  <1>3. StoreShape' /\ \A m \in Node : staged'[m] \subseteq staged[m]
    <2>1. staged' \in [Node -> SUBSET Entry] /\ \A m \in Node : staged'[m] \subseteq staged[m]
      BY DEF Restart, ShapeInv, StoreShape
    <2>2. seq' \in [Node -> 0 .. MaxWrites] /\ \A m \in Node : seq'[m] <= Len(hist)
      BY <1>0 DEF Restart, ShapeInv, StoreShape
    <2>3. QED
      BY <2>1, <2>2 DEF Restart, ShapeInv, StoreShape
  <1>4. NetShape' /\ \A m \in Node : queue'[m] = queue[m] \/ queue'[m] = <<>>
    BY DEF Restart, ShapeInv, NetShape
  <1>5. HistShape'
    BY <1>0 DEF Restart, ShapeInv, HistShape, outcome
  <1>6. \A e : HasEntry(e)' => HasEntry(e)
    <2>1. \A m \in Node : \A i \in 1 .. Len(queue'[m]) : HasEntry(queue'[m][i].entry)
      BY <1>4, Held
    <2>2. \A m \in Node : \A e \in staged'[m] : HasEntry(e)
      BY <1>3, Held
    <2>3. net' \subseteq net
      BY DEF Restart
    <2>4. QED
      BY <1>1, <2>1, <2>2, <2>3, Held, NoNewEntry
  <1>7. QED
    BY <1>1, <1>2, <1>3, <1>4, <1>5, <1>6 DEF ShapeInv

\* Every step keeps the shape, and only a write that starts makes an entry.
LEMMA StepShape ==
    ASSUME TypeInv, [Next]_vars
    PROVE  /\ ShapeInv'
           /\ \/ \A e : HasEntry(e)' => HasEntry(e)
              \/ \E n \in Node, op \in Ops, k \in Key : BeginWrite(n, op, k)
  <1> DEFINE Goal == /\ ShapeInv'
                     /\ \/ \A e : HasEntry(e)' => HasEntry(e)
                        \/ \E n \in Node, op \in Ops, k \in Key : BeginWrite(n, op, k)
  <1>0. ShapeInv
    BY DEF TypeInv
  <1>1. ASSUME UNCHANGED <<writer, staged, net, queue>> PROVE \A e : HasEntry(e)' => HasEntry(e)
    BY <1>1 DEF HasEntry
  <1>2. CASE UNCHANGED vars
    <2>1. UNCHANGED <<writer, staged, net, queue>>
      BY <1>2 DEF vars, nodeState, messages
    <2>2. ShapeInv'
      BY <1>0, <1>2 DEF vars, nodeState, messages, outcome, ShapeInv, StoreShape, WriterShape, ReaderShape,
                        NetShape, HistShape
    <2>3. QED
      BY <1>1, <2>1, <2>2
  <1>3. ASSUME NEW n \in Node, NEW op \in Ops, NEW k \in Key, RefuseWrite(n, op, k) PROVE Goal
    <2>1. Started(n, op, k)
      BY <1>3 DEF RefuseWrite
    <2>2. /\ hist' \in Seq(HistEntry) /\ Len(hist') <= MaxWrites
          /\ Len(hist) + 1 \in 1 .. Len(hist') /\ 1 .. Len(hist) \subseteq 1 .. Len(hist')
          /\ seq' \in [Node -> 0 .. MaxWrites] /\ \A m \in Node : seq'[m] <= Len(hist')
      BY <1>0, <2>1, HistGrows
    <2>3. StoreShape' /\ HistShape'
      BY <1>0, <1>3, <2>2 DEF RefuseWrite, ShapeInv, StoreShape, HistShape
    <2>4. WriterShape' /\ ReaderShape' /\ NetShape'
      BY <1>0, <1>3 DEF RefuseWrite, ShapeInv, WriterShape, ReaderShape, NetShape, messages
    <2>5. UNCHANGED <<writer, staged, net, queue>>
      BY <1>3 DEF RefuseWrite, messages
    <2>6. QED
      BY <1>1, <2>3, <2>4, <2>5 DEF ShapeInv
  <1>4. ASSUME NEW n \in Node, NEW op \in Ops, NEW k \in Key, BeginWrite(n, op, k) PROVE Goal
    BY <1>4, BeginShape
  <1>5. ASSUME NEW n \in Node, WriterStep(n) PROVE Goal
    BY <1>0, <1>5, SendShape, TimeoutShape, PrepareDoneShape, CommitDoneShape DEF WriterStep
  <1>6. ASSUME NEW n \in Node, AsyncReplicate(n) PROVE Goal
    BY <1>0, <1>6, AsyncShape
  <1>7. ASSUME NEW n \in Node, NEW k \in Key, NEW level \in ReadLevels, StartRead(n, k, level) PROVE Goal
    <2>1. UNCHANGED <<writer, staged, net, queue>>
      BY <1>7 DEF StartRead, nodeState, messages
    <2>2. QED
      BY <1>0, <1>1, <1>7, <2>1, StartReadShape
  <1>8. ASSUME NEW n \in Node, ReaderStep(n) PROVE Goal
    <2>1. UNCHANGED <<writer, staged, net, queue>>
      BY <1>8 DEF ReaderStep, ReadFails, FinishRead, RemoteRead, nodeState, messages
    <2>2. ShapeInv'
      BY <1>0, <1>8, RemoteReadShape, ReadEndShape DEF ReaderStep
    <2>3. QED
      BY <1>1, <2>1, <2>2
  <1>9. ASSUME NEW n \in Node, Restart(n) PROVE Goal
    BY <1>0, <1>9, RestartShape
  <1>10. ASSUME NEW msg \in net, HandlePrepare(msg) \/ HandleCommit(msg) PROVE Goal
    BY <1>0, <1>10, PrepareShape, CommitShape
  <1>11. ASSUME NEW p \in repairs, RepairCheck(p) \/ RepairSet(p) PROVE Goal
    <2>1. UNCHANGED <<writer, staged, net, queue>>
      BY <1>11 DEF RepairCheck, RepairSet, nodeState
    <2>2. QED
      BY <1>0, <1>1, <1>11, <2>1, RepairCheckShape, RepairSetShape
  <1>12. CASE LeaderChange
    <2>1. UNCHANGED <<writer, staged, net, queue>>
      BY <1>12 DEF LeaderChange, messages
    <2>2. ShapeInv'
      BY <1>0, <1>12 DEF LeaderChange, messages, outcome, ShapeInv, StoreShape, WriterShape, ReaderShape,
                         NetShape, HistShape
    <2>3. QED
      BY <1>1, <2>1, <2>2
  <1>13. QED
    BY <1>2, <1>3, <1>4, <1>5, <1>6, <1>7, <1>8, <1>9, <1>10, <1>11, <1>12 DEF Next

\* The history only grows, by the writes that start.
LEMMA HistKept ==
    ASSUME ShapeInv, [Next]_vars
    PROVE  /\ Len(hist) \in Nat /\ Len(hist') \in Nat /\ Len(hist) <= Len(hist')
           /\ \A i \in 1 .. Len(hist) : i \in 1 .. Len(hist') /\ hist'[i] = hist[i]
           /\ hist' = hist \/ \E n \in Node, op \in Ops, k \in Key : Started(n, op, k)
  <1>1. hist' = hist \/ \E n \in Node, op \in Ops, k \in Key : Started(n, op, k)
    <2>1. ASSUME NEW n \in Node, WriterStep(n) PROVE hist' = hist
      BY <2>1 DEF WriterStep, SendReplicate, ReplicateTimeout, PrepareDone, CommitDone
    <2>2. ASSUME NEW n \in Node, ReaderStep(n) PROVE hist' = hist
      BY <2>2 DEF ReaderStep, ReadFails, FinishRead, RemoteRead
    <2>3. ASSUME NEW n \in Node, \E k \in Key, level \in ReadLevels : StartRead(n, k, level) PROVE hist' = hist
      BY <2>3 DEF StartRead
    <2>4. ASSUME NEW n \in Node, AsyncReplicate(n) \/ Restart(n) PROVE hist' = hist
      BY <2>4 DEF AsyncReplicate, Restart
    <2>5. ASSUME NEW msg \in net, HandlePrepare(msg) \/ HandleCommit(msg) PROVE hist' = hist
      BY <2>5 DEF HandlePrepare, HandleCommit
    <2>6. ASSUME NEW p \in repairs, RepairCheck(p) \/ RepairSet(p) PROVE hist' = hist
      BY <2>6 DEF RepairCheck, RepairSet
    <2>7. CASE LeaderChange \/ UNCHANGED vars
      BY <2>7 DEF LeaderChange, vars
    <2>8. ASSUME NEW n \in Node, NEW op \in Ops, NEW k \in Key, RefuseWrite(n, op, k) \/ BeginWrite(n, op, k)
          PROVE  Started(n, op, k)
      BY <2>8 DEF RefuseWrite, BeginWrite
    <2>9. QED
      BY <2>1, <2>2, <2>3, <2>4, <2>5, <2>6, <2>7, <2>8 DEF Next
  <1>2. Len(hist) \in Nat
    BY Shapes
  <1>3. CASE hist' = hist
    BY <1>1, <1>2, <1>3
  <1>4. ASSUME NEW n \in Node, NEW op \in Ops, NEW k \in Key, Started(n, op, k)
        PROVE  /\ Len(hist') \in Nat /\ Len(hist) <= Len(hist')
               /\ \A i \in 1 .. Len(hist) : i \in 1 .. Len(hist') /\ hist'[i] = hist[i]
    <2>1. /\ Len(hist') = Len(hist) + 1 /\ 1 .. Len(hist) \subseteq 1 .. Len(hist')
          /\ \A i \in 1 .. Len(hist) : hist'[i] = hist[i]
      BY <1>4, HistGrows
    <2>2. QED
      BY <1>2, <2>1
  <1>5. QED
    BY <1>1, <1>2, <1>3, <1>4

\* A copy comes from a copy or from an entry that is applied.
LEMMA CopySource ==
    ASSUME TypeInv, [Next]_vars, NEW k \in Key, NEW r, HasCopy(k, r)'
    PROVE  HasCopy(k, r) \/ r = Absent \/ Applies(k, r)
  <1> DEFINE Goal == HasCopy(k, r) \/ r = Absent \/ Applies(k, r)
  <1>0. ShapeInv
    BY DEF TypeInv
  <1>1. ASSUME UNCHANGED <<store, repairs>>,
               \A c \in Node : reader'[c] # NoRead => reader'[c] = reader[c]
        PROVE  Goal
    BY <1>1 DEF HasCopy
  <1>2. ASSUME UNCHANGED <<store, reader, repairs>> PROVE Goal
    BY <1>1, <1>2
  <1>3. CASE UNCHANGED vars
    BY <1>2, <1>3 DEF vars, nodeState, messages
  <1>4. ASSUME NEW n \in Node, NEW op \in Ops, NEW q \in Key, RefuseWrite(n, op, q) \/ BeginWrite(n, op, q)
        PROVE  Goal
    BY <1>2, <1>4 DEF RefuseWrite, BeginWrite, messages
  <1>5. ASSUME NEW n \in Node, WriterStep(n) PROVE Goal
    <2>1. CASE ~CommitDone(n)
      BY <1>2, <1>5, <2>1 DEF WriterStep, SendReplicate, ReplicateTimeout, PrepareDone, nodeState, messages
    <2>2. CASE CommitDone(n)
      <3>1. reader' = reader /\ repairs' = repairs /\ writer[n].pc = "commit" /\ writer[n] # NoWrite
        BY <2>2, CommitDoneShape DEF CommitDone, CallsDone, messages
      <3>2. \/ store' = store
            \/ \A m \in Node : store'[m][k] = IF m = n /\ k = writer[n].entry.key
                                              THEN EntryRecord(writer[n].entry) ELSE store[m][k]
        BY <2>2, CommitDoneShape
      <3>3. ASSUME NEW m \in Node, r = store'[m][k] PROVE Goal
        BY <3>1, <3>2, <3>3 DEF HasCopy, Applies
      <3>4. QED
        BY <3>1, <3>3 DEF HasCopy
    <2>3. QED
      BY <2>1, <2>2
  <1>6. ASSUME NEW n \in Node, AsyncReplicate(n) PROVE Goal
    BY <1>2, <1>6 DEF AsyncReplicate, nodeState
  <1>7. ASSUME NEW n \in Node, NEW q \in Key, NEW level \in ReadLevels, StartRead(n, q, level) PROVE Goal
    <2>1. store' = store /\ repairs' = repairs
      BY <1>7 DEF StartRead, nodeState, messages
    <2>2. /\ \A c \in Node \ {n} : reader'[c] = reader[c]
          /\ reader'[n].key = q
          /\ reader'[n].got = IF n \in Replicas[q] THEN {LocalRead(n, q)} ELSE {}
      BY <1>0, <1>7 DEF StartRead, ShapeInv, ReaderShape
    <2>3. ASSUME NEW c \in Node, reader'[c] # NoRead, reader'[c].key = k, NEW a \in reader'[c].got, r = a.rec
          PROVE  Goal
      <3>1. CASE c # n
        BY <2>2, <2>3, <3>1 DEF HasCopy
      <3>2. CASE c = n
        <4>1. a = LocalRead(n, k)
          BY <2>2, <2>3, <3>2
        <4>2. r = store[n][k]
          BY <2>3, <4>1 DEF LocalRead
        <4>3. QED
          BY <4>2 DEF HasCopy
      <3>3. QED
        BY <3>1, <3>2
    <2>4. QED
      BY <2>1, <2>3 DEF HasCopy
  <1>8. ASSUME NEW c \in Node, NEW m \in Node, RemoteRead(c, m) PROVE Goal
    <2>1. store' = store /\ repairs' = repairs
      BY <1>8 DEF RemoteRead, nodeState, messages
    <2>2. PICK real \in BOOLEAN :
             reader'[c] = [reader[c] EXCEPT !.todo = @ \ {m},
                    !.got = @ \cup {[node |-> m, real |-> real,
                                     rec |-> IF real THEN store[m][reader[c].key] ELSE Absent]}]
      BY <1>0, <1>8, RemoteReadShape
    <2>3. reader[c] # NoRead /\ reader[c] \in ReaderType /\ \A q \in Node \ {c} : reader'[q] = reader[q]
      BY <1>0, <1>8, RemoteReadShape
    <2>4. PICK b : b = [node |-> m, real |-> real,
                        rec |-> IF real THEN store[m][reader[c].key] ELSE Absent]
      OBVIOUS
    <2>5. reader'[c].key = reader[c].key /\ reader'[c].got = reader[c].got \cup {b}
      BY <2>2, <2>3, <2>4 DEF ReaderType
    <2>6. b.rec = store[m][reader[c].key] \/ b.rec = Absent
      BY <2>4
    <2>7. ASSUME NEW q \in Node, reader'[q] # NoRead, reader'[q].key = k, NEW a \in reader'[q].got, r = a.rec
          PROVE  Goal
      BY <2>3, <2>5, <2>6, <2>7 DEF HasCopy
    <2>8. QED
      BY <2>1, <2>7 DEF HasCopy
  <1>9. ASSUME NEW c \in Node, ReadFails(c) PROVE Goal
    <2>1. \A q \in Node : reader'[q] # NoRead => reader'[q] = reader[q]
      BY <1>0, <1>9 DEF ReadFails, ShapeInv, ReaderShape
    <2>2. QED
      BY <1>1, <1>9, <2>1 DEF ReadFails, nodeState, messages
  <1>10. ASSUME NEW c \in Node, FinishRead(c) PROVE Goal
    <2>1. \A q \in Node : reader'[q] # NoRead => reader'[q] = reader[q]
      BY <1>0, <1>10 DEF FinishRead, ShapeInv, ReaderShape
    <2>2. store' = store /\ reader[c] # NoRead
      BY <1>10 DEF FinishRead, nodeState
    <2>3. \A p \in repairs' : p \in repairs \/ p \in RepairsFor(reader[c].key, reader[c].got)
      BY <1>10 DEF FinishRead
    <2>4. reader[c].got \in SUBSET Answer /\ reader[c].key \in Key
      BY <1>0, <2>2, Shapes DEF ReaderType
    <2>5. ASSUME NEW p \in repairs', p.key = k, r = p.rec PROVE Goal
      <3>1. CASE p \in repairs
        BY <2>5, <3>1 DEF HasCopy
      <3>2. CASE p \in RepairsFor(reader[c].key, reader[c].got)
        <4>1. p.key = reader[c].key /\ p.rec = Best(reader[c].got)
          BY <2>4, <3>2, BestFacts
        <4>2. Best(reader[c].got) = Absent \/ \E a \in reader[c].got : Best(reader[c].got) = a.rec
          BY <2>4, BestFacts
        <4>3. QED
          BY <2>2, <2>5, <4>1, <4>2 DEF HasCopy
      <3>3. QED
        BY <2>3, <3>1, <3>2
    <2>6. QED
      BY <2>1, <2>2, <2>5 DEF HasCopy
  <1>11. ASSUME NEW n \in Node, Restart(n) PROVE Goal
    <2>1. \A q \in Node : reader'[q] # NoRead => reader'[q] = reader[q]
      BY <1>0, <1>11 DEF Restart, ShapeInv, ReaderShape
    <2>2. store' = store /\ repairs' \subseteq repairs
      BY <1>11 DEF Restart
    <2>3. QED
      BY <2>1, <2>2 DEF HasCopy
  <1>12. ASSUME NEW msg \in net, HandlePrepare(msg) PROVE Goal
    BY <1>2, <1>12 DEF HandlePrepare
  <1>13. ASSUME NEW msg \in net, HandleCommit(msg) PROVE Goal
    <2>1. reader' = reader /\ repairs' = repairs /\ msg.phase = "commit"
      BY <1>13 DEF HandleCommit
    <2>2. \A m \in Node : store'[m][k] = IF m = msg.to /\ k = ToApply(msg).key
                                         THEN EntryRecord(ToApply(msg)) ELSE store[m][k]
      BY <1>0, <1>13, CommitShape
    <2>3. ASSUME NEW m \in Node, r = store'[m][k] PROVE Goal
      BY <2>1, <2>2, <2>3 DEF HasCopy, Applies
    <2>4. QED
      BY <2>1, <2>3 DEF HasCopy
  <1>14. ASSUME NEW p \in repairs, RepairCheck(p) PROVE Goal
    <2>1. store' = store /\ reader' = reader
      BY <1>14 DEF RepairCheck, nodeState
    <2>2. \A q \in repairs' : q \in repairs \/ (q.key = p.key /\ q.rec = p.rec)
      BY <1>0, <1>14, RepairCheckShape
    <2>3. QED
      BY <2>1, <2>2 DEF HasCopy
  <1>15. ASSUME NEW p \in repairs, RepairSet(p) PROVE Goal
    <2>1. reader' = reader /\ repairs' \subseteq repairs
      BY <1>15 DEF RepairSet
    <2>2. \A m \in Node : store'[m][k] = IF m = p.to /\ k = p.key THEN p.rec ELSE store[m][k]
      BY <1>0, <1>15, RepairSetShape
    <2>3. ASSUME NEW m \in Node, r = store'[m][k] PROVE Goal
      BY <2>2, <2>3 DEF HasCopy
    <2>4. QED
      BY <2>1, <2>3 DEF HasCopy
  <1>16. CASE LeaderChange
    BY <1>2, <1>16 DEF LeaderChange, messages
  <1>17. QED
    BY <1>3, <1>4, <1>5, <1>6, <1>7, <1>8, <1>9, <1>10, <1>11, <1>12, <1>13, <1>14, <1>15, <1>16
       DEF Next, ReaderStep

\* A repair always has a record to write.
LEMMA RepairsReal ==
    ASSUME TypeInv, [Next]_vars
    PROVE  \A p \in repairs' : p.rec # Absent
  <1>0. ShapeInv /\ \A p \in repairs : p.rec # Absent
    BY DEF TypeInv, SourceInv
  <1>1. ASSUME NEW c \in Node, FinishRead(c) PROVE \A p \in repairs' : p.rec # Absent
    <2>1. \A p \in repairs' : p \in repairs \/ p \in RepairsFor(reader[c].key, reader[c].got)
      BY <1>1 DEF FinishRead
    <2>2. reader[c].got \in SUBSET Answer /\ reader[c].key \in Key
      BY <1>0, <1>1, Shapes DEF FinishRead, ReaderType
    <2>3. \A p \in RepairsFor(reader[c].key, reader[c].got) : p.rec # Absent
      BY <2>2, BestFacts
    <2>4. QED
      BY <1>0, <2>1, <2>3
  <1>2. ASSUME NEW p \in repairs, RepairCheck(p) PROVE \A q \in repairs' : q.rec # Absent
    BY <1>0, <1>2, RepairCheckShape
  <1>3. ASSUME repairs' \subseteq repairs PROVE \A p \in repairs' : p.rec # Absent
    BY <1>0, <1>3
  <1>4. ASSUME NEW n \in Node, WriterStep(n) \/ ReadFails(n) \/ (\E m \in Node : RemoteRead(n, m)) \/ Restart(n)
        PROVE  repairs' \subseteq repairs
    BY <1>4 DEF WriterStep, SendReplicate, ReplicateTimeout, PrepareDone, CommitDone, ReadFails, RemoteRead,
                Restart, messages
  <1>5. ASSUME NEW n \in Node, AsyncReplicate(n) PROVE repairs' \subseteq repairs
    BY <1>5 DEF AsyncReplicate
  <1>6. ASSUME NEW n \in Node, NEW k \in Key, NEW level \in ReadLevels, StartRead(n, k, level)
        PROVE  repairs' \subseteq repairs
    BY <1>6 DEF StartRead, messages
  <1>7. ASSUME NEW n \in Node, NEW op \in Ops, NEW k \in Key, RefuseWrite(n, op, k) \/ BeginWrite(n, op, k)
        PROVE  repairs' \subseteq repairs
    BY <1>7 DEF RefuseWrite, BeginWrite, messages
  <1>8. ASSUME NEW msg \in net, HandlePrepare(msg) \/ HandleCommit(msg) PROVE repairs' \subseteq repairs
    BY <1>8 DEF HandlePrepare, HandleCommit
  <1>9. ASSUME NEW p \in repairs, RepairSet(p) PROVE repairs' \subseteq repairs
    BY <1>9 DEF RepairSet
  <1>10. CASE LeaderChange \/ UNCHANGED vars
    BY <1>3, <1>10 DEF LeaderChange, vars, messages
  <1>11. QED
    BY <1>1, <1>2, <1>3, <1>4, <1>5, <1>6, <1>7, <1>8, <1>9, <1>10 DEF Next, ReaderStep

\* What a commit applies is the record of an entry.
LEMMA AppliedEntry ==
    ASSUME ShapeInv, NEW k \in Key, NEW r, Applies(k, r)
    PROVE  \E e \in Entry : HasEntry(e) /\ e.key = k /\ r = EntryRecord(e)
  <1>1. ASSUME NEW msg \in net, ToApply(msg).key = k, r = EntryRecord(ToApply(msg))
        PROVE  \E e \in Entry : HasEntry(e) /\ e.key = k /\ r = EntryRecord(e)
    BY <1>1, ToApplyIs
  <1>2. ASSUME NEW n \in Node, writer[n] # NoWrite, writer[n].entry.key = k, r = EntryRecord(writer[n].entry)
        PROVE  \E e \in Entry : HasEntry(e) /\ e.key = k /\ r = EntryRecord(e)
    <2>1. HasEntry(writer[n].entry)
      BY <1>2, Held
    <2>2. QED
      BY <1>2, <2>1, Shapes
  <1>3. QED
    BY <1>1, <1>2 DEF Applies

\* The first states have the types,
LEMMA InitTypes == Init => TypeInv
  <1> SUFFICES ASSUME Init PROVE TypeInv
    OBVIOUS
  <1>1. /\ {MaxWrites, MaxReads, MaxRestarts} \subseteq Nat /\ Absent \in Record
        /\ <<>> \in Seq(HistEntry) /\ <<>> \in Seq(Queued) /\ Len(<<>>) = 0
    BY ReplicationAssumption, EmptySeq DEF Absent, Record
  <1>2. hist = <<>> /\ Len(hist) = 0
    BY <1>1 DEF Init
  <1>3. StoreShape
    <2>1. seq = [n \in Node |-> 0] /\ staged = [n \in Node |-> {}]
          /\ store = [n \in Node |-> [k \in Key |-> Absent]]
      BY DEF Init
    <2>2. QED
      BY <1>1, <1>2, <2>1 DEF StoreShape
  <1>4. WriterShape /\ ReaderShape
    BY DEF Init, WriterShape, ReaderShape
  <1>5. NetShape
    BY <1>1 DEF Init, NetShape
  <1>6. HistShape
    BY <1>1, <1>2 DEF Init, HistShape
  <1>7. ASSUME NEW e, HasEntry(e) PROVE FALSE
    BY <1>1, <1>7 DEF Init, HasEntry
  <1>8. ASSUME NEW k \in Key, NEW r, HasCopy(k, r) PROVE RecordOK(hist, k, r)
    <2>1. r = Absent
      BY <1>8 DEF Init, HasCopy
    <2>2. Absent.id = 0 /\ Absent.ver = 0
      BY DEF Absent
    <2>3. QED
      BY <1>2, <2>1, <2>2 DEF RecordOK
  <1>9. SourceInv
    BY <1>7, <1>8 DEF Init, SourceInv
  <1>10. QED
    BY <1>3, <1>4, <1>5, <1>6, <1>9 DEF TypeInv, ShapeInv

\* and every step keeps them.
LEMMA TypeStep ==
    ASSUME TypeInv, [Next]_vars
    PROVE  TypeInv'
  <1>0. ShapeInv /\ ShapeInv'
    BY StepShape DEF TypeInv
  <1>1. /\ Len(hist) \in Nat /\ Len(hist') \in Nat /\ Len(hist) <= Len(hist')
        /\ \A i \in 1 .. Len(hist) : i \in 1 .. Len(hist') /\ hist'[i] = hist[i]
    BY <1>0, HistKept
  <1>2. \A e : EntryOK(hist, e) => EntryOK(hist', e)
    BY <1>1 DEF EntryOK
  <1>3. \A k, r : RecordOK(hist, k, r) => RecordOK(hist', k, r)
    BY <1>1 DEF RecordOK
  <1>4. ASSUME NEW e, HasEntry(e)' PROVE EntryOK(hist', e)
    <2>1. CASE HasEntry(e)
      BY <1>2, <2>1 DEF TypeInv, SourceInv
    <2>2. ASSUME NEW n \in Node, NEW op \in Ops, NEW k \in Key, BeginWrite(n, op, k) PROVE EntryOK(hist', e)
      BY <1>4, <2>1, <2>2, BeginShape
    <2>3. QED
      BY <1>4, <2>1, <2>2, StepShape
  <1>5. ASSUME NEW k \in Key, NEW r, HasCopy(k, r)' PROVE RecordOK(hist', k, r)
    <2>1. CASE HasCopy(k, r)
      BY <1>3, <2>1 DEF TypeInv, SourceInv
    <2>2. CASE r = Absent
      <3>1. Absent.id = 0 /\ Absent.ver = 0
        BY DEF Absent
      <3>2. QED
        BY <1>1, <2>2, <3>1 DEF RecordOK
    <2>3. CASE Applies(k, r)
      <3>1. PICK e \in Entry : HasEntry(e) /\ e.key = k /\ r = EntryRecord(e)
        BY <1>0, <2>3, AppliedEntry
      <3>2. EntryOK(hist, e)
        BY <3>1 DEF TypeInv, SourceInv
      <3>3. CASE e.op = "SET"
        <4>1. r.id = e.id /\ r.ver = e.ver
          BY <3>1, <3>3 DEF EntryRecord
        <4>2. RecordOK(hist, k, r)
          BY <1>1, <3>1, <3>2, <4>1 DEF RecordOK, EntryOK
        <4>3. QED
          BY <1>3, <4>2
      <3>4. CASE e.op # "SET"
        BY <2>2, <3>1, <3>4 DEF EntryRecord
      <3>5. QED
        BY <3>3, <3>4
    <2>4. QED
      BY <1>5, <2>1, <2>2, <2>3, CopySource
  <1>6. \A p \in repairs' : p.rec # Absent
    BY RepairsReal
  <1>7. SourceInv'
    BY <1>4, <1>5, <1>6 DEF SourceInv
  <1>8. QED
    BY <1>0, <1>7 DEF TypeInv

\* So they hold throughout.
LEMMA TypesAlways == Spec => []TypeInv
  <1>1. Init => TypeInv
    BY InitTypes
  <1>2. TypeInv /\ [Next]_vars => TypeInv'
    BY TypeStep
  <1>3. QED
    BY <1>1, <1>2, PTL DEF Spec

(* ReplicationTypes: whoever leads, however messages are lost or late and  *)
(* nodes restart, all state has its type, at most one entry is staged      *)
(* under an index, and a phase of a write counts at most one               *)
(* acknowledgement per target.                                             *)
THEOREM ReplicationTypes == Spec => []TypeOK
  <1>1. TypeInv => TypeOK
    BY ShapeTypes DEF TypeInv
  <1>2. QED
    BY <1>1, TypesAlways, PTL

-----------------------------------------------------------------------------
(* A stable leader. *)

\* Nobody else leads, and the process of the leader does not restart.
StableLeader(l) ==
    /\ l \in Node /\ l \notin MayRestart
    /\ \A S \in LeaderSets : S \subseteq {l}

\* What is sent as a commit, or counted as one, is being committed.
CommitInv ==
    /\ committing \subseteq 1 .. Len(hist)
    /\ \A msg \in net : msg.phase = "commit" => msg.entry.id \in committing
    /\ \A n \in Node : writer[n] # NoWrite /\ writer[n].pc = "commit" => writer[n].entry.id \in committing

\* With a stable leader an index names one write, and what is visible was
\* committed.
StableInv(l) ==
    /\ seq[l] = Len(hist)
    /\ \A e : HasEntry(e) => e.coord = l /\ e.index = e.id
    /\ \A d, e : HasEntry(d) /\ HasEntry(e) /\ d.id = e.id => d = e
    /\ CommitInv
    /\ \A k \in Key : \A r : HasCopy(k, r) => r = Absent \/ r.id \in committing

\* Only the leader writes.
LEMMA OnlyLeaderWrites ==
    ASSUME NEW l, TypeInv, StableInv(l)
    PROVE  \A n \in Node : writer[n] # NoWrite => n = l
  <1>1. ASSUME NEW n \in Node, writer[n] # NoWrite PROVE n = l
    <2>1. HasEntry(writer[n].entry) /\ WriterOK(n, writer[n])
      BY <1>1, Held, Shapes DEF TypeInv
    <2>2. QED
      BY <2>1 DEF StableInv, WriterOK
  <1>2. QED
    BY <1>1

\* A commit applies the entry it carries.
LEMMA AppliesItsEntry ==
    ASSUME NEW l, TypeInv, StableInv(l), NEW msg \in net
    PROVE  ToApply(msg) = msg.entry
  <1>1. HasEntry(msg.entry) /\ HasEntry(ToApply(msg))
    BY Held, ToApplyIs DEF TypeInv
  <1>2. ToApply(msg).index = msg.entry.index
    BY ToApplyIs DEF TypeInv
  <1>3. QED
    BY <1>1, <1>2 DEF StableInv

\* What may be applied is being committed.
LEMMA AppliesCommitted ==
    ASSUME NEW l, TypeInv, StableInv(l), NEW k \in Key, NEW r, Applies(k, r)
    PROVE  r = Absent \/ r.id \in committing
  <1>1. ASSUME NEW e, e.id \in committing, r = EntryRecord(e) PROVE r = Absent \/ r.id \in committing
    BY <1>1 DEF EntryRecord
  <1>2. ASSUME NEW msg \in net, msg.phase = "commit", r = EntryRecord(ToApply(msg))
        PROVE  r = Absent \/ r.id \in committing
    <2>1. ToApply(msg) = msg.entry /\ msg.entry.id \in committing
      BY <1>2, AppliesItsEntry DEF StableInv, CommitInv
    <2>2. QED
      BY <1>1, <1>2, <2>1
  <1>3. ASSUME NEW n \in Node, writer[n] # NoWrite, writer[n].pc = "commit", r = EntryRecord(writer[n].entry)
        PROVE  r = Absent \/ r.id \in committing
    BY <1>1, <1>3 DEF StableInv, CommitInv
  <1>4. QED
    BY <1>2, <1>3 DEF Applies

\* Messages and writers after a step.
LEMMA CommitStep ==
    ASSUME TypeInv, CommitInv, [Next]_vars
    PROVE  CommitInv' /\ committing \subseteq committing'
  <1>0. ShapeInv /\ ShapeInv' /\ committing' \subseteq 1 .. Len(hist')
    BY StepShape DEF TypeInv, ShapeInv, HistShape
  <1>1. ASSUME net' \subseteq net, writer' = writer, committing' = committing
        PROVE  CommitInv' /\ committing \subseteq committing'
    BY <1>0, <1>1 DEF CommitInv
  <1>2. CASE UNCHANGED vars
    BY <1>1, <1>2 DEF vars, messages
  <1>3. ASSUME NEW n \in Node, NEW op \in Ops, NEW k \in Key, RefuseWrite(n, op, k)
        PROVE  CommitInv' /\ committing \subseteq committing'
    BY <1>1, <1>3 DEF RefuseWrite, messages
  <1>4. ASSUME NEW n \in Node, NEW op \in Ops, NEW k \in Key, BeginWrite(n, op, k)
        PROVE  CommitInv' /\ committing \subseteq committing'
    <2>1. /\ writer'[n].pc = IF Required(consistency) > 1 THEN "prepare" ELSE "commit"
          /\ \A m \in Node \ {n} : writer'[m] = writer[m]
      BY <1>4, BeginShape
    <2>2. writer'[n].entry.id = Len(hist) + 1
      <3>1. writer'[n].entry = [id |-> Len(hist) + 1, op |-> op, key |-> k,
                   ver |-> NextVersion(n, k), index |-> seq[n] + 1, coord |-> n]
        BY <1>4, BeginShape
      <3>2. QED
        BY <3>1
    <2>3. /\ net' = net
          /\ committing' = IF Required(consistency) > 1 THEN committing ELSE committing \cup {Len(hist) + 1}
      BY <1>4 DEF BeginWrite
    <2>4. QED
      BY <1>0, <2>1, <2>2, <2>3 DEF CommitInv
  <1>5. ASSUME NEW n \in Node, NEW m \in Node, SendReplicate(n, m)
        PROVE  CommitInv' /\ committing \subseteq committing'
    <2>1. committing' = committing /\ writer[n] # NoWrite
      BY <1>5 DEF SendReplicate
    <2>2. writer'[n].pc = writer[n].pc /\ writer'[n].entry = writer[n].entry
          /\ \A q \in Node \ {n} : writer'[q] = writer[q]
      <3>1. /\ \/ writer'[n] = [writer[n] EXCEPT !.todo = @ \ {m}, !.wait = m]
               \/ writer'[n] = [writer[n] EXCEPT !.todo = @ \ {m}]
            /\ writer[n] \in WriterType
            /\ \A q \in Node \ {n} : writer'[q] = writer[q]
        BY <1>0, <1>5, SendShape
      <3>2. QED
        BY <3>1 DEF WriterType
    <2>3. \A msg \in net' : msg \in net \/ (msg.phase = writer[n].pc /\ msg.entry = writer[n].entry)
      BY <1>5 DEF SendReplicate, Message0
    <2>4. QED
      BY <1>0, <2>1, <2>2, <2>3 DEF CommitInv
  <1>6. ASSUME NEW n \in Node, ReplicateTimeout(n) PROVE CommitInv' /\ committing \subseteq committing'
    <2>1. committing' = committing /\ net' = net
      BY <1>6 DEF ReplicateTimeout, messages
    <2>2. writer[n] # NoWrite /\ writer'[n].pc = writer[n].pc /\ writer'[n].entry = writer[n].entry
          /\ \A q \in Node \ {n} : writer'[q] = writer[q]
      BY <1>0, <1>6, TimeoutShape DEF WriterType
    <2>3. QED
      BY <1>0, <2>1, <2>2 DEF CommitInv
  <1>7. ASSUME NEW n \in Node, PrepareDone(n) PROVE CommitInv' /\ committing \subseteq committing'
    <2>1. net' = net /\ committing \subseteq committing'
      BY <1>7 DEF PrepareDone, messages
    <2>2. \A q \in Node \ {n} : writer'[q] = writer[q]
      BY <1>7, PrepareDoneShape
    <2>3. writer'[n] # NoWrite => writer'[n].entry.id \in committing'
      <3>1. \/ writer' = [writer EXCEPT ![n] = NoWrite]
            \/ /\ writer' = [writer EXCEPT ![n] = EnterCommit(writer[n])]
               /\ committing' = committing \cup {writer[n].entry.id}
        BY <1>7 DEF PrepareDone
      <3>2. writer[n] \in WriterType /\ writer \in [Node -> WriterType \cup {NoWrite}]
        BY <1>0, <1>7, PrepareDoneShape DEF ShapeInv, WriterShape
      <3>3. EnterCommit(writer[n]).entry = writer[n].entry
        BY <3>2 DEF EnterCommit, WriterType
      <3>4. QED
        BY <3>1, <3>2, <3>3
    <2>4. QED
      BY <1>0, <2>1, <2>2, <2>3 DEF CommitInv
  <1>8. ASSUME NEW n \in Node, CommitDone(n) PROVE CommitInv' /\ committing \subseteq committing'
    <2>1. net' = net /\ committing' = committing
      BY <1>8 DEF CommitDone, messages
    <2>2. writer'[n] = NoWrite /\ \A q \in Node \ {n} : writer'[q] = writer[q]
      BY <1>8, CommitDoneShape
    <2>3. QED
      BY <1>0, <2>1, <2>2 DEF CommitInv
  <1>9. ASSUME NEW n \in Node, AsyncReplicate(n) PROVE CommitInv' /\ committing \subseteq committing'
    <2>1. writer' = writer /\ committing' = committing
      BY <1>9 DEF AsyncReplicate
    <2>2. \A msg \in net' : msg \in net \/ msg.phase = "prepare"
      BY <1>0, <1>9, AsyncShape
    <2>3. QED
      BY <1>0, <2>1, <2>2 DEF CommitInv
  <1>10. ASSUME NEW n \in Node, NEW k \in Key, NEW level \in ReadLevels, StartRead(n, k, level)
         PROVE  CommitInv' /\ committing \subseteq committing'
    BY <1>1, <1>10 DEF StartRead, messages
  <1>11. ASSUME NEW n \in Node, ReaderStep(n) PROVE CommitInv' /\ committing \subseteq committing'
    BY <1>1, <1>11 DEF ReaderStep, ReadFails, FinishRead, RemoteRead, messages
  <1>12. ASSUME NEW n \in Node, Restart(n) PROVE CommitInv' /\ committing \subseteq committing'
    <2>1. net' \subseteq net /\ committing' = committing
      BY <1>12 DEF Restart
    <2>2. \A m \in Node : writer'[m] = writer[m] \/ writer'[m] = NoWrite
      BY <1>0, <1>12 DEF Restart, ShapeInv, WriterShape
    <2>3. QED
      BY <1>0, <2>1, <2>2 DEF CommitInv
  <1>13. ASSUME NEW msg \in net, HandlePrepare(msg) \/ HandleCommit(msg)
         PROVE  CommitInv' /\ committing \subseteq committing'
    <2>1. net' \subseteq net /\ committing' = committing /\ ReplicateResponse(msg)
      BY <1>13 DEF HandlePrepare, HandleCommit
    <2>2. \A n \in Node :
             \/ writer'[n] = writer[n]
             \/ writer[n] # NoWrite /\ writer'[n] = [writer[n] EXCEPT !.wait = None, !.acks = @ + 1]
      BY <1>0, <2>1, ResponseShape
    <2>3. \A n \in Node : writer'[n] # NoWrite =>
             writer[n] # NoWrite /\ writer'[n].pc = writer[n].pc /\ writer'[n].entry = writer[n].entry
      <3>1. \A n \in Node : writer[n] # NoWrite => writer[n] \in WriterType
        BY <1>0, Shapes
      <3>2. QED
        BY <2>2, <3>1 DEF WriterType
    <2>4. QED
      BY <1>0, <2>1, <2>3 DEF CommitInv
  <1>14. ASSUME NEW p \in repairs, RepairCheck(p) \/ RepairSet(p) PROVE CommitInv' /\ committing \subseteq committing'
    BY <1>1, <1>14 DEF RepairCheck, RepairSet
  <1>15. CASE LeaderChange
    BY <1>1, <1>15 DEF LeaderChange, messages
  <1>16. QED
    BY <1>2, <1>3, <1>4, <1>5, <1>6, <1>7, <1>8, <1>9, <1>10, <1>11, <1>12, <1>13, <1>14, <1>15
       DEF Next, WriterStep

\* The number of a write is its index at the stable leader.
LEMMA SeqStep ==
    ASSUME NEW l, StableLeader(l), TypeInv, StableInv(l), [Next]_vars
    PROVE  /\ seq'[l] = Len(hist')
           /\ \A n \in Node, op \in Ops, k \in Key : Started(n, op, k) => n = l
  <1>0. ShapeInv /\ l \in Node /\ seq[l] = Len(hist)
    BY DEF TypeInv, StableInv, StableLeader
  <1>1. ASSUME NEW n \in Node, NEW op \in Ops, NEW k \in Key, Started(n, op, k) PROVE n = l
    BY <1>0, <1>1 DEF Started, StableLeader, ShapeInv, HistShape
  <1>2. ASSUME NEW n \in Node, NEW op \in Ops, NEW k \in Key, Started(n, op, k) PROVE seq'[l] = Len(hist')
    BY <1>0, <1>1, <1>2, HistGrows
  <1>3. ASSUME seq'[l] = seq[l], hist' = hist PROVE seq'[l] = Len(hist')
    BY <1>0, <1>3
  <1>4. ASSUME NEW n \in Node, NEW op \in Ops, NEW k \in Key, RefuseWrite(n, op, k) \/ BeginWrite(n, op, k)
        PROVE  seq'[l] = Len(hist')
    BY <1>2, <1>4 DEF RefuseWrite, BeginWrite
  <1>5. ASSUME NEW n \in Node, WriterStep(n) \/ ReaderStep(n) \/ AsyncReplicate(n) PROVE seq'[l] = Len(hist')
    BY <1>3, <1>5 DEF WriterStep, SendReplicate, ReplicateTimeout, PrepareDone, CommitDone, ReaderStep, ReadFails,
                      FinishRead, RemoteRead, AsyncReplicate, nodeState
  <1>6. ASSUME NEW n \in Node, NEW k \in Key, NEW level \in ReadLevels, StartRead(n, k, level)
        PROVE  seq'[l] = Len(hist')
    BY <1>3, <1>6 DEF StartRead, nodeState
  <1>7. ASSUME NEW n \in Node, Restart(n) PROVE seq'[l] = Len(hist')
    <2>1. n # l /\ hist' = hist
      BY <1>7 DEF Restart, StableLeader
    <2>2. seq'[l] = seq[l]
      BY <1>0, <1>7, <2>1 DEF Restart, ShapeInv, StoreShape
    <2>3. QED
      BY <1>3, <2>1, <2>2
  <1>8. ASSUME NEW msg \in net, HandlePrepare(msg) \/ HandleCommit(msg) PROVE seq'[l] = Len(hist')
    BY <1>3, <1>8 DEF HandlePrepare, HandleCommit
  <1>9. ASSUME NEW p \in repairs, RepairCheck(p) \/ RepairSet(p) PROVE seq'[l] = Len(hist')
    BY <1>3, <1>9 DEF RepairCheck, RepairSet, nodeState
  <1>10. ASSUME LeaderChange \/ UNCHANGED vars PROVE seq'[l] = Len(hist')
    <2>1. seq' = seq /\ hist' = hist
      BY <1>10 DEF LeaderChange, vars, nodeState
    <2>2. QED
      BY <1>3, <2>1
  <1>11. QED
    BY <1>1, <1>4, <1>5, <1>6, <1>7, <1>8, <1>9, <1>10 DEF Next

\* Every step keeps what a stable leader guarantees,
LEMMA StableStep ==
    ASSUME NEW l, StableLeader(l), TypeInv, StableInv(l), [Next]_vars
    PROVE  StableInv(l)'
  <1>0. ShapeInv /\ CommitInv /\ l \in Node /\ seq[l] = Len(hist) /\ Len(hist) \in Nat
    BY Shapes DEF TypeInv, StableInv, StableLeader
  <1>1. seq'[l] = Len(hist')
    BY SeqStep
  <1>2. CommitInv' /\ committing \subseteq committing'
    BY <1>0, CommitStep
  <1>3. \/ \A e : HasEntry(e)' => HasEntry(e)
        \/ \E d : /\ \A e : HasEntry(e)' => HasEntry(e) \/ e = d
                  /\ d.coord = l /\ d.index = d.id /\ d.id = Len(hist) + 1
    <2>1. ASSUME NEW n \in Node, NEW op \in Ops, NEW k \in Key, BeginWrite(n, op, k)
          PROVE  \E d : /\ \A e : HasEntry(e)' => HasEntry(e) \/ e = d
                        /\ d.coord = l /\ d.index = d.id /\ d.id = Len(hist) + 1
      <3>1. n = l
        BY <2>1, SeqStep DEF BeginWrite
      <3>2. /\ \A e : HasEntry(e)' => HasEntry(e) \/ e = writer'[n].entry
            /\ writer'[n].entry = [id |-> Len(hist) + 1, op |-> op, key |-> k,
                   ver |-> NextVersion(n, k), index |-> seq[n] + 1, coord |-> n]
        BY <2>1, BeginShape
      <3>3. PICK d : d = [id |-> Len(hist) + 1, op |-> op, key |-> k,
                   ver |-> NextVersion(n, k), index |-> seq[n] + 1, coord |-> n]
        OBVIOUS
      <3>4. d.coord = l /\ d.index = d.id /\ d.id = Len(hist) + 1
        BY <1>0, <3>1, <3>3
      <3>5. QED
        BY <3>2, <3>3, <3>4
    <2>2. QED
      BY <2>1, StepShape
  <1>4. /\ \A e : HasEntry(e)' => e.coord = l /\ e.index = e.id
        /\ \A d, e : HasEntry(d)' /\ HasEntry(e)' /\ d.id = e.id => d = e
    <2>1. CASE \A e : HasEntry(e)' => HasEntry(e)
      BY <2>1 DEF StableInv
    <2>2. ASSUME NEW c, \A e : HasEntry(e)' => HasEntry(e) \/ e = c,
                 c.coord = l, c.index = c.id, c.id = Len(hist) + 1
          PROVE  /\ \A e : HasEntry(e)' => e.coord = l /\ e.index = e.id
                 /\ \A d, e : HasEntry(d)' /\ HasEntry(e)' /\ d.id = e.id => d = e
      <3>1. \A e : HasEntry(e) => e.id # c.id
        BY <1>0, <2>2 DEF TypeInv, SourceInv, EntryOK
      <3>2. QED
        BY <2>2, <3>1 DEF StableInv
    <2>3. QED
      BY <1>3, <2>1, <2>2
  <1>5. \A k \in Key : \A r : HasCopy(k, r)' => r = Absent \/ r.id \in committing'
    BY <1>2, CopySource, AppliesCommitted DEF StableInv
  <1>6. QED
    BY <1>1, <1>2, <1>4, <1>5 DEF StableInv

\* the first states have it,
LEMMA InitStable ==
    ASSUME NEW l \in Node, Init
    PROVE  StableInv(l)
  <1>1. hist = <<>> /\ Len(hist) = 0 /\ seq[l] = 0 /\ Len(<<>>) = 0
    BY EmptySeq DEF Init
  <1>2. ASSUME NEW e, HasEntry(e) PROVE FALSE
    BY <1>1, <1>2 DEF Init, HasEntry
  <1>3. \A k \in Key : \A r : HasCopy(k, r) => r = Absent
    BY DEF Init, HasCopy
  <1>4. CommitInv
    BY DEF Init, CommitInv
  <1>5. QED
    BY <1>1, <1>2, <1>3, <1>4 DEF StableInv

\* and so it holds throughout.
LEMMA StableAlways ==
    ASSUME NEW l, StableLeader(l)
    PROVE  Spec => [](TypeInv /\ StableInv(l))
  <1>1. Init => TypeInv /\ StableInv(l)
    BY InitTypes, InitStable DEF StableLeader
  <1>2. TypeInv /\ StableInv(l) /\ [Next]_vars => TypeInv' /\ StableInv(l)'
    BY TypeStep, StableStep
  <1>3. QED
    BY <1>1, <1>2, PTL DEF Spec

(* StagedIsInvisible: with a stable leader, whatever the levels, the views,*)
(* the operations and the losses, every record in a store belongs to a     *)
(* write whose prepare phase succeeded.                                    *)
THEOREM StagedIsInvisible ==
    ASSUME NEW l, StableLeader(l)
    PROVE  Spec => []VisibleWasCommitted
  <1>1. TypeInv /\ StableInv(l) => VisibleWasCommitted
    BY DEF StableInv, VisibleWasCommitted, HasCopy
  <1>2. QED
    BY <1>1, StableAlways, PTL

-----------------------------------------------------------------------------
(* Acknowledged writes. *)

\* The leader and everyone it may see are replicas of every key.
WithinReplicas(l) == \A k \in Key : \A v \in Views : v \cup {l} \subseteq Replicas[k]

\* The nodes of S that have write x of k or a later one.
Holders(S, k, x) == {m \in S : store[m][k].id >= x}

\* The targets whose call is over.
Called(w) == w.targets \ (w.todo \cup {w.wait})

\* Every acknowledgement of a commit is a holder.
AcksInv(l) ==
    /\ \A n \in Node : writer[n] # NoWrite => writer[n].targets \cup {n} \subseteq Replicas[writer[n].entry.key]
    /\ regressed = {} => \A k \in Key : OnlySets(k) =>
         /\ \A n \in Node : writer[n] # NoWrite /\ writer[n].pc = "commit" /\ writer[n].entry.key = k =>
              writer[n].acks <= Cardinality(Holders(Called(writer[n]), k, writer[n].entry.id))
         /\ \A x \in acked \cap WritesOf(k) :
              /\ store[l][k].id >= x
              /\ Cardinality(Holders(Replicas[k], k, x)) >= Required(consistency)

\* Subsets of finite sets are no larger.
LEMMA CardinalityMono ==
    ASSUME NEW T, IsFiniteSet(T), NEW S, S \subseteq T
    PROVE  /\ IsFiniteSet(S) /\ Cardinality(S) <= Cardinality(T)
           /\ Cardinality(S) \in Nat /\ Cardinality(T) \in Nat
  BY FS_Subset, FS_CardinalityType

\* One record changes at a time, and a key only disappears when it is deleted.
LEMMA OnePut ==
    ASSUME TypeInv, [Next]_vars
    PROVE  \/ store' = store /\ regressed' = regressed
           \/ \E n \in Node, q \in Key, rec \in Record, cause \in {"commit", "repair"} :
                /\ Put(n, q, rec, cause)
                /\ rec = Absent => \E e : HasEntry(e) /\ e.key = q /\ e.op = "DELETE"
  <1> DEFINE Goal == \/ store' = store /\ regressed' = regressed
                     \/ \E n \in Node, q \in Key, rec \in Record, cause \in {"commit", "repair"} :
                          /\ Put(n, q, rec, cause)
                          /\ rec = Absent => \E e : HasEntry(e) /\ e.key = q /\ e.op = "DELETE"
  <1>0. ShapeInv
    BY DEF TypeInv
  <1>1. ASSUME NEW n \in Node, NEW e \in Entry, HasEntry(e), ApplyEntry(n, e) PROVE Goal
    <2>1. PICK rec : rec = EntryRecord(e)
      OBVIOUS
    <2>2. rec \in Record /\ e.key \in Key
      BY <2>1, RecordOfEntry DEF Entry
    <2>3. rec = Absent => e.op = "DELETE"
      BY <2>1 DEF EntryRecord, Absent, Entry, WriteId
    <2>4. Put(n, e.key, rec, "commit")
      BY <1>1, <2>1 DEF ApplyEntry
    <2>5. QED
      BY <1>1, <2>2, <2>3, <2>4
  <1>2. ASSUME NEW n \in Node, WriterStep(n) PROVE Goal
    <2>1. CASE ~CommitDone(n)
      BY <1>2, <2>1 DEF WriterStep, SendReplicate, ReplicateTimeout, PrepareDone, nodeState
    <2>2. CASE CommitDone(n)
      <3>1. writer[n] # NoWrite /\ writer[n] \in WriterType
        BY <2>2, CommitDoneShape
      <3>2. HasEntry(writer[n].entry) /\ writer[n].entry \in Entry
        BY <3>1, Held DEF WriterType
      <3>3. ApplyEntry(n, writer[n].entry) \/ (store' = store /\ regressed' = regressed)
        BY <2>2 DEF CommitDone
      <3>4. QED
        BY <1>1, <3>2, <3>3
    <2>3. QED
      BY <2>1, <2>2
  <1>3. ASSUME NEW msg \in net, HandlePrepare(msg) PROVE Goal
    BY <1>3 DEF HandlePrepare
  <1>4. ASSUME NEW msg \in net, HandleCommit(msg) PROVE Goal
    <2>1. ApplyEntry(msg.to, ToApply(msg))
      BY <1>4 DEF HandleCommit
    <2>2. msg.to \in Node /\ ToApply(msg) \in Entry /\ HasEntry(ToApply(msg))
      BY <1>0, ToApplyIs
    <2>3. QED
      BY <1>1, <2>1, <2>2
  <1>5. ASSUME NEW p \in repairs, RepairSet(p) PROVE Goal
    <2>1. p.to \in Node /\ p.key \in Key /\ p.rec \in Record /\ p.rec # Absent
      BY <1>0 DEF ShapeInv, NetShape, Repair, TypeInv, SourceInv
    <2>2. Put(p.to, p.key, p.rec, "repair")
      BY <1>5 DEF RepairSet
    <2>3. QED
      BY <2>1, <2>2
  <1>6. ASSUME NEW p \in repairs, RepairCheck(p) PROVE Goal
    BY <1>6 DEF RepairCheck, nodeState
  <1>7. ASSUME NEW n \in Node, NEW op \in Ops, NEW k \in Key, RefuseWrite(n, op, k) \/ BeginWrite(n, op, k)
        PROVE  Goal
    BY <1>7 DEF RefuseWrite, BeginWrite
  <1>8. ASSUME NEW n \in Node, ReaderStep(n) PROVE Goal
    BY <1>8 DEF ReaderStep, ReadFails, FinishRead, RemoteRead, nodeState
  <1>9. ASSUME NEW n \in Node, NEW k \in Key, NEW level \in ReadLevels, StartRead(n, k, level) PROVE Goal
    BY <1>9 DEF StartRead, nodeState
  <1>10. ASSUME NEW n \in Node, AsyncReplicate(n) \/ Restart(n) PROVE Goal
    BY <1>10 DEF AsyncReplicate, Restart, nodeState
  <1>11. CASE LeaderChange \/ UNCHANGED vars
    BY <1>11 DEF LeaderChange, vars, nodeState
  <1>12. QED
    BY <1>2, <1>3, <1>4, <1>5, <1>6, <1>7, <1>8, <1>9, <1>10, <1>11 DEF Next

\* If nothing regresses and nobody deletes k, the records of k only get newer.
LEMMA StoresGrow ==
    ASSUME TypeInv, [Next]_vars, regressed' = {}, NEW k \in Key, OnlySets(k)'
    PROVE  /\ regressed = {} /\ OnlySets(k)
           /\ \A n \in Node : /\ store[n][k].id \in Nat /\ store'[n][k].id \in Nat
                              /\ store[n][k].id <= store'[n][k].id
  <1>0. ShapeInv /\ ShapeInv'
    BY StepShape DEF TypeInv
  <1>1. OnlySets(k)
    <2>1. \A i \in 1 .. Len(hist) : i \in 1 .. Len(hist') /\ hist'[i] = hist[i]
      BY <1>0, HistKept
    <2>2. QED
      BY <2>1 DEF OnlySets, WritesOf
  <1>2. \A n \in Node : store[n][k].id \in Nat /\ store'[n][k].id \in Nat
    BY <1>0, ReplicationAssumption DEF ShapeInv, StoreShape, Record
  <1>3. CASE store' = store /\ regressed' = regressed
    BY <1>1, <1>2, <1>3
  <1>4. ASSUME NEW n \in Node, NEW q \in Key, NEW rec \in Record, NEW cause, Put(n, q, rec, cause),
               rec = Absent => \E e : HasEntry(e) /\ e.key = q /\ e.op = "DELETE"
        PROVE  regressed = {} /\ \A m \in Node : store[m][k].id <= store'[m][k].id
    <2>1. \A m \in Node : store'[m][k] = IF m = n /\ k = q THEN rec ELSE store[m][k]
      BY <1>0, <1>4, PutStore DEF ShapeInv
    <2>2. regressed = {} /\ ~(rec # Absent /\ rec.id < store[n][q].id)
      BY <1>4 DEF Put
    <2>3. q = k => rec # Absent
      <3>1. ASSUME NEW e, HasEntry(e), e.key = k, e.op = "DELETE" PROVE FALSE
        BY <1>1, <3>1 DEF TypeInv, SourceInv, EntryOK, OnlySets, WritesOf
      <3>2. QED
        BY <1>4, <3>1
    <2>4. rec.id \in Nat
      BY ReplicationAssumption DEF Record
    <2>5. QED
      BY <1>2, <2>1, <2>2, <2>3, <2>4
  <1>5. QED
    BY <1>1, <1>2, <1>3, <1>4, OnePut

\* Which steps acknowledge a write.
LEMMA AckedStep ==
    ASSUME [Next]_vars
    PROVE  /\ consistency' = consistency
           /\ \/ acked' = acked
              \/ \E n \in Node : /\ CommitDone(n) /\ EnoughCommits(n)
                                 /\ acked' = acked \cup {writer[n].entry.id}
  <1> DEFINE Goal == /\ consistency' = consistency
                     /\ \/ acked' = acked
                        \/ \E n \in Node : /\ CommitDone(n) /\ EnoughCommits(n)
                                           /\ acked' = acked \cup {writer[n].entry.id}
  <1>1. ASSUME NEW n \in Node, (\E m \in Node : SendReplicate(n, m)) \/ ReplicateTimeout(n)
                               \/ PrepareDone(n)
        PROVE  Goal
    BY <1>1 DEF SendReplicate, ReplicateTimeout, PrepareDone, outcome
  <1>2. ASSUME NEW n \in Node, CommitDone(n) PROVE Goal
    BY <1>2 DEF CommitDone
  <1>3. ASSUME NEW msg \in net, HandlePrepare(msg) \/ HandleCommit(msg) PROVE Goal
    BY <1>3 DEF HandlePrepare, HandleCommit, outcome
  <1>4. ASSUME NEW p \in repairs, RepairSet(p) \/ RepairCheck(p) PROVE Goal
    BY <1>4 DEF RepairSet, RepairCheck, outcome
  <1>5. ASSUME NEW n \in Node, NEW op \in Ops, NEW k \in Key, RefuseWrite(n, op, k) \/ BeginWrite(n, op, k)
        PROVE  Goal
    BY <1>5 DEF RefuseWrite, BeginWrite, outcome
  <1>6. ASSUME NEW n \in Node, ReaderStep(n) PROVE Goal
    BY <1>6 DEF ReaderStep, ReadFails, FinishRead, RemoteRead, outcome
  <1>7. ASSUME NEW n \in Node, NEW k \in Key, NEW level \in ReadLevels, StartRead(n, k, level) PROVE Goal
    BY <1>7 DEF StartRead, outcome
  <1>8. ASSUME NEW n \in Node, AsyncReplicate(n) \/ Restart(n) PROVE Goal
    BY <1>8 DEF AsyncReplicate, Restart, outcome
  <1>9. CASE LeaderChange \/ UNCHANGED vars
    BY <1>9 DEF LeaderChange, vars, outcome
  <1>10. QED
    BY <1>1, <1>2, <1>3, <1>4, <1>5, <1>6, <1>7, <1>8, <1>9 DEF Next, WriterStep

\* How a step moves a write: it starts, goes from prepare to commit, makes or
\* loses a call, or counts a commit that was applied.
WriteStarts(n, l) ==
    /\ n = l /\ writer'[n].acks = 0
    /\ writer'[n].targets \in {v \ {n} : v \in View(n)}
WriteCalls(n) ==
    /\ writer[n].acks = writer'[n].acks
    /\ Called(writer[n]) \subseteq Called(writer'[n])
WriteCounts(n) ==
    /\ writer'[n].acks = writer[n].acks + 1
    /\ writer[n].wait \in Node /\ writer[n].wait \notin Called(writer[n])
    /\ Called(writer'[n]) = Called(writer[n]) \cup {writer[n].wait}
    /\ writer[n].pc = "commit" => store'[writer[n].wait][writer[n].entry.key] = EntryRecord(writer[n].entry)
WriteMoves(n) ==
    /\ writer[n] # NoWrite
    /\ writer'[n].entry = writer[n].entry /\ writer'[n].targets = writer[n].targets
    /\ \/ writer'[n].acks = 0
       \/ writer'[n].pc = writer[n].pc /\ (WriteCalls(n) \/ WriteCounts(n))

\* There are no other ways.
LEMMA WriterMoves ==
    ASSUME NEW l, StableLeader(l), TypeInv, StableInv(l), [Next]_vars, NEW n \in Node, writer'[n] # NoWrite
    PROVE  WriteStarts(n, l) \/ WriteMoves(n)
  <1> DEFINE Goal == WriteStarts(n, l) \/ WriteMoves(n)
  <1>0. ShapeInv /\ None \notin Node
    BY ReplicationAssumption DEF TypeInv
  <1>1. ASSUME writer'[n] = writer[n] PROVE Goal
    BY <1>1 DEF WriteMoves, WriteCalls
  <1>2. ASSUME NEW m \in Node, NEW op \in Ops, NEW k \in Key, RefuseWrite(m, op, k) PROVE Goal
    BY <1>1, <1>2 DEF RefuseWrite
  <1>3. ASSUME NEW m \in Node, NEW op \in Ops, NEW k \in Key, BeginWrite(m, op, k) PROVE Goal
    <2>1. CASE n # m
      <3>1. \A q \in Node \ {m} : writer'[q] = writer[q]
        BY <1>3, BeginShape
      <3>2. QED
        BY <1>1, <2>1, <3>1
    <2>2. CASE n = m
      <3>1. n = l
        BY <1>3, <2>2, SeqStep DEF BeginWrite
      <3>2. writer'[n].acks = 0 /\ writer'[n].targets \in {v \ {n} : v \in View(n)}
        BY <1>3, <2>2, BeginShape
      <3>3. QED
        BY <3>1, <3>2 DEF WriteStarts
    <2>3. QED
      BY <2>1, <2>2
  <1>4. ASSUME NEW m \in Node, NEW q \in Node, SendReplicate(m, q) PROVE Goal
    <2>1. CASE n # m
      BY <1>0, <1>1, <1>4, <2>1, SendShape
    <2>2. CASE n = m
      <3>1. writer[n] # NoWrite /\ writer[n].wait = None /\ q \in writer[n].todo
        BY <1>4, <2>2 DEF SendReplicate
      <3>2. /\ \/ writer'[n] = [writer[n] EXCEPT !.todo = @ \ {q}, !.wait = q]
               \/ writer'[n] = [writer[n] EXCEPT !.todo = @ \ {q}]
            /\ writer[n] \in WriterType
        BY <1>0, <1>4, <2>2, SendShape
      <3>3. /\ writer'[n].entry = writer[n].entry /\ writer'[n].targets = writer[n].targets
            /\ writer'[n].pc = writer[n].pc /\ writer'[n].acks = writer[n].acks
            /\ writer'[n].todo = writer[n].todo \ {q} /\ writer'[n].wait \in {q, None}
        BY <3>1, <3>2 DEF WriterType
      <3>4. Called(writer[n]) \subseteq Called(writer'[n])
        BY <3>1, <3>3 DEF Called
      <3>5. QED
        BY <3>1, <3>3, <3>4 DEF WriteMoves, WriteCalls
    <2>3. QED
      BY <2>1, <2>2
  <1>5. ASSUME NEW m \in Node, ReplicateTimeout(m) PROVE Goal
    <2>1. CASE n # m
      BY <1>0, <1>1, <1>5, <2>1, TimeoutShape
    <2>2. CASE n = m
      <3>1. writer[n] # NoWrite /\ writer[n] \in WriterType /\ writer'[n] = [writer[n] EXCEPT !.wait = None]
        BY <1>0, <1>5, <2>2, TimeoutShape
      <3>2. /\ writer'[n].entry = writer[n].entry /\ writer'[n].targets = writer[n].targets
            /\ writer'[n].pc = writer[n].pc /\ writer'[n].acks = writer[n].acks
            /\ writer'[n].todo = writer[n].todo /\ writer'[n].wait = None /\ writer[n].targets \subseteq Node
        BY <3>1 DEF WriterType
      <3>3. Called(writer[n]) \subseteq Called(writer'[n])
        BY <1>0, <3>2 DEF Called
      <3>4. QED
        BY <3>1, <3>2, <3>3 DEF WriteMoves, WriteCalls
    <2>3. QED
      BY <2>1, <2>2
  <1>6. ASSUME NEW m \in Node, PrepareDone(m) PROVE Goal
    <2>1. CASE n # m
      BY <1>1, <1>6, <2>1, PrepareDoneShape
    <2>2. CASE n = m
      <3>1. writer[n] # NoWrite /\ writer[n] \in WriterType /\ writer'[n] = EnterCommit(writer[n])
        BY <1>6, <2>2, PrepareDoneShape
      <3>2. writer'[n].entry = writer[n].entry /\ writer'[n].targets = writer[n].targets /\ writer'[n].acks = 0
        BY <3>1 DEF WriterType, EnterCommit
      <3>3. QED
        BY <3>1, <3>2 DEF WriteMoves
    <2>3. QED
      BY <2>1, <2>2
  <1>7. ASSUME NEW m \in Node, CommitDone(m) PROVE Goal
    BY <1>1, <1>7, CommitDoneShape
  <1>8. ASSUME NEW msg \in net, ReplicateResponse(msg),
               msg.phase = "commit" => HandleCommit(msg)
        PROVE  Goal
    <2>1. CASE writer'[n] = writer[n]
      BY <1>1, <2>1
    <2>2. CASE writer'[n] # writer[n]
      <3>1. /\ writer[n] # NoWrite /\ writer[n].wait = msg.to /\ Message0(n, msg.to) = msg
            /\ writer'[n] = [writer[n] EXCEPT !.wait = None, !.acks = @ + 1]
        BY <1>0, <1>8, <2>2, ResponseShape
      <3>2. msg.to \in Node /\ writer[n] \in WriterType /\ WriterOK(n, writer[n])
        BY <1>0, <3>1, Shapes, ToApplyIs
      <3>3. /\ writer'[n].entry = writer[n].entry /\ writer'[n].targets = writer[n].targets
            /\ writer'[n].pc = writer[n].pc /\ writer'[n].acks = writer[n].acks + 1
            /\ writer'[n].todo = writer[n].todo /\ writer'[n].wait = None /\ writer[n].targets \subseteq Node
        BY <3>1, <3>2 DEF WriterType
      <3>4. writer[n].wait \in writer[n].targets /\ writer[n].wait \notin writer[n].todo
        BY <1>0, <3>1, <3>2 DEF WriterOK
      <3>5. /\ Called(writer'[n]) = Called(writer[n]) \cup {writer[n].wait}
            /\ writer[n].wait \notin Called(writer[n])
        BY <1>0, <3>3, <3>4 DEF Called
      <3>6. ASSUME writer[n].pc = "commit"
            PROVE  store'[writer[n].wait][writer[n].entry.key] = EntryRecord(writer[n].entry)
        <4>1. msg.phase = "commit" /\ msg.entry = writer[n].entry
          BY <3>1, <3>6 DEF Message0
        <4>2. ToApply(msg) = msg.entry
          BY AppliesItsEntry
        <4>3. writer[n].entry.key \in Key
          BY <3>2 DEF WriterType, Entry
        <4>4. store'[msg.to][msg.entry.key] = EntryRecord(msg.entry)
          BY <1>0, <1>8, <3>2, <4>1, <4>2, <4>3, CommitShape
        <4>5. QED
          BY <3>1, <4>1, <4>4
      <3>7. WriteCounts(n)
        BY <3>1, <3>2, <3>3, <3>5, <3>6 DEF WriteCounts
      <3>8. QED
        BY <3>1, <3>3, <3>7 DEF WriteMoves
    <2>3. QED
      BY <2>1, <2>2
  <1>9. ASSUME NEW msg \in net, HandlePrepare(msg) \/ HandleCommit(msg) PROVE Goal
    BY <1>8, <1>9 DEF HandlePrepare, HandleCommit
  <1>10. ASSUME NEW m \in Node, AsyncReplicate(m) \/ ReaderStep(m) PROVE Goal
    BY <1>1, <1>10 DEF AsyncReplicate, ReaderStep, ReadFails, FinishRead, RemoteRead
  <1>11. ASSUME NEW m \in Node, NEW k \in Key, NEW level \in ReadLevels, StartRead(m, k, level) PROVE Goal
    BY <1>1, <1>11 DEF StartRead
  <1>12. ASSUME NEW m \in Node, Restart(m) PROVE Goal
    <2>1. writer'[n] = writer[n] \/ writer'[n] = NoWrite
      BY <1>0, <1>12 DEF Restart, ShapeInv, WriterShape
    <2>2. QED
      BY <1>1, <2>1
  <1>13. ASSUME NEW p \in repairs, RepairCheck(p) \/ RepairSet(p) PROVE Goal
    BY <1>1, <1>13 DEF RepairCheck, RepairSet
  <1>14. CASE LeaderChange \/ UNCHANGED vars
    BY <1>1, <1>14 DEF LeaderChange, vars
  <1>15. QED
    BY <1>2, <1>3, <1>4, <1>5, <1>6, <1>7, <1>9, <1>10, <1>11, <1>12, <1>13, <1>14
       DEF Next, WriterStep

\* A holder stays one.
LEMMA HoldersGrow ==
    ASSUME TypeInv, [Next]_vars, regressed' = {}, NEW k \in Key, OnlySets(k)',
           NEW S, S \subseteq Node, NEW x \in Nat
    PROVE  /\ Holders(S, k, x) \subseteq Holders(S, k, x)'
           /\ IsFiniteSet(Holders(S, k, x)')
           /\ Cardinality(Holders(S, k, x)) \in Nat /\ Cardinality(Holders(S, k, x)') \in Nat
           /\ Cardinality(Holders(S, k, x)) <= Cardinality(Holders(S, k, x)')
  <1>1. \A n \in Node : /\ store[n][k].id \in Nat /\ store'[n][k].id \in Nat
                        /\ store[n][k].id <= store'[n][k].id
    BY StoresGrow
  <1>2. Holders(S, k, x) \subseteq Holders(S, k, x)'
    BY <1>1 DEF Holders
  <1>3. IsFiniteSet(Holders(S, k, x)')
    <2>1. Holders(S, k, x)' \subseteq Node
      BY DEF Holders
    <2>2. QED
      BY <2>1, ReplicationAssumption, FS_Subset
  <1>4. QED
    BY <1>2, <1>3, CardinalityMono

\* The acknowledgements of a write in its commit phase.
LEMMA AcksStep ==
    ASSUME NEW l, StableLeader(l), TypeInv, StableInv(l), AcksInv(l), [Next]_vars, regressed' = {},
           NEW k \in Key, OnlySets(k)', NEW n \in Node,
           writer'[n] # NoWrite, writer'[n].pc = "commit", writer'[n].entry.key = k
    PROVE  writer'[n].acks <= Cardinality(Holders(Called(writer[n]), k, writer[n].entry.id)')
  <1>1. regressed = {} /\ OnlySets(k) /\ ShapeInv /\ ShapeInv' /\ TypeInv'
    BY StoresGrow, StepShape, TypeStep DEF TypeInv
  <1>2. PICK C, x : C = Called(writer'[n]) /\ x = writer'[n].entry.id
    OBVIOUS
  <1>3. writer'[n] \in WriterType
    BY <1>1 DEF ShapeInv, WriterShape
  <1>4. C \subseteq Node /\ x \in Nat /\ Holders(Called(writer[n]), k, writer[n].entry.id)' = Holders(C, k, x)'
    <2>1. C \subseteq Node /\ x \in Nat
      BY <1>2, <1>3 DEF Called, WriterType, Entry, WriteId
    <2>2. QED
      BY <1>2, <2>1 DEF Holders, Called
  <1>5. /\ IsFiniteSet(Holders(C, k, x)') /\ Cardinality(Holders(C, k, x)') \in Nat
        /\ Holders(C, k, x) \subseteq Holders(C, k, x)'
    BY <1>4, HoldersGrow
  <1>6. CASE writer'[n].acks = 0
    BY <1>4, <1>5, <1>6
  <1>7. ASSUME WriteMoves(n), writer'[n].pc = writer[n].pc, WriteCalls(n) \/ WriteCounts(n)
        PROVE  writer'[n].acks <= Cardinality(Holders(C, k, x)')
    <2>1. PICK D : D = Called(writer[n])
      OBVIOUS
    <2>2. x = writer[n].entry.id /\ writer[n] # NoWrite /\ writer[n].pc = "commit" /\ writer[n].entry.key = k
      BY <1>2, <1>7 DEF WriteMoves
    <2>3. writer[n].acks <= Cardinality(Holders(D, k, x))
      BY <1>1, <2>1, <2>2 DEF AcksInv
    <2>4. D \subseteq Node /\ writer[n].acks \in Nat /\ writer[n].entry \in Entry
      <3>1. writer[n] \in WriterType /\ Cardinality(Node) \in Nat
        BY <1>1, <2>2, Shapes, ReplicationAssumption, FS_CardinalityType
      <3>2. QED
        BY <2>1, <3>1 DEF Called, WriterType
    <2>5. /\ Holders(D, k, x) \subseteq Holders(D, k, x)' /\ IsFiniteSet(Holders(D, k, x)')
          /\ Cardinality(Holders(D, k, x)) \in Nat /\ Cardinality(Holders(D, k, x)') \in Nat
          /\ Cardinality(Holders(D, k, x)) <= Cardinality(Holders(D, k, x)')
      BY <1>4, <2>4, HoldersGrow
    <2>6. CASE WriteCalls(n)
      <3>1. D \subseteq C
        BY <1>2, <2>1, <2>6 DEF WriteCalls
      <3>2. Holders(D, k, x)' \subseteq Holders(C, k, x)'
        BY <3>1 DEF Holders
      <3>3. Cardinality(Holders(D, k, x)') <= Cardinality(Holders(C, k, x)')
        BY <1>5, <3>2, CardinalityMono
      <3>4. QED
        BY <1>5, <2>3, <2>4, <2>5, <2>6, <3>3 DEF WriteCalls
    <2>7. CASE WriteCounts(n)
      <3>1. PICK m : m = writer[n].wait
        OBVIOUS
      <3>2. m \in Node /\ m \notin D /\ C = D \cup {m} /\ store'[m][k] = EntryRecord(writer[n].entry)
        BY <1>2, <2>1, <2>2, <2>7, <3>1 DEF WriteCounts
      <3>3. writer[n].entry.op = "SET"
        <4>1. HasEntry(writer[n].entry)
          BY <2>2, Held
        <4>2. QED
          BY <1>1, <2>2, <4>1 DEF TypeInv, SourceInv, EntryOK, OnlySets, WritesOf
      <3>4. store'[m][k].id = x
        BY <2>2, <3>2, <3>3 DEF EntryRecord
      <3>5. Holders(D, k, x)' \cup {m} \subseteq Holders(C, k, x)' /\ m \notin Holders(D, k, x)'
        BY <1>4, <3>2, <3>4 DEF Holders
      <3>6. /\ Cardinality(Holders(D, k, x)' \cup {m}) = Cardinality(Holders(D, k, x)') + 1
            /\ Cardinality(Holders(D, k, x)' \cup {m}) <= Cardinality(Holders(C, k, x)')
        BY <1>5, <2>5, <3>5, FS_AddElement, CardinalityMono
      <3>7. QED
        BY <1>5, <2>3, <2>4, <2>5, <2>7, <3>6 DEF WriteCounts
    <2>8. QED
      BY <1>7, <2>6, <2>7
  <1>8. WriteStarts(n, l) \/ WriteMoves(n)
    BY WriterMoves
  <1>9. QED
    BY <1>4, <1>6, <1>7, <1>8 DEF WriteStarts, WriteMoves

\* The levels ask for a number of nodes.
LEMMA RequiredType ==
    /\ ReplicationFactor \in Nat /\ ReplicationFactor >= 1 /\ ReplicationFactor \div 2 + 1 \in Nat
    /\ \A level : Required(level) \in Nat
  <1>1. ReplicationFactor \in Nat /\ ReplicationFactor >= 1
    BY ReplicationAssumption, FS_CardinalityType
  <1>2. ReplicationFactor \div 2 + 1 \in Nat
    BY <1>1
  <1>3. QED
    BY <1>1, <1>2 DEF Required

\* A write that is acknowledged is on as many replicas as were counted.
LEMMA AckedHolders ==
    ASSUME NEW l, StableLeader(l), TypeInv, StableInv(l), AcksInv(l), [Next]_vars, regressed' = {},
           NEW k \in Key, OnlySets(k)', NEW x \in acked', x \in WritesOf(k)'
    PROVE  /\ store'[l][k].id >= x
           /\ Cardinality(Holders(Replicas[k], k, x)') >= Required(consistency)'
  <1>0. l \in Node /\ ShapeInv /\ ShapeInv' /\ Replicas[k] \subseteq Node /\ IsFiniteSet(Node)
        /\ consistency' = consistency
    BY StepShape, ReplicationAssumption, AckedStep DEF TypeInv, StableLeader
  <1>1. regressed = {} /\ OnlySets(k)
        /\ store[l][k].id \in Nat /\ store'[l][k].id \in Nat /\ store[l][k].id <= store'[l][k].id
    BY <1>0, StoresGrow
  <1>2. x \in Nat
    BY <1>0, HistKept DEF WritesOf
  <1>3. /\ Cardinality(Holders(Replicas[k], k, x)) \in Nat /\ Cardinality(Holders(Replicas[k], k, x)') \in Nat
        /\ Cardinality(Holders(Replicas[k], k, x)) <= Cardinality(Holders(Replicas[k], k, x)')
        /\ Required(consistency) \in Nat /\ Required(consistency)' = Required(consistency)
        /\ IsFiniteSet(Holders(Replicas[k], k, x)')
    BY <1>0, <1>2, HoldersGrow, RequiredType DEF Required
  <1>4. CASE x \in acked
    <2>1. x \in 1 .. Len(hist) /\ hist'[x] = hist[x]
      BY <1>0, <1>4, HistKept DEF ShapeInv, HistShape
    <2>2. x \in WritesOf(k)
      BY <2>1 DEF WritesOf
    <2>3. store[l][k].id >= x /\ Cardinality(Holders(Replicas[k], k, x)) >= Required(consistency)
      BY <1>1, <1>4, <2>2 DEF AcksInv
    <2>4. QED
      BY <1>1, <1>2, <1>3, <2>3
  <1>5. ASSUME NEW n \in Node, CommitDone(n), EnoughCommits(n), x = writer[n].entry.id
        PROVE  /\ store'[l][k].id >= x
               /\ Cardinality(Holders(Replicas[k], k, x)') >= Required(consistency)
    <2>1. /\ writer[n] # NoWrite /\ writer[n] \in WriterType /\ writer[n].entry \in Entry /\ n = l
      BY <1>5, CommitDoneShape, OnlyLeaderWrites DEF WriterType
    <2>2. EntryOK(hist, writer[n].entry) /\ hist' = hist
      BY <1>5, <2>1, Held DEF CommitDone, TypeInv, SourceInv
    <2>3. writer[n].entry.key = k /\ writer[n].entry.op = "SET"
      BY <1>1, <1>5, <2>2 DEF EntryOK, WritesOf, OnlySets
    <2>4. store'[n][k].id = x
      <3>1. Put(n, k, EntryRecord(writer[n].entry), "commit")
        BY <1>5, <2>3 DEF CommitDone, ApplyEntry
      <3>2. store'[n][k] = EntryRecord(writer[n].entry)
        BY <1>0, <2>1, <3>1, RecordOfEntry, PutStore DEF ShapeInv
      <3>3. QED
        BY <1>5, <2>3, <3>2 DEF EntryRecord
    <2>5. PICK D : D = Called(writer[n])
      OBVIOUS
    <2>6. /\ writer[n].pc = "commit" /\ writer[n].acks + 1 >= Required(consistency)
          /\ writer[n].targets \cup {n} \subseteq Replicas[k] /\ n \notin D /\ D \subseteq Replicas[k]
      <3>1. writer[n].pc = "commit" /\ writer[n].acks + 1 >= Required(consistency)
        BY <1>5 DEF CommitDone, CallsDone, EnoughCommits
      <3>2. writer[n].targets \cup {n} \subseteq Replicas[k]
        BY <2>1, <2>3 DEF AcksInv
      <3>3. WriterOK(n, writer[n])
        BY <1>0, <2>1, Shapes
      <3>4. QED
        BY <2>5, <3>1, <3>2, <3>3 DEF Called, WriterOK
    <2>7. writer[n].acks <= Cardinality(Holders(D, k, x)) /\ writer[n].acks \in Nat
      <3>1. writer[n].acks <= Cardinality(Holders(D, k, x))
        BY <1>1, <1>5, <2>1, <2>3, <2>5, <2>6 DEF AcksInv
      <3>2. writer[n].acks \in Nat
        BY <2>1, ReplicationAssumption, FS_CardinalityType DEF WriterType
      <3>3. QED
        BY <3>1, <3>2
    <2>8. /\ IsFiniteSet(Holders(D, k, x)') /\ Cardinality(Holders(D, k, x)) \in Nat
          /\ Cardinality(Holders(D, k, x)') \in Nat
          /\ Cardinality(Holders(D, k, x)) <= Cardinality(Holders(D, k, x)')
      BY <1>0, <1>2, <2>6, HoldersGrow
    <2>9. Holders(D, k, x)' \cup {n} \subseteq Holders(Replicas[k], k, x)' /\ n \notin Holders(D, k, x)'
      BY <1>2, <2>4, <2>6 DEF Holders
    <2>10. /\ Cardinality(Holders(D, k, x)' \cup {n}) = Cardinality(Holders(D, k, x)') + 1
           /\ Cardinality(Holders(D, k, x)' \cup {n}) <= Cardinality(Holders(Replicas[k], k, x)')
      BY <1>3, <2>8, <2>9, FS_AddElement, CardinalityMono
    <2>11. Cardinality(Holders(Replicas[k], k, x)') >= Required(consistency)
      BY <1>3, <2>6, <2>7, <2>8, <2>10
    <2>12. QED
      BY <1>2, <2>1, <2>4, <2>11
  <1>6. acked' = acked \/ \E n \in Node : /\ CommitDone(n) /\ EnoughCommits(n)
                                          /\ acked' = acked \cup {writer[n].entry.id}
    BY AckedStep
  <1>7. QED
    BY <1>3, <1>4, <1>5, <1>6

\* Every step keeps the count of the acknowledgements,
LEMMA AcksInvStep ==
    ASSUME NEW l, StableLeader(l), WithinReplicas(l), TypeInv, StableInv(l), AcksInv(l), [Next]_vars
    PROVE  AcksInv(l)'
  <1>0. ShapeInv /\ ShapeInv' /\ l \in Node
    BY StepShape DEF TypeInv, StableLeader
  <1>1. ASSUME NEW n \in Node, writer'[n] # NoWrite
        PROVE  writer'[n].targets \cup {n} \subseteq Replicas[writer'[n].entry.key]
    <2>1. CASE WriteMoves(n)
      BY <2>1 DEF WriteMoves, AcksInv
    <2>2. CASE WriteStarts(n, l)
      <3>1. writer'[n].entry.key \in Key
        BY <1>0, <1>1 DEF ShapeInv, WriterShape, WriterType, Entry
      <3>2. PICK v \in View(n) : writer'[n].targets = v \ {n}
        BY <2>2 DEF WriteStarts
      <3>3. PICK u \in Views : v = u \cup {n}
        BY <3>2 DEF View
      <3>4. u \cup {l} \subseteq Replicas[writer'[n].entry.key]
        BY <3>1 DEF WithinReplicas
      <3>5. QED
        BY <2>2, <3>2, <3>3, <3>4 DEF WriteStarts
    <2>3. QED
      BY <1>1, <2>1, <2>2, WriterMoves
  <1>2. ASSUME regressed' = {}, NEW k \in Key, OnlySets(k)', NEW n \in Node,
               writer'[n] # NoWrite, writer'[n].pc = "commit", writer'[n].entry.key = k
        PROVE  writer'[n].acks <= Cardinality(Holders(Called(writer[n]), k, writer[n].entry.id)')
    BY <1>2, AcksStep
  <1>3. ASSUME regressed' = {}, NEW k \in Key, OnlySets(k)', NEW x \in acked' \cap WritesOf(k)'
        PROVE  /\ store'[l][k].id >= x
               /\ Cardinality(Holders(Replicas[k], k, x)') >= Required(consistency)'
    BY <1>3, AckedHolders
  <1>4. QED
    BY <1>1, <1>2, <1>3 DEF AcksInv

\* which therefore holds throughout.
LEMMA AcksAlways ==
    ASSUME NEW l, StableLeader(l), WithinReplicas(l)
    PROVE  Spec => [](TypeInv /\ StableInv(l) /\ AcksInv(l))
  <1>1. Init => AcksInv(l)
    BY DEF Init, AcksInv
  <1>2. TypeInv /\ StableInv(l) /\ AcksInv(l) /\ [Next]_vars => AcksInv(l)'
    BY AcksInvStep
  <1>3. QED
    BY <1>1, <1>2, StableAlways, PTL DEF Spec

(* AcknowledgedIsStored: with a stable leader that only counts replicas,   *)
(* an acknowledged SET is on as many replicas as its level asks for, for   *)
(* any level, losses, late messages, reads, repairs and restarts of the    *)
(* followers, unless an older record overwrites a newer one.               *)
THEOREM AcknowledgedIsStored ==
    ASSUME NEW l, StableLeader(l), WithinReplicas(l)
    PROVE  Spec => []AckedIsStored
  <1>1. AcksInv(l) => AckedIsStored
    BY DEF AcksInv, AckedIsStored, OnlySets, Holders
  <1>2. QED
    BY <1>1, AcksAlways, PTL

-----------------------------------------------------------------------------
(* Reads. *)

\* The record r of k is somewhere, or may be applied.
Known(k, r) == HasCopy(k, r) \/ \E e : HasEntry(e) /\ e.key = k /\ r = EntryRecord(e)

\* What a write had seen acknowledged when it started.
SeenInv ==
    /\ \A w \in 1 .. Len(hist) : hist[w].seen \subseteq acked
    /\ \A w, z \in 1 .. Len(hist) : w <= z => hist[w].seen \subseteq hist[z].seen

\* Later writes of a key have no smaller versions, and a greater one when the
\* earlier write was acknowledged before they started.
VersionInv(l) ==
    regressed = {} => \A k \in Key : OnlySets(k) =>
        /\ \A r, s : Known(k, r) /\ Known(k, s) /\ r.id <= s.id => r.ver <= s.ver
        /\ \A r : Known(k, r) => r.ver <= store[l][k].ver + 1
        /\ \A r, s : Known(k, r) /\ Known(k, s) /\ s.id # 0 /\ r.id \in hist[s.id].seen => r.ver < s.ver

\* Every answer of a GET is from another replica.
ReaderInv ==
    \A c \in Node : reader[c] # NoRead =>
        /\ reader[c].seen \subseteq acked /\ reader[c].todo \subseteq Replicas[reader[c].key]
        /\ \A a \in reader[c].got : a.node \in Replicas[reader[c].key] \ reader[c].todo
        /\ \A a, b \in reader[c].got : a.node = b.node => a = b

\* The replicas that have write x of k and did not answer this GET before.
Witnesses(got, k, x) ==
    {m \in Replicas[k] : /\ store[m][k].id >= x
                         /\ ~\E a \in got : a.node = m /\ a.real /\ a.rec.id < x}

\* Enough of them are left for every write that the GET must see.
WitnessInv ==
    regressed = {} => \A c \in Node : reader[c] # NoRead /\ OnlySets(reader[c].key) =>
        \A x \in reader[c].seen \cap WritesOf(reader[c].key) :
            Cardinality(Witnesses(reader[c].got, reader[c].key, x)) >= Required(consistency)

\* The answers that were given.
AnswerInv ==
    answer # NoAnswer =>
        /\ answer.seen \subseteq acked
        /\ /\ answer.real >= Required(answer.level) /\ regressed = {} /\ OnlySets(answer.key)
           /\ Required(answer.level) + Required(consistency) > ReplicationFactor
           => ~Superseded(answer.rec.id, answer.key, answer.seen)

FreshInv(l) == SeenInv /\ VersionInv(l) /\ ReaderInv /\ WitnessInv /\ AnswerInv

\* A write that starts has seen all that earlier ones had seen.
LEMMA SeenStep ==
    ASSUME TypeInv, SeenInv, [Next]_vars
    PROVE  SeenInv' /\ acked \subseteq acked'
  <1>0. ShapeInv
    BY DEF TypeInv
  <1>1. acked \subseteq acked'
    BY AckedStep
  <1>2. CASE hist' = hist
    BY <1>1, <1>2 DEF SeenInv
  <1>3. ASSUME NEW n \in Node, NEW op \in Ops, NEW k \in Key, Started(n, op, k)
        PROVE  SeenInv'
    <2>1. PICK h : h = [op |-> op, key |-> k, seen |-> acked]
      OBVIOUS
    <2>2. h.seen = acked
      BY <2>1
    <2>3. /\ Len(hist) \in Nat /\ Len(hist') = Len(hist) + 1
          /\ \A i \in 1 .. Len(hist) : hist'[i] = hist[i]
          /\ hist'[Len(hist) + 1] = h
      BY <1>0, <1>3, <2>1, HistGrows, Shapes
    <2>4. \A w \in 1 .. Len(hist') : w \in 1 .. Len(hist) \/ w = Len(hist) + 1
      BY <2>3
    <2>5. \A w \in 1 .. Len(hist') : hist'[w].seen \subseteq acked
      BY <2>2, <2>3, <2>4 DEF SeenInv
    <2>6. ASSUME NEW w \in 1 .. Len(hist'), NEW z \in 1 .. Len(hist'), w <= z
          PROVE  hist'[w].seen \subseteq hist'[z].seen
      <3>1. CASE z = Len(hist) + 1
        BY <2>2, <2>3, <2>5, <3>1
      <3>2. CASE z \in 1 .. Len(hist)
        <4>1. w \in 1 .. Len(hist)
          BY <2>3, <2>6, <3>2
        <4>2. QED
          BY <2>3, <2>6, <3>2, <4>1 DEF SeenInv
      <3>3. QED
        BY <2>4, <3>1, <3>2
    <2>7. QED
      BY <1>1, <2>5, <2>6 DEF SeenInv
  <1>4. QED
    BY <1>0, <1>1, <1>2, <1>3, HistKept

\* Where the records come from that a step makes known.
LEMMA KnownSource ==
    ASSUME TypeInv, [Next]_vars, NEW k \in Key
    PROVE  \/ \A r : Known(k, r)' => Known(k, r) \/ r = Absent
           \/ \E n \in Node, op \in Ops : BeginWrite(n, op, k)
  <1>0. ShapeInv
    BY DEF TypeInv
  <1>1. ASSUME NEW r, HasCopy(k, r)' PROVE Known(k, r) \/ r = Absent
    BY <1>0, <1>1, CopySource, AppliedEntry DEF Known
  <1>2. CASE \A e : HasEntry(e)' => HasEntry(e)
    BY <1>1, <1>2 DEF Known
  <1>3. ASSUME NEW n \in Node, NEW op \in Ops, NEW q \in Key, BeginWrite(n, op, q), q # k
        PROVE  \A r : Known(k, r)' => Known(k, r) \/ r = Absent
    <2>1. PICK d : d = [id |-> Len(hist) + 1, op |-> op, key |-> q,
                        ver |-> NextVersion(n, q), index |-> seq[n] + 1, coord |-> n]
      OBVIOUS
    <2>2. d.key = q /\ \A e : HasEntry(e)' => HasEntry(e) \/ e = d
      BY <1>3, <2>1, BeginShape
    <2>3. QED
      BY <1>1, <1>3, <2>2 DEF Known
  <1>4. QED
    BY <1>2, <1>3, StepShape

\* Known records are records of writes of the key.
LEMMA KnownFacts ==
    ASSUME TypeInv, NEW k \in Key, NEW r, Known(k, r)
    PROVE  /\ r.id \in Nat /\ r.ver \in Nat /\ Len(hist) \in Nat
           /\ IF r.id = 0 THEN r.ver = 0 ELSE r.id \in WritesOf(k) /\ r.id \in 1 .. Len(hist)
  <1>0. ShapeInv /\ Len(hist) \in Nat /\ Absent.id = 0 /\ Absent.ver = 0
    BY Shapes DEF TypeInv
  <1>1. RecordOK(hist, k, r)
    <2>1. CASE HasCopy(k, r)
      BY <2>1 DEF TypeInv, SourceInv
    <2>2. ASSUME NEW e, HasEntry(e), e.key = k, r = EntryRecord(e) PROVE RecordOK(hist, k, r)
      <3>1. EntryOK(hist, e)
        BY <2>2 DEF TypeInv, SourceInv
      <3>2. CASE e.op = "SET"
        <4>1. r.id = e.id /\ r.ver = e.ver
          BY <2>2, <3>2 DEF EntryRecord
        <4>2. QED
          BY <1>0, <2>2, <3>1, <4>1 DEF RecordOK, EntryOK
      <3>3. CASE e.op # "SET"
        BY <1>0, <2>2, <3>3 DEF RecordOK, EntryRecord
      <3>4. QED
        BY <3>2, <3>3
    <2>3. QED
      BY <2>1, <2>2 DEF Known
  <1>2. QED
    BY <1>0, <1>1 DEF RecordOK, WritesOf

\* The leader's version of k never falls.
LEMMA LeaderVersion ==
    ASSUME NEW l, StableLeader(l), TypeInv, VersionInv(l), [Next]_vars, regressed' = {},
           NEW k \in Key, OnlySets(k)'
    PROVE  /\ store[l][k].ver \in Nat /\ store'[l][k].ver \in Nat
           /\ store[l][k].ver <= store'[l][k].ver
           /\ Known(k, store[l][k])
  <1>0. l \in Node /\ ShapeInv /\ ShapeInv' /\ regressed = {} /\ OnlySets(k) /\ Absent.id = 0
    BY StepShape, StoresGrow, Shapes DEF TypeInv, StableLeader
  <1>1. store[l][k].ver \in Nat /\ store'[l][k].ver \in Nat
    BY <1>0, ReplicationAssumption DEF ShapeInv, StoreShape, Record
  <1>2. store[l][k].id \in Nat /\ store'[l][k].id \in Nat /\ store[l][k].id <= store'[l][k].id
    BY <1>0, StoresGrow
  <1>3. HasCopy(k, store[l][k]) /\ Known(k, store[l][k])
    BY <1>0 DEF HasCopy, Known
  <1>4. PICK r : r = store'[l][k]
    OBVIOUS
  <1>5. HasCopy(k, r)'
    BY <1>0, <1>4 DEF HasCopy
  <1>6. Known(k, r) \/ r = Absent
    BY <1>0, <1>5, CopySource, AppliedEntry DEF Known
  <1>7. CASE Known(k, r)
    <2>1. store[l][k].ver <= r.ver
      BY <1>0, <1>2, <1>3, <1>4, <1>7 DEF VersionInv
    <2>2. QED
      BY <1>1, <1>3, <1>4, <2>1
  <1>8. CASE r = Absent
    <2>1. store[l][k].id = 0
      BY <1>0, <1>2, <1>4, <1>8
    <2>2. store[l][k].ver = 0
      BY <1>3, <2>1, KnownFacts
    <2>3. QED
      BY <1>1, <1>3, <2>2
  <1>9. QED
    BY <1>6, <1>7, <1>8

\* A write that starts gets a version above all that its key has at the leader.
LEMMA VersionStep ==
    ASSUME NEW l, StableLeader(l), TypeInv, StableInv(l), AcksInv(l), SeenInv, VersionInv(l), [Next]_vars
    PROVE  VersionInv(l)'
  <1> SUFFICES ASSUME regressed' = {}, NEW k \in Key, OnlySets(k)'
               PROVE  /\ \A r, s : Known(k, r)' /\ Known(k, s)' /\ r.id <= s.id => r.ver <= s.ver
                      /\ \A r : Known(k, r)' => r.ver <= store'[l][k].ver + 1
                      /\ \A r, s : Known(k, r)' /\ Known(k, s)' /\ s.id # 0 /\ r.id \in hist'[s.id].seen
                                     => r.ver < s.ver
    BY DEF VersionInv
  <1>0. /\ l \in Node /\ ShapeInv /\ ShapeInv' /\ regressed = {} /\ OnlySets(k)
        /\ Absent.id = 0 /\ Absent.ver = 0 /\ Len(hist) \in Nat
        /\ acked \subseteq 1 .. Len(hist)
    BY StepShape, StoresGrow, Shapes DEF TypeInv, StableLeader, ShapeInv, HistShape
  <1>1. /\ store[l][k].ver \in Nat /\ store'[l][k].ver \in Nat /\ store[l][k].ver <= store'[l][k].ver
        /\ Known(k, store[l][k]) /\ store[l][k].id \in Nat
    BY <1>0, LeaderVersion, KnownFacts
  <1>2. \A i \in 1 .. Len(hist) : i \in 1 .. Len(hist') /\ hist'[i] = hist[i]
    BY <1>0, HistKept
  <1>3. /\ \A r, s : Known(k, r) /\ Known(k, s) /\ r.id <= s.id => r.ver <= s.ver
        /\ \A r : Known(k, r) => r.ver <= store[l][k].ver + 1
        /\ \A r, s : Known(k, r) /\ Known(k, s) /\ s.id # 0 /\ r.id \in hist[s.id].seen => r.ver < s.ver
    BY <1>0 DEF VersionInv
  <1>4. \A r : Known(k, r) => /\ r.id \in Nat /\ r.ver \in Nat
                              /\ IF r.id = 0 THEN r.ver = 0 ELSE r.id \in WritesOf(k) /\ r.id \in 1 .. Len(hist)
    BY KnownFacts
  <1>5. \A w \in 1 .. Len(hist) : hist[w].seen \subseteq 1 .. Len(hist)
    BY <1>0 DEF SeenInv
  <1>6. CASE \A r : Known(k, r)' => Known(k, r) \/ r = Absent
    <2>1. ASSUME NEW r, NEW s, Known(k, r)', Known(k, s)', r.id <= s.id PROVE r.ver <= s.ver
      BY <1>0, <1>3, <1>4, <1>6, <2>1
    <2>2. ASSUME NEW r, Known(k, r)' PROVE r.ver <= store'[l][k].ver + 1
      BY <1>0, <1>1, <1>3, <1>4, <1>6, <2>2
    <2>3. ASSUME NEW r, NEW s, Known(k, r)', Known(k, s)', s.id # 0, r.id \in hist'[s.id].seen PROVE r.ver < s.ver
      <3>1. Known(k, s) /\ s.id \in 1 .. Len(hist) /\ hist'[s.id] = hist[s.id]
        BY <1>0, <1>2, <1>4, <1>6, <2>3
      <3>2. r.id # 0
        BY <1>5, <2>3, <3>1
      <3>3. QED
        BY <1>0, <1>3, <1>6, <2>3, <3>1, <3>2
    <2>4. QED
      BY <2>1, <2>2, <2>3
  <1>7. ASSUME NEW n \in Node, NEW op \in Ops, BeginWrite(n, op, k)
        PROVE  /\ \A r, s : Known(k, r)' /\ Known(k, s)' /\ r.id <= s.id => r.ver <= s.ver
               /\ \A r : Known(k, r)' => r.ver <= store'[l][k].ver + 1
               /\ \A r, s : Known(k, r)' /\ Known(k, s)' /\ s.id # 0 /\ r.id \in hist'[s.id].seen
                              => r.ver < s.ver
    <2>1. n = l /\ store' = store /\ reader' = reader /\ repairs' = repairs /\ Started(n, op, k)
      BY <1>7, SeqStep DEF BeginWrite
    <2>2. PICK d : d = [id |-> Len(hist) + 1, op |-> op, key |-> k,
                        ver |-> NextVersion(n, k), index |-> seq[n] + 1, coord |-> n]
      OBVIOUS
    <2>3. \A e : HasEntry(e)' => HasEntry(e) \/ e = d
      BY <1>7, <2>2, BeginShape
    <2>4. PICK t : t = EntryRecord(d)
      OBVIOUS
    <2>5. op = "SET" /\ hist'[Len(hist) + 1].seen = acked
      <3>1. hist'[Len(hist) + 1] = [op |-> op, key |-> k, seen |-> acked]
        BY <1>0, <2>1, HistGrows
      <3>2. Len(hist) + 1 \in 1 .. Len(hist')
        BY <1>0, <2>1, HistGrows
      <3>3. QED
        BY <3>1, <3>2 DEF OnlySets, WritesOf
    <2>6. \A r : Known(k, r)' => Known(k, r) \/ r = t
      BY <2>1, <2>3, <2>4 DEF Known, HasCopy
    <2>7. t.id = Len(hist) + 1 /\ t.ver = store[l][k].ver + 1
      BY <2>1, <2>2, <2>4, <2>5 DEF EntryRecord, NextVersion
    <2>8. ASSUME NEW r, NEW s, Known(k, r)', Known(k, s)', r.id <= s.id PROVE r.ver <= s.ver
      BY <1>0, <1>1, <1>3, <1>4, <2>6, <2>7, <2>8
    <2>9. ASSUME NEW r, Known(k, r)' PROVE r.ver <= store'[l][k].ver + 1
      BY <1>1, <1>3, <2>1, <2>6, <2>7, <2>9
    <2>10. ASSUME NEW r, NEW s, Known(k, r)', Known(k, s)', s.id # 0, r.id \in hist'[s.id].seen PROVE r.ver < s.ver
      <3>1. CASE s = t
        <4>1. r.id \in acked /\ Known(k, r) /\ r.id # 0
          BY <1>0, <2>5, <2>6, <2>7, <2>10, <3>1
        <4>2. r.id \in WritesOf(k)
          BY <1>4, <4>1
        <4>3. store[l][k].id >= r.id
          BY <1>0, <4>1, <4>2 DEF AcksInv
        <4>4. r.ver <= store[l][k].ver /\ r.ver \in Nat
          BY <1>1, <1>3, <1>4, <4>1, <4>3
        <4>5. QED
          BY <1>1, <2>7, <3>1, <4>4
      <3>2. CASE s # t
        <4>1. Known(k, s) /\ s.id \in 1 .. Len(hist) /\ hist'[s.id] = hist[s.id]
          BY <1>2, <1>4, <2>6, <2>10, <3>2
        <4>2. r.id \in 1 .. Len(hist)
          BY <1>5, <2>10, <4>1
        <4>3. Known(k, r)
          BY <1>0, <2>6, <2>7, <2>10, <4>2
        <4>4. QED
          BY <1>3, <2>10, <4>1, <4>3
      <3>3. QED
        BY <3>1, <3>2
    <2>11. QED
      BY <2>8, <2>9, <2>10
  <1>8. QED
    BY <1>6, <1>7, KnownSource

\* How a step moves a GET: it starts with the local answer, or gets one more.
ReadStarts(c) ==
    /\ reader'[c].key \in Key
    /\ reader'[c].seen = acked /\ reader'[c].todo = Replicas[reader'[c].key] \ {c}
    /\ reader'[c].got = IF c \in Replicas[reader'[c].key] THEN {LocalRead(c, reader'[c].key)} ELSE {}
ReadMoves(c) ==
    /\ reader[c] # NoRead /\ reader'[c].key = reader[c].key /\ reader'[c].seen = reader[c].seen
    /\ \E a : /\ a.node \in reader[c].todo
              /\ a.real => a.rec = store[a.node][reader[c].key]
              /\ reader'[c].todo = reader[c].todo \ {a.node}
              /\ reader'[c].got = reader[c].got \cup {a}

\* There are no other ways.
LEMMA ReaderMoves ==
    ASSUME TypeInv, [Next]_vars, NEW c \in Node, reader'[c] # NoRead
    PROVE  reader'[c] = reader[c] \/ (store' = store /\ (ReadStarts(c) \/ ReadMoves(c)))
  <1> DEFINE Goal == reader'[c] = reader[c] \/ (store' = store /\ (ReadStarts(c) \/ ReadMoves(c)))
  <1>0. ShapeInv
    BY DEF TypeInv
  <1>1. ASSUME NEW n \in Node, NEW op \in Ops, NEW k \in Key, RefuseWrite(n, op, k) \/ BeginWrite(n, op, k)
        PROVE  Goal
    BY <1>1 DEF RefuseWrite, BeginWrite
  <1>2. ASSUME NEW n \in Node, WriterStep(n) \/ AsyncReplicate(n) PROVE Goal
    BY <1>2 DEF WriterStep, SendReplicate, ReplicateTimeout, PrepareDone, CommitDone, AsyncReplicate
  <1>3. ASSUME NEW n \in Node, NEW k \in Key, NEW level \in ReadLevels, StartRead(n, k, level) PROVE Goal
    <2>1. store' = store
      BY <1>3 DEF StartRead, nodeState
    <2>2. reader \in [Node -> ReaderType \cup {NoRead}]
      BY <1>0 DEF ShapeInv, ReaderShape
    <2>3. PICK r : r = [pc |-> "reading", key |-> k, level |-> level, seen |-> acked,
                        todo |-> Replicas[k] \ {n},
                        got |-> IF n \in Replicas[k] THEN {LocalRead(n, k)} ELSE {}]
      OBVIOUS
    <2>4. reader' = [reader EXCEPT ![n] = r]
      BY <1>3, <2>3 DEF StartRead
    <2>5. CASE c # n
      BY <2>2, <2>4, <2>5
    <2>6. CASE c = n
      <3>1. reader'[c] = r
        BY <2>2, <2>4, <2>6
      <3>2. /\ r.key = k /\ r.seen = acked /\ r.todo = Replicas[k] \ {c}
            /\ r.got = IF c \in Replicas[k] THEN {LocalRead(c, k)} ELSE {}
        BY <2>3, <2>6
      <3>3. ReadStarts(c)
        BY <3>1, <3>2 DEF ReadStarts
      <3>4. QED
        BY <2>1, <3>3
    <2>7. QED
      BY <2>5, <2>6
  <1>4. ASSUME NEW n \in Node, NEW m \in Node, RemoteRead(n, m) PROVE Goal
    <2>1. store' = store
      BY <1>4 DEF RemoteRead, nodeState
    <2>2. CASE c # n
      BY <1>0, <1>4, <2>2, RemoteReadShape
    <2>3. CASE c = n
      <3>1. reader[c] # NoRead /\ reader[c] \in ReaderType /\ m \in reader[c].todo
        BY <1>0, <1>4, <2>3, RemoteReadShape
      <3>2. PICK real \in BOOLEAN :
             reader'[c] = [reader[c] EXCEPT !.todo = @ \ {m},
                    !.got = @ \cup {[node |-> m, real |-> real,
                                     rec |-> IF real THEN store[m][reader[c].key] ELSE Absent]}]
        BY <1>0, <1>4, <2>3, RemoteReadShape
      <3>3. PICK a : a = [node |-> m, real |-> real,
                          rec |-> IF real THEN store[m][reader[c].key] ELSE Absent]
        OBVIOUS
      <3>4. a.node = m /\ (a.real => a.rec = store[a.node][reader[c].key])
        BY <3>3
      <3>5. /\ reader'[c].key = reader[c].key /\ reader'[c].seen = reader[c].seen
            /\ reader'[c].todo = reader[c].todo \ {m} /\ reader'[c].got = reader[c].got \cup {a}
        BY <3>1, <3>2, <3>3 DEF ReaderType
      <3>6. ReadMoves(c)
        BY <3>1, <3>4, <3>5 DEF ReadMoves
      <3>7. QED
        BY <2>1, <3>6
    <2>4. QED
      BY <2>2, <2>3
  <1>5. ASSUME NEW n \in Node, reader' = [reader EXCEPT ![n] = NoRead] PROVE Goal
    BY <1>0, <1>5 DEF ShapeInv, ReaderShape
  <1>6. ASSUME NEW n \in Node, ReadFails(n) \/ FinishRead(n) \/ Restart(n) PROVE Goal
    BY <1>5, <1>6 DEF ReadFails, FinishRead, Restart
  <1>7. ASSUME NEW msg \in net, HandlePrepare(msg) \/ HandleCommit(msg) PROVE Goal
    BY <1>7 DEF HandlePrepare, HandleCommit
  <1>8. ASSUME NEW p \in repairs, RepairCheck(p) \/ RepairSet(p) PROVE Goal
    BY <1>8 DEF RepairCheck, RepairSet
  <1>9. CASE LeaderChange \/ UNCHANGED vars
    BY <1>9 DEF LeaderChange, vars
  <1>10. QED
    BY <1>1, <1>2, <1>3, <1>4, <1>6, <1>7, <1>8, <1>9 DEF Next, ReaderStep

\* Each replica of the key answers a GET at most once.
LEMMA ReaderInvStep ==
    ASSUME TypeInv, ReaderInv, [Next]_vars
    PROVE  ReaderInv'
  <1>0. acked \subseteq acked'
    BY AckedStep
  <1> SUFFICES ASSUME NEW c \in Node, reader'[c] # NoRead
               PROVE  /\ reader'[c].seen \subseteq acked' /\ reader'[c].todo \subseteq Replicas[reader'[c].key]
                      /\ \A a \in reader'[c].got : a.node \in Replicas[reader'[c].key] \ reader'[c].todo
                      /\ \A a, b \in reader'[c].got : a.node = b.node => a = b
    BY DEF ReaderInv
  <1>1. CASE reader'[c] = reader[c]
    BY <1>0, <1>1 DEF ReaderInv
  <1>2. CASE ReadStarts(c)
    <2>1. LocalRead(c, reader'[c].key).node = c
      BY DEF LocalRead
    <2>2. QED
      BY <1>0, <1>2, <2>1 DEF ReadStarts
  <1>3. CASE ReadMoves(c)
    <2>1. PICK a : /\ a.node \in reader[c].todo
                   /\ reader'[c].todo = reader[c].todo \ {a.node}
                   /\ reader'[c].got = reader[c].got \cup {a}
      BY <1>3 DEF ReadMoves
    <2>2. reader[c] # NoRead /\ reader'[c].key = reader[c].key /\ reader'[c].seen = reader[c].seen
      BY <1>3 DEF ReadMoves
    <2>3. \A b \in reader[c].got : b.node # a.node
      BY <2>1, <2>2 DEF ReaderInv
    <2>4. QED
      BY <1>0, <2>1, <2>2, <2>3 DEF ReaderInv
  <1>4. QED
    BY <1>1, <1>2, <1>3, ReaderMoves

\* An answer that is taken does not make a witness of its replica disappear.
LEMMA WitnessStep ==
    ASSUME NEW l, TypeInv, AcksInv(l), SeenInv, ReaderInv, WitnessInv, [Next]_vars
    PROVE  WitnessInv'
  <1> SUFFICES ASSUME regressed' = {}, NEW c \in Node, reader'[c] # NoRead, OnlySets(reader[c].key)',
                      NEW x \in reader'[c].seen, x \in WritesOf(reader[c].key)'
               PROVE  Cardinality(Witnesses(reader[c].got, reader[c].key, x)') >= Required(consistency)'
    BY DEF WitnessInv
  <1>0. ShapeInv /\ ShapeInv'
    BY StepShape DEF TypeInv
  <1>1. PICK k, got : k = reader'[c].key /\ got = reader'[c].got /\ OnlySets(k)'
    BY DEF OnlySets, WritesOf
  <1>2. k \in Key /\ Replicas[k] \subseteq Node /\ IsFiniteSet(Node) /\ IsFiniteSet(Replicas[k])
    <2>1. reader'[c] \in ReaderType
      BY <1>0 DEF ShapeInv, ReaderShape
    <2>2. k \in Key
      BY <1>1, <2>1 DEF ReaderType
    <2>3. QED
      BY <2>2, ReplicationAssumption, FS_Subset
  <1>3. /\ Required(consistency)' = Required(consistency) /\ Required(consistency) \in Nat
        /\ Witnesses(reader[c].got, reader[c].key, x)' = Witnesses(got, k, x)'
    BY <1>1, AckedStep, RequiredType DEF Required, Witnesses
  <1>4. /\ regressed = {} /\ OnlySets(k)
        /\ \A n \in Node : /\ store[n][k].id \in Nat /\ store'[n][k].id \in Nat
                           /\ store[n][k].id <= store'[n][k].id
    BY <1>1, <1>2, StoresGrow
  <1>5. x \in acked' /\ x \in 1 .. Len(hist') /\ x \in Nat
    BY <1>0, HistKept, ReaderInvStep DEF ReaderInv, WritesOf
  <1>6. ASSUME NEW S, S \subseteq Witnesses(got, k, x)', Cardinality(S) >= Required(consistency)
        PROVE  Cardinality(Witnesses(got, k, x)') >= Required(consistency)
    <2>1. Witnesses(got, k, x)' \subseteq Replicas[k]
      BY DEF Witnesses
    <2>2. IsFiniteSet(Witnesses(got, k, x)')
      BY <1>2, <2>1, FS_Subset
    <2>3. /\ Cardinality(S) <= Cardinality(Witnesses(got, k, x)') /\ Cardinality(S) \in Nat
          /\ Cardinality(Witnesses(got, k, x)') \in Nat
      BY <1>6, <2>2, CardinalityMono
    <2>4. QED
      BY <1>3, <1>6, <2>3
  <1>7. ASSUME reader[c] # NoRead, reader[c].key = k, x \in reader[c].seen
        PROVE  Cardinality(Witnesses(reader[c].got, k, x)) >= Required(consistency)
    <2>1. x \in 1 .. Len(hist) /\ hist'[x] = hist[x]
      BY <1>0, <1>7, HistKept DEF ReaderInv, ShapeInv, HistShape
    <2>2. x \in WritesOf(k)
      BY <1>1, <2>1 DEF WritesOf
    <2>3. QED
      BY <1>4, <1>7, <2>2 DEF WitnessInv
  <1>8. CASE reader'[c] = reader[c]
    <2>1. Witnesses(got, k, x) \subseteq Witnesses(got, k, x)'
      BY <1>2, <1>4, <1>5 DEF Witnesses
    <2>2. Cardinality(Witnesses(got, k, x)) >= Required(consistency)
      BY <1>1, <1>7, <1>8
    <2>3. QED
      BY <1>3, <1>6, <2>1, <2>2
  <1>9. CASE store' = store /\ ReadStarts(c)
    <2>1. x \in acked /\ got = IF c \in Replicas[k] THEN {LocalRead(c, k)} ELSE {}
      BY <1>1, <1>9 DEF ReadStarts
    <2>2. x \in WritesOf(k)
      <3>1. x \in 1 .. Len(hist) /\ hist'[x] = hist[x]
        BY <1>0, <2>1, HistKept DEF ShapeInv, HistShape
      <3>2. QED
        BY <1>1, <3>1 DEF WritesOf
    <2>3. Cardinality(Holders(Replicas[k], k, x)) >= Required(consistency)
      BY <1>2, <1>4, <2>1, <2>2 DEF AcksInv
    <2>4. \A a \in got : a.node = c /\ a.rec = store[c][k]
      BY <2>1 DEF LocalRead
    <2>5. Holders(Replicas[k], k, x) \subseteq Witnesses(got, k, x)'
      BY <1>2, <1>4, <1>5, <1>9, <2>4 DEF Holders, Witnesses
    <2>6. QED
      BY <1>3, <1>6, <2>3, <2>5
  <1>10. CASE store' = store /\ ReadMoves(c)
    <2>1. PICK a : /\ a.real => a.rec = store[a.node][k]
                   /\ got = reader[c].got \cup {a}
      BY <1>1, <1>10 DEF ReadMoves
    <2>2. reader[c] # NoRead /\ reader[c].key = k /\ x \in reader[c].seen
      BY <1>1, <1>10 DEF ReadMoves
    <2>3. PICK old : old = reader[c].got
      OBVIOUS
    <2>4. Witnesses(old, k, x) \subseteq Witnesses(got, k, x)'
      BY <1>2, <1>4, <1>5, <1>10, <2>1, <2>3 DEF Witnesses
    <2>5. Cardinality(Witnesses(old, k, x)) >= Required(consistency)
      BY <1>7, <2>2, <2>3
    <2>6. QED
      BY <1>3, <1>6, <2>4, <2>5
  <1>11. QED
    BY <1>8, <1>9, <1>10, ReaderMoves

\* A GET that enough replicas answered meets a witness of every write it must
\* see, and prefers its record to any that this write replaced.
LEMMA FinishIsFresh ==
    ASSUME NEW l, TypeInv, SeenInv, VersionInv(l), ReaderInv, WitnessInv, regressed = {},
           NEW c \in Node, reader[c] # NoRead, OnlySets(reader[c].key),
           Cardinality({a \in reader[c].got : a.real}) >= Required(reader[c].level),
           Required(reader[c].level) + Required(consistency) > ReplicationFactor
    PROVE  ~Superseded(Best(reader[c].got).id, reader[c].key, reader[c].seen)
  <1>1. PICK k, got, G : k = reader[c].key /\ got = reader[c].got /\ G = {a \in got : a.real}
    OBVIOUS
  <1>2. /\ ShapeInv /\ k \in Key /\ got \in SUBSET Answer /\ Len(hist) \in Nat
        /\ acked \subseteq 1 .. Len(hist)
    BY <1>1, Shapes DEF TypeInv, ReaderType, ShapeInv, HistShape
  <1>3. /\ IsFiniteSet(Replicas[k]) /\ Cardinality(Replicas[k]) = ReplicationFactor
    BY <1>2, ReplicationAssumption, FS_Subset
  <1>4. ASSUME NEW w \in reader[c].seen, hist[w].key = k,
               Best(got).id = 0 \/ Best(got).id \in hist[w].seen
        PROVE  FALSE
    <2>1. w \in 1 .. Len(hist) /\ w \in WritesOf(k)
      BY <1>2, <1>4 DEF ReaderInv, WritesOf
    <2>2. PICK A, B : A = {a.node : a \in G} /\ B = Witnesses(got, k, w)
      OBVIOUS
    <2>3. A \subseteq Replicas[k] /\ B \subseteq Replicas[k]
      BY <1>1, <2>2 DEF ReaderInv, Witnesses
    <2>4. IsFiniteSet(A) /\ IsFiniteSet(B) /\ Cardinality(A) \in Nat /\ Cardinality(B) \in Nat
      BY <1>3, <2>3, FS_Subset, FS_CardinalityType
    <2>5. Cardinality(G) <= Cardinality(A) /\ Cardinality(G) \in Nat
      <3>1. PICK f : f = [a \in G |-> a.node]
        OBVIOUS
      <3>2. f \in [G -> A] /\ \A a, b \in G : f[a] = f[b] => a = b
        BY <1>1, <2>2, <3>1 DEF ReaderInv
      <3>3. f \in Injection(G, A)
        BY <3>2 DEF Injection, IsInjective
      <3>4. IsFiniteSet(G) /\ Cardinality(G) <= Cardinality(A)
        BY <2>4, <3>3, FS_Injection
      <3>5. QED
        BY <3>4, FS_CardinalityType
    <2>6. Cardinality(B) >= Required(consistency)
      BY <1>1, <2>1, <2>2 DEF WitnessInv
    <2>7. Cardinality(A) + Cardinality(B) > Cardinality(Replicas[k])
      <3>1. Cardinality(G) >= Required(reader[c].level)
        BY <1>1
      <3>2. Required(reader[c].level) \in Nat /\ Required(consistency) \in Nat /\ ReplicationFactor \in Nat
        BY RequiredType
      <3>3. QED
        BY <1>3, <2>4, <2>5, <2>6, <3>1, <3>2
    <2>8. PICK m : m \in A /\ m \in B
      <3>1. A \cap B # {}
        BY <1>3, <2>3, <2>7, FS_MajoritiesIntersect
      <3>2. QED
        BY <3>1
    <2>9. PICK a \in got : a.node = m /\ a.real
      BY <1>1, <2>2, <2>8
    <2>10. a.rec \in Record /\ a.rec.id \in Nat /\ a.rec.id >= w /\ a.rec.id # 0
      <3>1. a.rec \in Record /\ a.rec.id \in Nat
        BY <1>2, ReplicationAssumption DEF Answer, Record
      <3>2. ~(a.rec.id < w)
        BY <2>2, <2>8, <2>9 DEF Witnesses
      <3>3. QED
        BY <1>2, <2>1, <3>1, <3>2
    <2>11. Known(k, a.rec) /\ a \in Present(got)
      <3>1. HasCopy(k, a.rec)
        BY <1>1 DEF HasCopy
      <3>2. a.rec # Absent
        BY <2>10 DEF Absent
      <3>3. QED
        BY <3>1, <3>2 DEF Known, Present
    <2>12. PICK b \in Present(got) : Best(got) = b.rec /\ ~SortsBefore(b.rec, a.rec)
      BY <1>2, <2>11, BestAnswer
    <2>13. Known(k, b.rec) /\ b.rec # Absent
      BY <1>1 DEF Known, HasCopy, Present
    <2>14. b.rec.id # 0
      <3>1. HasCopy(k, b.rec)
        BY <1>1 DEF HasCopy, Present
      <3>2. QED
        BY <1>2, <2>13, <3>1 DEF TypeInv, SourceInv, RecordOK
    <2>15. b.rec.id \in hist[a.rec.id].seen
      <3>1. a.rec.id \in 1 .. Len(hist)
        BY <1>2, <2>10, <2>11, KnownFacts
      <3>2. hist[w].seen \subseteq hist[a.rec.id].seen
        BY <2>1, <2>10, <3>1 DEF SeenInv
      <3>3. QED
        BY <1>4, <2>12, <2>14, <3>2
    <2>16. b.rec.ver < a.rec.ver
      BY <1>1, <1>2, <2>10, <2>11, <2>13, <2>15 DEF VersionInv
    <2>17. QED
      BY <2>12, <2>16 DEF SortsBefore
  <1>5. QED
    BY <1>1, <1>4 DEF Superseded

\* Later steps do not make an answer stale: writes that started after the GET
\* are not among those it had to see.
LEMMA AnswerStep ==
    ASSUME NEW l, TypeInv, SeenInv, VersionInv(l), ReaderInv, WitnessInv, AnswerInv, [Next]_vars
    PROVE  AnswerInv'
  <1>0. /\ ShapeInv /\ acked \subseteq acked' /\ acked \subseteq 1 .. Len(hist)
        /\ consistency' = consistency /\ Required(consistency)' = Required(consistency)
    BY AckedStep DEF TypeInv, ShapeInv, HistShape, Required
  <1>1. \A i \in 1 .. Len(hist) : i \in 1 .. Len(hist') /\ hist'[i] = hist[i]
    BY <1>0, HistKept
  <1>2. regressed' = {} => regressed = {}
    <2>1. ASSUME NEW n \in Node, NEW q \in Key, NEW rec \in Record, NEW cause, Put(n, q, rec, cause)
          PROVE  regressed' = {} => regressed = {}
      BY <2>1 DEF Put
    <2>2. QED
      BY <2>1, OnePut
  <1>3. ASSUME NEW S, S \subseteq acked, NEW x, NEW k, Superseded(x, k, S)' PROVE Superseded(x, k, S)
    BY <1>0, <1>1, <1>3 DEF Superseded
  <1>a. ASSUME NEW k, OnlySets(k)' PROVE OnlySets(k)
    BY <1>1, <1>a DEF OnlySets, WritesOf
  <1>4. ASSUME answer' = answer PROVE AnswerInv'
    <2>1. ASSUME answer # NoAnswer PROVE answer.seen \subseteq acked'
      BY <1>0, <2>1 DEF AnswerInv
    <2>2. ASSUME answer # NoAnswer, answer.real >= Required(answer.level), regressed' = {},
                 OnlySets(answer.key)', Required(answer.level) + Required(consistency) > ReplicationFactor
          PROVE  ~Superseded(answer.rec.id, answer.key, answer.seen)'
      <3>1. PICK S, x, k : S = answer.seen /\ x = answer.rec.id /\ k = answer.key /\ OnlySets(k)'
        BY <1>4, <2>2 DEF OnlySets, WritesOf
      <3>2. S \subseteq acked /\ ~Superseded(x, k, S)
        BY <1>2, <1>a, <2>2, <3>1 DEF AnswerInv
      <3>3. ~Superseded(x, k, S)'
        BY <1>3, <3>2
      <3>4. QED
        BY <1>4, <3>1, <3>3 DEF Superseded
    <2>3. QED
      BY <1>0, <1>4, <2>1, <2>2 DEF AnswerInv, Required
  <1>5. ASSUME NEW c \in Node, FinishRead(c) PROVE AnswerInv'
    <2>1. PICK S, x, k, level, got : /\ S = reader[c].seen /\ x = Best(reader[c].got).id /\ k = reader[c].key
                                     /\ level = reader[c].level /\ got = reader[c].got
      OBVIOUS
    <2>2. /\ answer' = [key |-> k, rec |-> Best(got), seen |-> S, level |-> level,
                        real |-> Cardinality({a \in got : a.real})]
          /\ reader[c] # NoRead /\ regressed' = regressed /\ hist' = hist /\ acked' = acked
      BY <1>5, <2>1 DEF FinishRead, outcome
    <2>3. /\ answer'.seen = S /\ answer'.rec.id = x /\ answer'.key = k /\ answer'.level = level
          /\ answer'.real = Cardinality({a \in got : a.real})
      BY <2>1, <2>2
    <2>4. S \subseteq acked'
      BY <2>1, <2>2 DEF ReaderInv
    <2>5. ASSUME Cardinality({a \in got : a.real}) >= Required(level), regressed = {}, OnlySets(k),
                 Required(level) + Required(consistency) > ReplicationFactor
          PROVE  ~Superseded(x, k, S)
      BY <2>1, <2>2, <2>5, FinishIsFresh
    <2>6. ~Superseded(x, k, S) => ~Superseded(answer.rec.id, answer.key, answer.seen)'
      BY <2>2, <2>3 DEF Superseded
    <2>7. OnlySets(answer.key)' => OnlySets(k)
      BY <1>a, <2>3 DEF OnlySets, WritesOf
    <2>8. QED
      BY <1>0, <2>2, <2>3, <2>4, <2>5, <2>6, <2>7 DEF AnswerInv, Required
  <1>6. ASSUME NEW n \in Node, NEW op \in Ops, NEW k \in Key, RefuseWrite(n, op, k) \/ BeginWrite(n, op, k)
        PROVE  answer' = answer
    BY <1>6 DEF RefuseWrite, BeginWrite
  <1>7. ASSUME NEW n \in Node, WriterStep(n) \/ AsyncReplicate(n) \/ Restart(n) PROVE answer' = answer
    BY <1>7 DEF WriterStep, SendReplicate, ReplicateTimeout, PrepareDone, CommitDone, AsyncReplicate, Restart
  <1>8. ASSUME NEW n \in Node, NEW k \in Key, NEW level \in ReadLevels, StartRead(n, k, level)
        PROVE  answer' = answer
    BY <1>8 DEF StartRead
  <1>9. ASSUME NEW n \in Node, ReadFails(n) \/ (\E m \in Node : RemoteRead(n, m)) PROVE answer' = answer
    BY <1>9 DEF ReadFails, RemoteRead
  <1>10. ASSUME NEW msg \in net, HandlePrepare(msg) \/ HandleCommit(msg) PROVE answer' = answer
    BY <1>10 DEF HandlePrepare, HandleCommit
  <1>11. ASSUME NEW p \in repairs, RepairCheck(p) \/ RepairSet(p) PROVE answer' = answer
    BY <1>11 DEF RepairCheck, RepairSet
  <1>12. ASSUME LeaderChange \/ UNCHANGED vars PROVE answer' = answer
    BY <1>12 DEF LeaderChange, vars
  <1>13. QED
    BY <1>4, <1>5, <1>6, <1>7, <1>8, <1>9, <1>10, <1>11, <1>12 DEF Next, ReaderStep

\* The first states satisfy FreshInv,
LEMMA InitFresh ==
    ASSUME NEW l \in Node, Init
    PROVE  FreshInv(l)
  <1>1. Len(hist) = 0
    BY EmptySeq DEF Init
  <1>2. SeenInv
    BY <1>1 DEF SeenInv
  <1>3. \A k \in Key : \A r : Known(k, r) => r = Absent
    <2>1. ASSUME NEW e, HasEntry(e) PROVE FALSE
      BY <2>1, EmptySeq DEF Init, HasEntry
    <2>2. QED
      BY <2>1 DEF Known, Init, HasCopy
  <1>4. ReaderInv /\ WitnessInv /\ AnswerInv
    BY DEF Init, ReaderInv, WitnessInv, AnswerInv
  <1>5. VersionInv(l)
    <2>1. \A k \in Key : store[l][k].ver + 1 >= 0 /\ Absent.ver = 0 /\ Absent.id = 0
      BY DEF Init, Absent
    <2>2. QED
      BY <1>3, <2>1 DEF VersionInv
  <1>6. QED
    BY <1>2, <1>4, <1>5 DEF FreshInv

\* and it holds throughout.
LEMMA FreshAlways ==
    ASSUME NEW l, StableLeader(l), WithinReplicas(l)
    PROVE  Spec => []FreshInv(l)
  <1>1. Init => FreshInv(l)
    BY InitFresh DEF StableLeader
  <1>2. TypeInv /\ StableInv(l) /\ AcksInv(l) /\ FreshInv(l) /\ [Next]_vars => FreshInv(l)'
    BY SeenStep, VersionStep, ReaderInvStep, WitnessStep, AnswerStep DEF FreshInv
  <1>3. QED
    BY <1>1, <1>2, AcksAlways, PTL DEF Spec

(* ReadsAreFresh: with a stable leader that only counts replicas, a GET    *)
(* that enough replicas answered of a key nobody deleted is not stale, for *)
(* any levels of writes and reads that overlap, any replication factor,    *)
(* and whatever is lost, late, repaired, restarted or done to other keys,  *)
(* unless an older record overwrites a newer one.                          *)
THEOREM ReadsAreFresh ==
    ASSUME NEW l, StableLeader(l), WithinReplicas(l)
    PROVE  Spec => []FreshRead
  <1>1. FreshInv(l) => FreshRead
    BY DEF FreshInv, AnswerInv, FreshRead, ReallyAnswered
  <1>2. QED
    BY <1>1, FreshAlways, PTL
=============================================================================
