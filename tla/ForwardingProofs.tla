-------------------------- MODULE ForwardingProofs --------------------------
(***************************************************************************)
(* The write path keeps what ClientWrite promises, for any nodes, writes,  *)
(* changes of leader and crashes.                                          *)
(***************************************************************************)
EXTENDS Forwarding, SequenceTheorems, TLAPS

\* The attempts h of a write and how often it was begun: all but the last were
\* refused by a node that did not lead, and the write was begun exactly when the
\* last one got past the write lock, unless it was lost.
Tracked(h, s) ==
    /\ s \in {0, 1}
    /\ \A i \in 1 .. Len(h) : h[i].stage = "done" <=> h[i].result # "none"
    /\ \A i \in 1 .. Len(h) : i < Len(h) => h[i].result = "mismatch"
    /\ s = 0 => \A i \in 1 .. Len(h) :
                   h[i].stage # "writing" /\ h[i].result \notin {"ok", "failed"}
    /\ s = 1 => /\ Len(h) > 0
                /\ \/ h[Len(h)].stage \in {"writing", "lost"}
                   \/ h[Len(h)].result \in {"ok", "failed"}

\* The handler d and the answer a against the attempts.
Answered(e, d, h, a, s) ==
    /\ e = None <=> d = "none"
    /\ a = "none" <=> d # "over"
    /\ d \in {"none", "route"} => Len(h) = 0
    /\ d = "waits" => Len(h) > 0
    /\ a = "refused" => s = 0 /\ \A i \in 1 .. Len(h) : h[i].stage = "done"
    /\ a \in {"ok", "failed"} => Len(h) > 0 /\ h[Len(h)].result = a

Consistent(e, d, h, a, s) == Tracked(h, s) /\ Answered(e, d, h, a, s)

AllConsistent ==
    \A r \in Req : Consistent(entry[r], handler[r], hops[r], answer[r], starts[r])

\* The types of the variables that are not about one write, and of those that are.
EnvOK ==
    /\ leads \in [Node -> BOOLEAN]
    /\ leader \in [Node -> Node \cup {None}]
    /\ lock \in [Node -> Req \cup {None}]
    /\ changes \in 0 .. MaxChanges /\ crashes \in 0 .. MaxCrashes

WritesOK ==
    /\ entry \in [Req -> Node \cup {None}]
    /\ handler \in [Req -> {"none", "route", "waits", "over"}]
    /\ hops \in [Req -> Seq(Hop)]
    /\ answer \in [Req -> Answers]
    /\ starts \in [Req -> Nat]

IInv == EnvOK /\ WritesOK /\ AllConsistent

-----------------------------------------------------------------------------
(* One write *)

\* An attempt that goes on is the last, and its client was told nothing definite.
LEMMA OnlyTheLast ==
    ASSUME NEW e, NEW d, NEW h \in Seq(Hop), NEW a, NEW s,
           Consistent(e, d, h, a, s), NEW i \in DOMAIN h, Alive(h[i])
    PROVE  /\ i = Len(h) /\ Len(h) > 0 /\ h[i].result = "none"
           /\ h[i].stage = "writing" => s = 1
           /\ h[i].stage # "writing" => s = 0
           /\ a \notin {"ok", "failed", "refused"}
  <1>1. i \in 1 .. Len(h) /\ Len(h) \in Nat /\ h[i].stage # "done"
    BY DEF Alive
  <1>2. h[i].result = "none"
    BY <1>1 DEF Consistent, Tracked
  <1>3. i = Len(h)
    BY <1>1, <1>2 DEF Consistent, Tracked
  <1>4. QED
    BY <1>1, <1>2, <1>3 DEF Consistent, Tracked, Answered, Alive

\* How an attempt that goes on may change, and the count with it.
Advance(old, stage, result, s, t) ==
    \/ /\ old \in {"sent", "checked", "accepted"} /\ t = s
       /\ \/ stage \in {"checked", "accepted"} /\ result = "none"
          \/ stage = "done" /\ result \in {"refused", "mismatch"}
    \/ old = "accepted" /\ stage = "writing" /\ result = "none" /\ t = s + 1
    \/ old = "writing" /\ stage = "done" /\ result \in {"ok", "failed"} /\ t = s

\* An attempt that takes such a step leaves its write consistent.
LEMMA AdvanceKeeps ==
    ASSUME NEW e, NEW d, NEW h \in Seq(Hop), NEW a, NEW s,
           Consistent(e, d, h, a, s), NEW i \in DOMAIN h,
           NEW stage, NEW result, NEW t, Advance(h[i].stage, stage, result, s, t)
    PROVE  LET g == [h EXCEPT ![i] = Moved(h[i], stage, result)]
           IN  g \in Seq(Hop) /\ Len(g) = Len(h) /\ Consistent(e, d, g, a, t)
  <1> DEFINE x == Moved(h[i], stage, result)
             g == [h EXCEPT ![i] = x]
  <1>1. i \in 1 .. Len(h) /\ Len(h) \in Nat /\ h[i] \in Hop
    BY ElementOfSeq
  <1>2. Alive(h[i])
    BY DEF Advance, Alive
  <1>3. /\ i = Len(h) /\ h[i].result = "none"
        /\ h[i].stage = "writing" => s = 1
        /\ h[i].stage # "writing" => s = 0
        /\ a \notin {"ok", "failed", "refused"}
    BY <1>2, OnlyTheLast
  <1>4. x \in Hop /\ x.stage = stage /\ x.result = result
    <2>1. stage \in Stages /\ result \in Results
      BY DEF Advance, Stages, Results
    <2>2. QED
      BY <1>1, <2>1 DEF Moved, Hop
  <1> HIDE DEF x
  <1>5. /\ g \in Seq(Hop) /\ Len(g) = Len(h)
        /\ \A j \in 1 .. Len(h) : g[j] = IF j = i THEN x ELSE h[j]
    BY <1>1, <1>4, ExceptSeq
  <1> HIDE DEF g
  <1>6. Tracked(g, t)
    BY <1>1, <1>3, <1>4, <1>5 DEF Consistent, Tracked, Advance
  <1>7. Answered(e, d, g, a, t)
    BY <1>1, <1>3, <1>5 DEF Consistent, Answered
  <1>8. QED
    BY <1>5, <1>6, <1>7 DEF Consistent, g, x

\* Another attempt is made after those before it were all refused.
LEMMA SendKeeps ==
    ASSUME NEW e, NEW d, NEW h \in Seq(Hop), NEW a,
           Consistent(e, d, h, a, 0), d \in {"route", "waits"},
           \A i \in 1 .. Len(h) : h[i].result = "mismatch",
           NEW n \in Node, NEW stage \in {"sent", "checked"}
    PROVE  LET g == Append(h, Attempt(n, stage))
           IN  g \in Seq(Hop) /\ Len(g) > 0 /\ Consistent(e, "waits", g, a, 0)
  <1> DEFINE x == Attempt(n, stage)
             g == Append(h, x)
  <1>1. x \in Hop /\ x.stage = stage /\ x.result = "none"
    BY DEF Attempt, Hop, Stages, Results
  <1> HIDE DEF x
  <1>2. Len(h) \in Nat
    OBVIOUS
  <1>3. /\ g \in Seq(Hop) /\ Len(g) = Len(h) + 1
        /\ \A i \in 1 .. Len(h) : g[i] = h[i]
        /\ g[Len(h) + 1] = x
    BY <1>1, AppendProperties
  <1> HIDE DEF g
  <1>4. \A i \in 1 .. Len(g) : i \in 1 .. Len(h) \/ i = Len(h) + 1
    BY <1>2, <1>3
  <1>5. Tracked(g, 0)
    BY <1>1, <1>2, <1>3, <1>4 DEF Consistent, Tracked
  <1>6. Answered(e, "waits", g, a, 0)
    BY <1>2, <1>3 DEF Consistent, Answered
  <1>7. QED
    BY <1>2, <1>3, <1>5, <1>6 DEF Consistent, g, x

\* A node goes down with its attempts; the client may lose its connection.
LEMMA LostKeeps ==
    ASSUME NEW e, NEW d, NEW h \in Seq(Hop), NEW a, NEW s,
           Consistent(e, d, h, a, s), NEW n
    PROVE  /\ Lost(h, n) \in Seq(Hop)
           /\ Outcome(Lost(h, n)) = Outcome(h)
           /\ Consistent(e, d, Lost(h, n), a, s)
           /\ e # None /\ d # "over" =>
                 Consistent(e, "over", Lost(h, n), "unknown", s)
  <1> DEFINE g == Lost(h, n)
  <1>1. DOMAIN h = 1 .. Len(h) /\ Len(h) \in Nat /\ \A i \in 1 .. Len(h) : h[i] \in Hop
    BY ElementOfSeq
  <1>2. \A i \in 1 .. Len(h) :
            /\ g[i] \in Hop
            /\ g[i].result = h[i].result
            /\ \/ g[i].stage = h[i].stage
               \/ h[i].stage # "done" /\ g[i].stage = "lost"
    BY <1>1 DEF Lost, Moved, Hop, Stages
  <1>3. g \in [1 .. Len(h) -> Hop]
    BY <1>1, <1>2 DEF Lost
  <1> HIDE DEF g
  <1>4. g \in Seq(Hop) /\ Len(g) = Len(h) /\ DOMAIN g = DOMAIN h
    BY <1>1, <1>3
  <1>5. Outcome(g) = Outcome(h)
    BY <1>1, <1>2, <1>4, Zenon DEF Outcome
  <1>6. Tracked(g, s)
    BY <1>1, <1>2, <1>4 DEF Consistent, Tracked
  <1>7. Answered(e, d, g, a, s)
    BY <1>1, <1>2, <1>4 DEF Consistent, Answered
  <1>8. e # None /\ d # "over" => Answered(e, "over", g, "unknown", s)
    BY <1>1, <1>2, <1>4 DEF Consistent, Answered
  <1>9. QED
    BY <1>4, <1>5, <1>6, <1>7, <1>8 DEF Consistent, g

-----------------------------------------------------------------------------
(* The invariant *)

\* The invariant gives every variable its type.
LEMMA Typed == IInv => TypeOK
  <1> SUFFICES ASSUME IInv PROVE TypeOK
    OBVIOUS
  <1>1. ASSUME NEW r \in Req, handler[r] = "waits"
        PROVE  hops[r] # <<>>
    <2>1. Len(hops[r]) > 0
      BY <1>1 DEF IInv, AllConsistent, Consistent, Answered
    <2>2. QED
      BY <2>1
  <1>2. QED
    BY <1>1 DEF IInv, TypeOK, EnvOK, WritesOK

\* A step about one write keeps the others.
LEMMA OneWrite ==
    ASSUME AllConsistent, NEW r \in Req,
           \A q \in Req \ {r} :
              /\ entry'[q] = entry[q] /\ handler'[q] = handler[q]
              /\ hops'[q] = hops[q] /\ answer'[q] = answer[q]
              /\ starts'[q] = starts[q],
           Consistent(entry'[r], handler'[r], hops'[r], answer'[r], starts'[r])
    PROVE  AllConsistent'
  <1>1. ASSUME NEW q \in Req
        PROVE  Consistent(entry'[q], handler'[q], hops'[q], answer'[q], starts'[q])
    <2>1. CASE q = r
      BY <2>1
    <2>2. CASE q # r
      BY <2>2 DEF AllConsistent
    <2>3. QED
      BY <2>1, <2>2
  <1>2. QED
    BY <1>1 DEF AllConsistent

\* No write was sent: the invariant holds.
LEMMA Initially == Init => IInv
  <1> SUFFICES ASSUME Init PROVE IInv
    OBVIOUS
  <1>1. EnvOK
    <2>1. leads \in [Node -> BOOLEAN]
      BY Zenon DEF Init
    <2>2. /\ leader \in [Node -> Node \cup {None}]
          /\ lock \in [Node -> Req \cup {None}]
          /\ changes \in 0 .. MaxChanges /\ crashes \in 0 .. MaxCrashes
      BY ForwardingAssumption DEF Init
    <2>3. QED
      BY <2>1, <2>2, Zenon DEF EnvOK
  <1>2. WritesOK
    BY EmptySeq DEF Init, WritesOK, Answers
  <1>3. AllConsistent
    <2>1. Len(<<>>) = 0
      OBVIOUS
    <2>2. Tracked(<<>>, 0) /\ Answered(None, "none", <<>>, "none", 0)
      BY <2>1 DEF Tracked, Answered
    <2>3. QED
      BY <2>2 DEF Init, AllConsistent, Consistent
  <1>4. QED
    BY <1>1, <1>2, <1>3 DEF IInv

\* What the steps at the node of an attempt do: it advances, and the client and
\* its handler notice nothing.
LEMMA Advances ==
    ASSUME WritesOK, AllConsistent, NEW r \in Req, NEW i \in DOMAIN hops[r],
           NEW stage, NEW result, Becomes(r, i, stage, result),
           UNCHANGED <<entry, handler, answer>>,
           starts' \in [Req -> Nat], \A q \in Req \ {r} : starts'[q] = starts[q],
           Advance(hops[r][i].stage, stage, result, starts[r], starts'[r])
    PROVE  WritesOK' /\ AllConsistent'
  <1> DEFINE g == [hops[r] EXCEPT ![i] = Moved(hops[r][i], stage, result)]
  <1>1. hops' = [hops EXCEPT ![r] = g]
    BY DEF Becomes
  <1>2. /\ hops[r] \in Seq(Hop)
        /\ Consistent(entry[r], handler[r], hops[r], answer[r], starts[r])
    BY DEF WritesOK, AllConsistent
  <1>3. /\ g \in Seq(Hop)
        /\ Consistent(entry[r], handler[r], g, answer[r], starts'[r])
    BY <1>2, AdvanceKeeps
  <1> HIDE DEF g
  <1>4. /\ hops' \in [Req -> Seq(Hop)] /\ hops'[r] = g
        /\ \A q \in Req \ {r} : hops'[q] = hops[q]
    BY <1>1, <1>3 DEF WritesOK
  <1>5. WritesOK'
    BY <1>4 DEF WritesOK
  <1>6. AllConsistent'
    BY <1>3, <1>4, OneWrite
  <1>7. QED
    BY <1>5, <1>6

\* A step of an attempt (the check, the lock, the write, its end) keeps the
\* invariant.
LEMMA AttemptStepKeeps ==
    ASSUME IInv, NEW r \in Req, AttemptStep(r)
    PROVE  IInv'
  <1>1. EnvOK /\ WritesOK /\ AllConsistent
    BY DEF IInv
  <1>2. PICK i \in DOMAIN hops[r] :
           \/ HandleLeaderWrite(r, i) \/ CheckWrite(r, i)
           \/ StartWrite(r, i) \/ FinishWrite(r, i)
    BY DEF AttemptStep
  <1>3. hops[r][i].node \in Node
    <2>1. i \in 1 .. Len(hops[r]) /\ hops[r] \in Seq(Hop)
      BY <1>1 DEF WritesOK
    <2>2. hops[r][i] \in Hop
      BY <2>1, ElementOfSeq
    <2>3. QED
      BY <2>2 DEF Hop
  <1>4. EnvOK'
    BY <1>1, <1>2, <1>3
    DEF EnvOK, HandleLeaderWrite, CheckWrite, StartWrite, FinishWrite
  <1>5. starts[r] \in Nat /\ starts \in [Req -> Nat]
    BY <1>1 DEF WritesOK
  <1>6. CASE HandleLeaderWrite(r, i)
    <2>1. PICK stage, result :
             /\ Becomes(r, i, stage, result)
             /\ Advance(hops[r][i].stage, stage, result, starts[r], starts'[r])
      BY <1>6 DEF HandleLeaderWrite, Advance
    <2>2. QED
      BY <1>1, <1>4, <1>5, <1>6, <2>1, Advances DEF IInv, HandleLeaderWrite
  <1>7. CASE CheckWrite(r, i)
    <2>1. PICK stage, result :
             /\ Becomes(r, i, stage, result)
             /\ Advance(hops[r][i].stage, stage, result, starts[r], starts'[r])
      BY <1>7 DEF CheckWrite, Advance
    <2>2. QED
      BY <1>1, <1>4, <1>5, <1>7, <2>1, Advances DEF IInv, CheckWrite
  <1>8. CASE StartWrite(r, i)
    <2>1. PICK stage, result :
             /\ Becomes(r, i, stage, result)
             /\ Advance(hops[r][i].stage, stage, result, starts[r], starts'[r])
      BY <1>5, <1>8 DEF StartWrite, Advance
    <2>2. /\ starts' \in [Req -> Nat] /\ \A q \in Req \ {r} : starts'[q] = starts[q]
          /\ UNCHANGED <<entry, handler, answer>>
      BY <1>5, <1>8 DEF StartWrite
    <2>3. QED
      BY <1>1, <1>4, <2>1, <2>2, Advances DEF IInv
  <1>9. CASE FinishWrite(r, i)
    <2>1. PICK stage, result :
             /\ Becomes(r, i, stage, result)
             /\ Advance(hops[r][i].stage, stage, result, starts[r], starts'[r])
      BY <1>9 DEF FinishWrite, Advance
    <2>2. QED
      BY <1>1, <1>4, <1>5, <1>9, <2>1, Advances DEF IInv, FinishWrite
  <1>10. QED
    BY <1>2, <1>6, <1>7, <1>8, <1>9

\* Refused attempts were never begun.
LEMMA MismatchNotBegun ==
    ASSUME NEW h \in Seq(Hop), NEW s, Tracked(h, s), Len(h) > 0,
           h[Len(h)].stage = "done", h[Len(h)].result \in {"refused", "mismatch"}
    PROVE  s = 0 /\ \A i \in 1 .. Len(h) : h[i].stage = "done"
  <1>1. Len(h) \in 1 .. Len(h) /\ Len(h) \in Nat
    OBVIOUS
  <1>2. s = 0
    BY <1>1 DEF Tracked
  <1>3. ASSUME NEW i \in 1 .. Len(h) PROVE h[i].stage = "done"
    BY <1>1 DEF Tracked
  <1>4. QED
    BY <1>2, <1>3

\* The answers: one that the write was not made, one that nothing is known, and
\* the one the last attempt gave.
LEMMA RefusalKeeps ==
    ASSUME NEW e, NEW d, NEW h, NEW a, NEW s, Consistent(e, d, h, a, s),
           d \in {"route", "waits"}, s = 0, \A i \in 1 .. Len(h) : h[i].stage = "done"
    PROVE  Consistent(e, "over", h, "refused", s)
  BY DEF Consistent, Answered

\* "No answer" is consistent with whatever became of the attempts.
LEMMA UnknownKeeps ==
    ASSUME NEW e, NEW d, NEW h, NEW a, NEW s, Consistent(e, d, h, a, s), d # "none"
    PROVE  Consistent(e, "over", h, "unknown", s)
  BY DEF Consistent, Answered

\* So is the result of the last attempt.
LEMMA ResultKeeps ==
    ASSUME NEW e, NEW d, NEW h, NEW a, NEW s, Consistent(e, d, h, a, s),
           d = "waits", h[Len(h)].result \in {"ok", "failed"}
    PROVE  Consistent(e, "over", h, h[Len(h)].result, s)
  BY DEF Consistent, Answered

\* Before the first attempt, or with none but mismatches, the write was not begun.
LEMMA FreshRoute ==
    ASSUME NEW e, NEW d, NEW h \in Seq(Hop), NEW a, NEW s, Consistent(e, d, h, a, s),
           \/ d = "route"
           \/ d = "waits" /\ h[Len(h)].stage = "done" /\ h[Len(h)].result = "mismatch"
    PROVE  /\ s = 0
           /\ \A i \in 1 .. Len(h) : h[i].stage = "done" /\ h[i].result = "mismatch"
  <1>1. Len(h) \in Nat
    OBVIOUS
  <1>2. CASE d = "route"
    BY <1>1, <1>2 DEF Consistent, Answered, Tracked
  <1>3. CASE d = "waits" /\ h[Len(h)].stage = "done" /\ h[Len(h)].result = "mismatch"
    <2>1. Len(h) > 0 /\ Tracked(h, s)
      BY <1>3 DEF Consistent, Answered
    <2>2. s = 0 /\ \A i \in 1 .. Len(h) : h[i].stage = "done"
      BY <1>3, <2>1, MismatchNotBegun
    <2>3. \A i \in 1 .. Len(h) : h[i].result = "mismatch"
      BY <1>1, <1>3, <2>1 DEF Tracked
    <2>4. QED
      BY <2>2, <2>3
  <1>4. QED
    BY <1>2, <1>3

\* The steps of the entry node: it answers, or makes another attempt.
LEMMA Replies ==
    ASSUME WritesOK, AllConsistent, NEW r \in Req, NEW a \in Answers, Reply(r, a),
           UNCHANGED <<entry, hops, starts>>,
           Consistent(entry[r], "over", hops[r], a, starts[r])
    PROVE  WritesOK' /\ AllConsistent'
  <1>1. /\ answer' \in [Req -> Answers] /\ answer'[r] = a
        /\ handler' \in [Req -> {"none", "route", "waits", "over"}]
        /\ handler'[r] = "over"
        /\ \A q \in Req \ {r} : answer'[q] = answer[q] /\ handler'[q] = handler[q]
    BY DEF Reply, WritesOK
  <1>2. WritesOK'
    BY <1>1 DEF WritesOK
  <1>3. AllConsistent'
    BY <1>1, OneWrite
  <1>4. QED
    BY <1>2, <1>3

\* Another attempt, on this node or another, keeps the invariant.
LEMMA Sends ==
    ASSUME WritesOK, AllConsistent, NEW r \in Req, NEW n \in Node,
           NEW stage \in {"sent", "checked"}, handler[r] \in {"route", "waits"},
           starts[r] = 0, \A i \in 1 .. Len(hops[r]) : hops[r][i].result = "mismatch",
           hops' = [hops EXCEPT ![r] = Append(hops[r], Attempt(n, stage))],
           handler' = [handler EXCEPT ![r] = "waits"],
           UNCHANGED <<entry, answer, starts>>
    PROVE  WritesOK' /\ AllConsistent'
  <1> DEFINE g == Append(hops[r], Attempt(n, stage))
  <1>1. /\ hops[r] \in Seq(Hop)
        /\ Consistent(entry[r], handler[r], hops[r], answer[r], 0)
    BY DEF WritesOK, AllConsistent
  <1>2. g \in Seq(Hop) /\ Consistent(entry[r], "waits", g, answer[r], 0)
    BY <1>1, SendKeeps
  <1> HIDE DEF g
  <1>3. /\ hops' \in [Req -> Seq(Hop)] /\ hops'[r] = g
        /\ handler' \in [Req -> {"none", "route", "waits", "over"}]
        /\ handler'[r] = "waits"
        /\ \A q \in Req \ {r} : hops'[q] = hops[q] /\ handler'[q] = handler[q]
    BY <1>2 DEF WritesOK, g
  <1>4. WritesOK'
    BY <1>3 DEF WritesOK
  <1>5. AllConsistent'
    BY <1>2, <1>3, OneWrite
  <1>6. QED
    BY <1>4, <1>5

\* Forwarding, which answers at once when the address of the node is unknown,
\* keeps the invariant.
LEMMA ForwardKeeps ==
    ASSUME WritesOK, AllConsistent, NEW r \in Req, NEW m \in Node,
           \/ handler[r] = "route"
           \/ handler[r] = "waits" /\ Last(r).stage = "done" /\ Last(r).result = "mismatch",
           ForwardTo(r, m), UNCHANGED <<entry, starts>>
    PROVE  WritesOK' /\ AllConsistent'
  <1>1. /\ hops[r] \in Seq(Hop)
        /\ Consistent(entry[r], handler[r], hops[r], answer[r], starts[r])
    BY DEF WritesOK, AllConsistent
  <1>2. /\ starts[r] = 0
        /\ \A i \in 1 .. Len(hops[r]) : hops[r][i].stage = "done" /\ hops[r][i].result = "mismatch"
    BY <1>1, FreshRoute DEF Last
  <1>3. CASE Reply(r, "refused") /\ UNCHANGED hops
    <2>1. Consistent(entry[r], "over", hops[r], "refused", starts[r])
      BY <1>1, <1>2, RefusalKeeps
    <2>2. QED
      BY <1>3, <2>1, Replies DEF Answers
  <1>4. CASE /\ hops' = [hops EXCEPT ![r] = Append(@, Attempt(m, "sent"))]
             /\ handler' = [handler EXCEPT ![r] = "waits"]
             /\ UNCHANGED answer
    BY <1>2, <1>4, Sends
  <1>5. QED
    BY <1>3, <1>4 DEF ForwardTo

\* Every step of the node the client sent the write to keeps the invariant.
LEMMA EntryStepKeeps ==
    ASSUME IInv, NEW r \in Req, EntryStep(r)
    PROVE  IInv'
  <1>1. EnvOK /\ WritesOK /\ AllConsistent
    BY DEF IInv
  <1>2. /\ hops[r] \in Seq(Hop)
        /\ Consistent(entry[r], handler[r], hops[r], answer[r], starts[r])
    BY <1>1 DEF WritesOK, AllConsistent
  <1>3. handler[r] # "none" => entry[r] \in Node
    BY <1>1, <1>2 DEF WritesOK, Consistent, Answered
  <1>4. entry[r] \in Node /\ leader[entry[r]] # None => leader[entry[r]] \in Node
    BY <1>1 DEF EnvOK
  <1>5. UNCHANGED <<leads, leader, lock, changes, crashes>> => EnvOK'
    BY <1>1 DEF EnvOK
  <1>6. ASSUME handler[r] = "route", Reply(r, "refused"), UNCHANGED <<entry, hops, starts>>
        PROVE  WritesOK' /\ AllConsistent'
    <2>1. /\ starts[r] = 0
          /\ \A i \in 1 .. Len(hops[r]) : hops[r][i].stage = "done"
      BY <1>2, <1>6, FreshRoute
    <2>2. Consistent(entry[r], "over", hops[r], "refused", starts[r])
      BY <1>2, <1>6, <2>1, RefusalKeeps
    <2>3. QED
      BY <1>1, <1>6, <2>2, Replies DEF Answers
  <1>7. CASE Reject(r) \/ RouteNowhere(r)
    BY <1>5, <1>6, <1>7 DEF Reject, RouteNowhere, IInv
  <1>8. CASE RouteLocal(r)
    <2>1. entry[r] \in Node
      BY <1>3, <1>8 DEF RouteLocal
    <2>2. /\ starts[r] = 0
          /\ \A i \in 1 .. Len(hops[r]) : hops[r][i].result = "mismatch"
      BY <1>2, <1>8, FreshRoute DEF RouteLocal
    <2>3. WritesOK' /\ AllConsistent'
      BY <1>1, <1>8, <2>1, <2>2, Sends DEF RouteLocal
    <2>4. QED
      BY <1>5, <1>8, <2>3 DEF RouteLocal, IInv
  <1>9. CASE RouteRemote(r)
    <2>1. WritesOK' /\ AllConsistent'
      BY <1>1, <1>3, <1>4, <1>9, ForwardKeeps DEF RouteRemote
    <2>2. QED
      BY <1>5, <1>9, <2>1 DEF RouteRemote, IInv
  <1>10. CASE Retry(r)
    <2>1. WritesOK' /\ AllConsistent'
      BY <1>1, <1>3, <1>4, <1>10, ForwardKeeps DEF Retry, Retries
    <2>2. QED
      BY <1>5, <1>10, <2>1 DEF Retry, IInv
  <1>11. CASE GiveAnswer(r)
    <2> DEFINE a == IF Last(r).result = "mismatch" THEN "refused" ELSE Last(r).result
    <2>1. handler[r] = "waits" /\ Last(r).stage = "done" /\ Reply(r, a)
      BY <1>11 DEF GiveAnswer
    <2>2. /\ Len(hops[r]) \in 1 .. Len(hops[r]) /\ Len(hops[r]) > 0
          /\ Last(r) = hops[r][Len(hops[r])]
      BY <1>2, <2>1 DEF Last, Consistent, Answered
    <2>3. Last(r) \in Hop
      BY <1>2, <2>2, ElementOfSeq
    <2>4. Last(r).result # "none" /\ Last(r).result \in Results
      <3>1. Last(r).result # "none"
        BY <1>2, <2>1, <2>2 DEF Consistent, Tracked
      <3>2. QED
        BY <2>3, <3>1 DEF Hop
    <2>5. CASE Last(r).result \in {"refused", "mismatch"}
      <3>1. starts[r] = 0 /\ \A i \in 1 .. Len(hops[r]) : hops[r][i].stage = "done"
        BY <1>2, <2>1, <2>2, <2>5, MismatchNotBegun DEF Consistent
      <3>2. Consistent(entry[r], "over", hops[r], "refused", starts[r])
        BY <1>2, <2>1, <3>1, RefusalKeeps
      <3>3. a = "refused"
        BY <2>5
      <3>4. WritesOK' /\ AllConsistent'
        BY <1>1, <1>11, <2>1, <3>2, <3>3, Replies DEF GiveAnswer, Answers
      <3>5. QED
        BY <1>5, <1>11, <3>4 DEF GiveAnswer, IInv
    <2>6. CASE Last(r).result \in {"ok", "failed"}
      <3>1. Consistent(entry[r], "over", hops[r], Last(r).result, starts[r])
        BY <1>2, <2>1, <2>2, <2>6, ResultKeeps
      <3>2. a = Last(r).result /\ Last(r).result \in Answers
        BY <2>6 DEF Answers
      <3>3. WritesOK' /\ AllConsistent'
        BY <1>1, <1>11, <2>1, <3>1, <3>2, Replies DEF GiveAnswer
      <3>4. QED
        BY <1>5, <1>11, <3>3 DEF GiveAnswer, IInv
    <2>7. QED
      BY <2>4, <2>5, <2>6 DEF Results
  <1>12. CASE ForwardTimeout(r)
    <2>1. Consistent(entry[r], "over", hops[r], "unknown", starts[r])
      BY <1>2, <1>12, UnknownKeeps DEF ForwardTimeout
    <2>2. WritesOK' /\ AllConsistent'
      BY <1>1, <1>12, <2>1, Replies DEF ForwardTimeout, Answers
    <2>3. QED
      BY <1>5, <1>12, <2>2 DEF ForwardTimeout, IInv
  <1>13. QED
    BY <1>7, <1>8, <1>9, <1>10, <1>11, <1>12 DEF EntryStep

\* A client sends a write.
LEMMA SubmitKeeps ==
    ASSUME IInv, NEW r \in Req, NEW n \in Node, Submit(r, n)
    PROVE  IInv'
  <1>1. EnvOK' /\ WritesOK'
    BY DEF IInv, EnvOK, WritesOK, Submit
  <1>2. Consistent(entry[r], handler[r], hops[r], answer[r], starts[r])
    BY DEF IInv, AllConsistent
  <1>3. entry'[r] = n /\ handler'[r] = "route" /\ n # None
    BY ForwardingAssumption DEF IInv, WritesOK, Submit
  <1>4. Consistent(n, "route", hops[r], answer[r], starts[r])
    BY <1>2, <1>3 DEF Submit, Consistent, Answered
  <1>5. AllConsistent'
    BY <1>3, <1>4, OneWrite DEF IInv, WritesOK, Submit
  <1>6. QED
    BY <1>1, <1>5 DEF IInv

\* A node changes its mind about who leads; no write notices.
LEMMA LeaderChangeKeeps ==
    ASSUME IInv, NEW n \in Node, LeaderChange(n)
    PROVE  IInv'
  <1>1. EnvOK'
    <2>1. leads' \in [Node -> BOOLEAN]
      BY Zenon DEF IInv, EnvOK, LeaderChange
    <2>2. /\ leader' \in [Node -> Node \cup {None}]
          /\ lock' \in [Node -> Req \cup {None}]
          /\ changes' \in 0 .. MaxChanges /\ crashes' \in 0 .. MaxCrashes
      BY ForwardingAssumption DEF IInv, EnvOK, LeaderChange
    <2>3. QED
      BY <2>1, <2>2, Zenon DEF EnvOK
  <1>2. WritesOK' /\ AllConsistent'
    BY DEF IInv, WritesOK, AllConsistent, LeaderChange
  <1>3. QED
    BY <1>1, <1>2 DEF IInv

\* A node stops: its attempts are lost, its clients disconnected.
LEMMA CrashKeeps ==
    ASSUME IInv, NEW n \in Node, Crash(n)
    PROVE  IInv'
  <1>1. EnvOK'
    BY ForwardingAssumption DEF IInv, EnvOK, Crash
  <1>2. ASSUME NEW r \in Req
        PROVE  /\ hops'[r] = Lost(hops[r], n) /\ hops'[r] \in Seq(Hop)
               /\ Consistent(entry'[r], handler'[r], hops'[r], answer'[r], starts'[r])
    <2>1. /\ hops[r] \in Seq(Hop)
          /\ Consistent(entry[r], handler[r], hops[r], answer[r], starts[r])
      BY DEF IInv, WritesOK, AllConsistent
    <2>2. /\ hops'[r] = Lost(hops[r], n)
          /\ entry'[r] = entry[r] /\ starts'[r] = starts[r]
      BY DEF Crash
    <2> DEFINE g == Lost(hops[r], n)
    <2>3. /\ g \in Seq(Hop)
          /\ Consistent(entry[r], handler[r], g, answer[r], starts[r])
          /\ entry[r] # None /\ handler[r] # "over" =>
                Consistent(entry[r], "over", g, "unknown", starts[r])
      BY <2>1, LostKeeps
    <2>4. CASE entry[r] = n /\ handler[r] # "over"
      <3>1. handler'[r] = "over" /\ answer'[r] = "unknown" /\ entry[r] # None
        BY <2>4, ForwardingAssumption DEF Crash
      <3>2. QED
        BY <2>2, <2>4, <2>3, <3>1
    <2>5. CASE ~(entry[r] = n /\ handler[r] # "over")
      <3>1. handler'[r] = handler[r] /\ answer'[r] = answer[r]
        BY <2>5 DEF Crash
      <3>2. QED
        BY <2>2, <2>3, <3>1
    <2>6. QED
      BY <2>4, <2>5
  <1>3. AllConsistent'
    BY <1>2 DEF AllConsistent
  <1>4. WritesOK'
    <2>1. hops' \in [Req -> Seq(Hop)]
      BY <1>2 DEF Crash
    <2>2. /\ answer' \in [Req -> Answers]
          /\ handler' \in [Req -> {"none", "route", "waits", "over"}]
      BY DEF IInv, WritesOK, Crash, Answers
    <2>3. QED
      BY <2>1, <2>2 DEF IInv, WritesOK, Crash
  <1>5. QED
    BY <1>1, <1>3, <1>4 DEF IInv

\* The invariant is inductive.
LEMMA Inductive == IInv /\ [Next]_vars => IInv'
  <1> SUFFICES ASSUME IInv, [Next]_vars PROVE IInv'
    OBVIOUS
  <1>1. CASE \E r \in Req, n \in Node : Submit(r, n)
    BY <1>1, SubmitKeeps
  <1>2. CASE \E r \in Req : AttemptStep(r) \/ EntryStep(r)
    BY <1>2, AttemptStepKeeps, EntryStepKeeps
  <1>3. CASE \E n \in Node : LeaderChange(n)
    BY <1>3, LeaderChangeKeeps
  <1>4. CASE \E n \in Node : Crash(n)
    BY <1>4, CrashKeeps
  <1>5. CASE UNCHANGED vars
    BY <1>5 DEF vars, IInv, EnvOK, WritesOK, AllConsistent
  <1>6. QED
    BY <1>1, <1>2, <1>3, <1>4, <1>5 DEF Next

-----------------------------------------------------------------------------
(* Safety *)

\* No write is begun twice, and none that was begun has an attempt that could
\* still begin it.
LEMMA NothingTwice == IInv => AtMostOnce
  <1> SUFFICES ASSUME IInv, NEW r \in Req
               PROVE  /\ starts[r] <= 1
                      /\ starts[r] = 1 => \A i \in DOMAIN hops[r] :
                           hops[r][i].stage \notin {"sent", "checked", "accepted"}
    BY DEF AtMostOnce
  <1>1. /\ hops[r] \in Seq(Hop)
        /\ Consistent(entry[r], handler[r], hops[r], answer[r], starts[r])
    BY DEF IInv, WritesOK, AllConsistent
  <1>2. starts[r] <= 1
    BY <1>1 DEF Consistent, Tracked
  <1>3. ASSUME starts[r] = 1, NEW i \in DOMAIN hops[r],
               hops[r][i].stage \in {"sent", "checked", "accepted"}
        PROVE  FALSE
    BY <1>1, <1>3, OnlyTheLast DEF Alive
  <1>4. QED
    BY <1>2, <1>3

\* What a client was told is what became of the attempts.
LEMMA NothingUntrue == IInv => AnswersAreTrue
  <1> SUFFICES ASSUME IInv, NEW r \in Req
               PROVE  /\ answer[r] = "refused" =>
                            starts[r] = 0 /\ \A i \in DOMAIN hops[r] : ~Alive(hops[r][i])
                      /\ answer[r] = "ok" =>
                            \E i \in DOMAIN hops[r] : hops[r][i].result = "ok"
    BY DEF AnswersAreTrue
  <1>1. /\ hops[r] \in Seq(Hop)
        /\ DOMAIN hops[r] = 1 .. Len(hops[r]) /\ Len(hops[r]) \in Nat
        /\ Answered(entry[r], handler[r], hops[r], answer[r], starts[r])
    BY DEF IInv, WritesOK, AllConsistent, Consistent
  <1>2. QED
    BY <1>1 DEF Answered, Alive

\* All reachable states are well typed.
THEOREM ForwardingTypes == Spec => []TypeOK
  <1>1. Init => IInv
    BY Initially
  <1>2. IInv /\ [Next]_vars => IInv'
    BY Inductive
  <1>3. IInv => TypeOK
    BY Typed
  <1>4. QED
    BY <1>1, <1>2, <1>3, PTL DEF Spec

\* However leaders change, nodes crash and calls are abandoned, _forward_write
\* starts a write at most once.
THEOREM BegunOnce == Spec => []AtMostOnce
  <1>1. Init => IInv
    BY Initially
  <1>2. IInv /\ [Next]_vars => IInv'
    BY Inductive
  <1>3. IInv => AtMostOnce
    BY NothingTwice
  <1>4. QED
    BY <1>1, <1>2, <1>3, PTL DEF Spec

\* What the client of a write is told, "refused" or OK, is so.
THEOREM TruthfulAnswers == Spec => []AnswersAreTrue
  <1>1. Init => IInv
    BY Initially
  <1>2. IInv /\ [Next]_vars => IInv'
    BY Inductive
  <1>3. IInv => AnswersAreTrue
    BY NothingUntrue
  <1>4. QED
    BY <1>1, <1>2, <1>3, PTL DEF Spec

-----------------------------------------------------------------------------
(* Refinement *)

\* What a result adds to the outcome.
Yield(result) == {result} \cap {"ok", "failed"}

\* While an attempt goes on nothing came of the write.
LEMMA NoOutcomeYet ==
    ASSUME NEW e, NEW d, NEW h \in Seq(Hop), NEW a, NEW s,
           Consistent(e, d, h, a, s), NEW i \in DOMAIN h, Alive(h[i])
    PROVE  /\ Outcome(h) = {}
           /\ \A j \in DOMAIN h : j # i => h[j].result = "mismatch"
  <1>1. i = Len(h) /\ h[i].result = "none"
    BY OnlyTheLast
  <1>2. DOMAIN h = 1 .. Len(h) /\ Len(h) \in Nat
    OBVIOUS
  <1>3. \A j \in DOMAIN h : j # i => h[j].result = "mismatch"
    BY <1>1, <1>2 DEF Consistent, Tracked
  <1>4. QED
    BY <1>1, <1>3 DEF Outcome

\* Its result, when it comes, is all that comes of it.
LEMMA OneOutcome ==
    ASSUME NEW g, NEW i \in DOMAIN g,
           \A j \in DOMAIN g : j # i => g[j].result = "mismatch"
    PROVE  Outcome(g) = Yield(g[i].result)
  <1>1. \A y : y \in Outcome(g) <=> y \in Yield(g[i].result)
    BY DEF Outcome, Yield
  <1>2. QED
    BY <1>1

\* A new attempt has no result.
LEMMA SendOutcome ==
    ASSUME NEW h \in Seq(Hop), NEW n \in Node, NEW stage \in {"sent", "checked"}
    PROVE  Outcome(Append(h, Attempt(n, stage))) = Outcome(h)
  <1> DEFINE x == Attempt(n, stage)
             g == Append(h, x)
  <1>1. x \in Hop /\ x.result = "none"
    BY DEF Attempt, Hop, Stages, Results
  <1> HIDE DEF x
  <1>2. /\ g \in Seq(Hop) /\ Len(g) = Len(h) + 1 /\ Len(h) \in Nat
        /\ \A i \in 1 .. Len(h) : g[i] = h[i]
        /\ g[Len(h) + 1] = x
    BY <1>1, AppendProperties
  <1> HIDE DEF g
  <1>3. DOMAIN h = 1 .. Len(h) /\ DOMAIN g = 1 .. (Len(h) + 1)
    BY <1>2
  <1>4. \A i \in DOMAIN g : i \in DOMAIN h \/ i = Len(h) + 1
    BY <1>2, <1>3
  <1>5. DOMAIN h \subseteq DOMAIN g
    BY <1>2, <1>3
  <1>6. \A y : y \in Outcome(g) <=> y \in Outcome(h)
    BY <1>1, <1>2, <1>3, <1>4, <1>5 DEF Outcome
  <1>7. QED
    BY <1>6 DEF g, x

\* The variables of ClientWrite.
Sent == {r \in Req : entry[r] # None}
Outcomes == [r \in Req |-> Outcome(hops[r])]

\* A step that only makes the attempts of r longer or different changes Outcomes
\* at r alone.
LEMMA OutcomesAt ==
    ASSUME WritesOK, NEW r \in Req, NEW g, hops' = [hops EXCEPT ![r] = g]
    PROVE  Outcomes' = [Outcomes EXCEPT ![r] = Outcome(g)]
  BY DEF WritesOK, Outcomes

\* A step of an attempt begins the write, ends it, or shows the client nothing.
LEMMA AttemptSimulates ==
    ASSUME IInv, NEW r \in Req, AttemptStep(r)
    PROVE  \/ Promise!Begin(r) \/ Promise!Finish(r)
           \/ UNCHANGED <<Sent, starts, Outcomes, answer>>
  <1>1. WritesOK
    BY DEF IInv
  <1>2. /\ hops[r] \in Seq(Hop)
        /\ Consistent(entry[r], handler[r], hops[r], answer[r], starts[r])
        /\ starts[r] \in Nat
    BY DEF IInv, WritesOK, AllConsistent
  <1>3. PICK i \in DOMAIN hops[r] :
           \/ HandleLeaderWrite(r, i) \/ CheckWrite(r, i)
           \/ StartWrite(r, i) \/ FinishWrite(r, i)
    BY DEF AttemptStep
  <1>4. ASSUME NEW stage, NEW result, NEW t, Becomes(r, i, stage, result),
               Advance(hops[r][i].stage, stage, result, starts[r], t)
        PROVE  /\ Outcomes[r] = {}
               /\ Outcomes' = [Outcomes EXCEPT ![r] = Yield(result)]
    <2> DEFINE g == [hops[r] EXCEPT ![i] = Moved(hops[r][i], stage, result)]
    <2>1. Outcome(hops[r]) = {} /\ Outcome(g) = Yield(result)
      <3>1. Alive(hops[r][i])
        BY <1>4 DEF Advance, Alive
      <3>2. /\ Outcome(hops[r]) = {}
            /\ \A j \in DOMAIN hops[r] : j # i => hops[r][j].result = "mismatch"
        BY <1>2, <3>1, NoOutcomeYet
      <3>3. /\ DOMAIN g = DOMAIN hops[r] /\ g[i].result = result
            /\ \A j \in DOMAIN hops[r] : j # i => g[j] = hops[r][j]
        BY <1>2 DEF Moved
      <3> HIDE DEF g
      <3>4. QED
        BY <3>2, <3>3, OneOutcome
    <2>2. hops' = [hops EXCEPT ![r] = g]
      BY <1>4 DEF Becomes
    <2> HIDE DEF g
    <2>3. Outcomes' = [Outcomes EXCEPT ![r] = Outcome(g)]
      BY <1>1, <2>2, OutcomesAt
    <2>4. QED
      BY <2>1, <2>3 DEF Outcomes
  <1>5. ASSUME NEW stage, NEW result, Becomes(r, i, stage, result),
               hops[r][i].stage \in {"sent", "checked", "accepted"},
               \/ stage \in {"checked", "accepted"} /\ result = "none"
               \/ stage = "done" /\ result \in {"refused", "mismatch"}
        PROVE  Outcomes' = Outcomes
    <2>1. Advance(hops[r][i].stage, stage, result, starts[r], starts[r])
      BY <1>5 DEF Advance
    <2>2. /\ Outcomes[r] = {}
          /\ Outcomes' = [Outcomes EXCEPT ![r] = Yield(result)]
      BY <1>4, <1>5, <2>1
    <2>3. Yield(result) = {}
      BY <1>5 DEF Yield
    <2>4. QED
      BY <2>2, <2>3 DEF Outcomes
  <1>6. CASE HandleLeaderWrite(r, i)
    BY <1>5, <1>6 DEF HandleLeaderWrite, Sent
  <1>7. CASE CheckWrite(r, i)
    BY <1>5, <1>7 DEF CheckWrite, Sent
  <1>8. CASE StartWrite(r, i) /\ Becomes(r, i, "done", "refused") /\ UNCHANGED starts
    BY <1>5, <1>8 DEF StartWrite, Sent
  <1>9. CASE /\ StartWrite(r, i) /\ Becomes(r, i, "writing", "none")
             /\ starts' = [starts EXCEPT ![r] = @ + 1]
    <2>1. hops[r][i].stage = "accepted" /\ UNCHANGED <<entry, answer>>
      BY <1>9 DEF StartWrite
    <2>2. starts[r] = 0 /\ answer[r] \notin {"ok", "failed", "refused"}
      BY <1>2, <2>1, OnlyTheLast DEF Alive
    <2>3. answer[r] \in {"none", "unknown"}
      BY <1>1, <2>2 DEF WritesOK, Answers
    <2>4. r \in Sent
      <3>1. Len(hops[r]) > 0
        BY <1>2, <2>1, OnlyTheLast DEF Alive
      <3>2. QED
        BY <1>2, <3>1 DEF Sent, Consistent, Answered
    <2>5. Outcomes' = Outcomes
      <3>1. Advance(hops[r][i].stage, "writing", "none", starts[r], starts[r] + 1)
        BY <2>1 DEF Advance
      <3>2. /\ Outcomes[r] = {}
            /\ Outcomes' = [Outcomes EXCEPT ![r] = Yield("none")]
        BY <1>4, <1>9, <3>1
      <3>3. Yield("none") = {}
        BY DEF Yield
      <3>4. QED
        BY <3>2, <3>3 DEF Outcomes
    <2>6. starts' = [starts EXCEPT ![r] = 1] /\ Sent' = Sent
      BY <1>9, <2>1, <2>2 DEF Sent
    <2>7. QED
      BY <2>1, <2>2, <2>3, <2>4, <2>5, <2>6 DEF Promise!Begin, Sent, Outcomes
  <1>10. CASE FinishWrite(r, i)
    <2>1. PICK res \in {"ok", "failed"} : Becomes(r, i, "done", res)
      BY <1>10 DEF FinishWrite
    <2>2. hops[r][i].stage = "writing" /\ UNCHANGED <<entry, answer, starts>>
      BY <1>10 DEF FinishWrite
    <2>3. starts[r] = 1
      BY <1>2, <2>2, OnlyTheLast DEF Alive
    <2>4. Advance(hops[r][i].stage, "done", res, starts[r], starts[r])
      BY <2>2 DEF Advance
    <2>5. /\ Outcomes[r] = {}
          /\ Outcomes' = [Outcomes EXCEPT ![r] = Yield(res)]
      BY <1>4, <2>1, <2>4
    <2>6. Yield(res) = {res}
      BY DEF Yield
    <2>7. Sent' = Sent
      BY <2>2 DEF Sent
    <2>8. QED
      BY <2>2, <2>3, <2>5, <2>6, <2>7 DEF Promise!Finish, Sent, Outcomes
  <1>11. QED
    BY <1>3, <1>6, <1>7, <1>8, <1>9, <1>10 DEF StartWrite

\* An answer is a Tell of ClientWrite.
LEMMA ReplyTells ==
    ASSUME NEW r \in Req, entry[r] # None, answer[r] = "none", NEW a, Reply(r, a),
           UNCHANGED <<entry, hops, starts>>,
           \/ a = "unknown"
           \/ a = "refused" /\ starts[r] = 0
           \/ a \in Outcome(hops[r])
    PROVE  Promise!Tell(r)
  <1>1. UNCHANGED <<Sent, starts, Outcomes>> /\ r \in Sent
    BY DEF Sent, Outcomes
  <1>2. answer' = [answer EXCEPT ![r] = a]
    BY DEF Reply
  <1>3. a \in Outcomes[r] \cup {"unknown"}
               \cup (IF starts[r] = 0 THEN {"refused"} ELSE {})
    BY DEF Outcomes
  <1>4. QED
    BY <1>1, <1>2, <1>3 DEF Promise!Tell, Sent, Outcomes

\* One more attempt shows the client nothing.
LEMMA SendStutters ==
    ASSUME WritesOK, NEW r \in Req, NEW n \in Node, NEW stage \in {"sent", "checked"},
           hops' = [hops EXCEPT ![r] = Append(hops[r], Attempt(n, stage))],
           UNCHANGED <<entry, answer, starts>>
    PROVE  UNCHANGED <<Sent, starts, Outcomes, answer>>
  <1> DEFINE g == Append(hops[r], Attempt(n, stage))
  <1>1. Outcome(g) = Outcome(hops[r])
    BY SendOutcome DEF WritesOK
  <1> HIDE DEF g
  <1>2. Outcomes' = [Outcomes EXCEPT ![r] = Outcome(g)]
    BY OutcomesAt DEF g
  <1>3. Outcomes' = Outcomes
    BY <1>1, <1>2 DEF Outcomes
  <1>4. QED
    BY <1>3 DEF Sent

\* A step of the entry node is an answer, or shows the client nothing.
LEMMA EntrySimulates ==
    ASSUME IInv, NEW r \in Req, EntryStep(r)
    PROVE  Promise!Tell(r) \/ UNCHANGED <<Sent, starts, Outcomes, answer>>
  <1>1. EnvOK /\ WritesOK
    BY DEF IInv
  <1>2. /\ hops[r] \in Seq(Hop)
        /\ Consistent(entry[r], handler[r], hops[r], answer[r], starts[r])
    BY DEF IInv, WritesOK, AllConsistent
  <1>3. handler[r] \in {"route", "waits"}
    BY DEF EntryStep, Reject, RouteLocal, RouteNowhere, RouteRemote, Retry,
           GiveAnswer, ForwardTimeout
  <1>4. entry[r] # None /\ entry[r] \in Node /\ answer[r] = "none"
    BY <1>1, <1>2, <1>3 DEF WritesOK, Consistent, Answered
  <1>5. leader[entry[r]] # None => leader[entry[r]] \in Node
    BY <1>1, <1>4 DEF EnvOK
  <1>6. ASSUME handler[r] = "route" PROVE starts[r] = 0
    BY <1>2, <1>6, FreshRoute
  <1>7. CASE Reject(r) \/ RouteNowhere(r)
    BY <1>4, <1>6, <1>7, ReplyTells DEF Reject, RouteNowhere
  <1>8. CASE RouteLocal(r)
    BY <1>1, <1>4, <1>8, SendStutters DEF RouteLocal
  <1>9. ASSUME NEW m \in Node, ForwardTo(r, m), UNCHANGED <<entry, starts>>, starts[r] = 0
        PROVE  Promise!Tell(r) \/ UNCHANGED <<Sent, starts, Outcomes, answer>>
    <2>1. CASE Reply(r, "refused") /\ UNCHANGED hops
      BY <1>4, <1>9, <2>1, ReplyTells
    <2>2. CASE /\ hops' = [hops EXCEPT ![r] = Append(@, Attempt(m, "sent"))]
               /\ UNCHANGED answer
      BY <1>1, <1>9, <2>2, SendStutters
    <2>3. QED
      BY <1>9, <2>1, <2>2 DEF ForwardTo
  <1>10. CASE RouteRemote(r)
    BY <1>5, <1>6, <1>9, <1>10 DEF RouteRemote
  <1>11. CASE Retry(r)
    <2>1. /\ handler[r] = "waits"
          /\ hops[r][Len(hops[r])].stage = "done"
          /\ hops[r][Len(hops[r])].result = "mismatch"
      BY <1>11 DEF Retry, Retries, Last
    <2>2. Tracked(hops[r], starts[r]) /\ Len(hops[r]) > 0
      BY <1>2, <2>1 DEF Consistent, Answered
    <2>3. starts[r] = 0
      BY <1>2, <2>1, <2>2, MismatchNotBegun
    <2>4. QED
      BY <1>5, <1>9, <1>11, <2>3 DEF Retry, Retries
  <1>12. CASE GiveAnswer(r)
    <2> DEFINE a == IF Last(r).result = "mismatch" THEN "refused" ELSE Last(r).result
    <2>1. /\ handler[r] = "waits" /\ Last(r).stage = "done" /\ Reply(r, a)
          /\ UNCHANGED <<entry, hops, starts>>
      BY <1>12 DEF GiveAnswer
    <2>2. /\ Len(hops[r]) \in 1 .. Len(hops[r]) /\ Len(hops[r]) > 0
          /\ Last(r) = hops[r][Len(hops[r])]
      BY <1>2, <2>1 DEF Last, Consistent, Answered
    <2>3. Last(r).result # "none"
      BY <1>2, <2>1, <2>2 DEF Consistent, Tracked
    <2>4. Last(r).result \in Results
      <3>1. Last(r) \in Hop
        BY <1>2, <2>2, ElementOfSeq
      <3>2. QED
        BY <3>1 DEF Hop
    <2>5. CASE Last(r).result \in {"refused", "mismatch"}
      <3>1. starts[r] = 0
        BY <1>2, <2>1, <2>2, <2>5, MismatchNotBegun DEF Consistent
      <3>2. QED
        BY <1>4, <2>1, <2>5, <3>1, ReplyTells
    <2>6. CASE Last(r).result \in {"ok", "failed"}
      <3>1. a = Last(r).result
        BY <2>6
      <3>2. Last(r).result \in Outcome(hops[r])
        BY <1>2, <2>2, <2>6 DEF Outcome
      <3>3. QED
        BY <1>4, <2>1, <3>1, <3>2, ReplyTells
    <2>7. QED
      BY <2>3, <2>4, <2>5, <2>6 DEF Results
  <1>13. CASE ForwardTimeout(r)
    BY <1>4, <1>13, ReplyTells DEF ForwardTimeout
  <1>14. QED
    BY <1>7, <1>8, <1>10, <1>11, <1>12, <1>13 DEF EntryStep

\* A client that sends a write is the Send of ClientWrite.
LEMMA SubmitSimulates ==
    ASSUME IInv, NEW r \in Req, NEW n \in Node, Submit(r, n)
    PROVE  Promise!Send(r)
  <1>1. entry' = [entry EXCEPT ![r] = n] /\ entry[r] = None /\ n # None
    BY ForwardingAssumption DEF Submit
  <1>2. Sent' = Sent \cup {r} /\ r \notin Sent
    BY <1>1 DEF Sent, IInv, WritesOK
  <1>3. UNCHANGED <<starts, Outcomes, answer>>
    BY DEF Submit, Outcomes
  <1>4. QED
    BY <1>2, <1>3 DEF Promise!Send, Sent, Outcomes

\* A crash disconnects the clients of the node and changes no outcome.
LEMMA CrashSimulates ==
    ASSUME IInv, NEW n \in Node, Crash(n)
    PROVE  \E S \in SUBSET Req : Promise!Disconnect(S)
  <1> DEFINE cut == {r \in Req : entry[r] = n /\ handler[r] # "over"}
  <1>1. ASSUME NEW r \in cut PROVE r \in Sent /\ answer[r] = "none"
    BY ForwardingAssumption DEF IInv, AllConsistent, Consistent, Answered, Sent
  <1>2. /\ answer' = [r \in Req |-> IF r \in cut THEN "unknown" ELSE answer[r]]
        /\ UNCHANGED <<entry, starts>>
    BY DEF Crash
  <1>3. Outcomes' = Outcomes
    <2>1. ASSUME NEW r \in Req PROVE Outcome(hops'[r]) = Outcome(hops[r])
      <3>1. /\ hops[r] \in Seq(Hop)
            /\ Consistent(entry[r], handler[r], hops[r], answer[r], starts[r])
        BY DEF IInv, WritesOK, AllConsistent
      <3>2. hops'[r] = Lost(hops[r], n)
        BY DEF Crash
      <3> DEFINE g == Lost(hops[r], n)
      <3>3. Outcome(g) = Outcome(hops[r])
        BY <3>1, LostKeeps
      <3>4. QED
        BY <3>2, <3>3
    <2>2. QED
      BY <2>1 DEF Outcomes
  <1>4. Sent' = Sent /\ cut \in SUBSET Req
    BY <1>2 DEF Sent
  <1> HIDE DEF cut
  <1>5. Promise!Disconnect(cut)
    BY <1>1, <1>2, <1>3, <1>4 DEF Promise!Disconnect, Sent, Outcomes
  <1>6. QED
    BY <1>4, <1>5

\* Every step is one of ClientWrite, or shows a client nothing.
LEMMA Simulates == IInv /\ [Next]_vars => [Promise!Next]_(Promise!vars)
  <1> SUFFICES ASSUME IInv, [Next]_vars PROVE [Promise!Next]_(Promise!vars)
    OBVIOUS
  <1>1. UNCHANGED <<Sent, starts, Outcomes, answer>> => UNCHANGED Promise!vars
    BY DEF Promise!vars, Sent, Outcomes
  <1>2. CASE \E r \in Req, n \in Node : Submit(r, n)
    BY <1>2, SubmitSimulates DEF Promise!Next
  <1>3. CASE \E r \in Req : AttemptStep(r)
    BY <1>1, <1>3, AttemptSimulates DEF Promise!Next
  <1>4. CASE \E r \in Req : EntryStep(r)
    BY <1>1, <1>4, EntrySimulates DEF Promise!Next
  <1>5. CASE \E n \in Node : LeaderChange(n)
    <2>1. UNCHANGED <<Sent, starts, Outcomes, answer>>
      BY <1>5 DEF LeaderChange, Sent, Outcomes
    <2>2. QED
      BY <1>1, <2>1
  <1>6. CASE \E n \in Node : Crash(n)
    BY <1>6, CrashSimulates DEF Promise!Next
  <1>7. CASE UNCHANGED vars
    <2>1. UNCHANGED <<Sent, starts, Outcomes, answer>>
      BY <1>7 DEF vars, Sent, Outcomes
    <2>2. QED
      BY <1>1, <2>1
  <1>8. QED
    BY <1>2, <1>3, <1>4, <1>5, <1>6, <1>7 DEF Next

\* The write path implements ClientWrite: forwarding, retries, abandoned calls,
\* changes of leader and crashes show a client nothing else.
THEOREM Refinement == Spec => KeepsPromise
  <1>1. Init => Promise!Init
    <2> SUFFICES ASSUME Init PROVE Promise!Init
      OBVIOUS
    <2>1. Outcome(<<>>) = {}
      BY DEF Outcome
    <2>2. QED
      BY <2>1 DEF Init, Promise!Init
  <1>2. Init => IInv
    BY Initially
  <1>3. IInv /\ [Next]_vars => IInv'
    BY Inductive
  <1>4. IInv /\ [Next]_vars => [Promise!Next]_(Promise!vars)
    BY Simulates
  <1>5. QED
    BY <1>1, <1>2, <1>3, <1>4, PTL DEF Spec, KeepsPromise, Promise!Spec
=============================================================================
