--------------------------- MODULE VersionVectors ---------------------------
(***************************************************************************)
(* Version vectors (repair/version_vector.py): what increment, merge and   *)
(* compare say about causality when replicas use them the way the class    *)
(* documents, each incrementing its own entry and merging the vectors it   *)
(* receives.  Nothing else in the program uses the class.                  *)
(*                                                                         *)
(* Vectors travel as messages that arrive late, repeatedly, out of order   *)
(* or never.  A dictionary may lack a node; get takes that for 0.          *)
(***************************************************************************)
EXTENDS Integers

CONSTANTS
    Node,
    MaxUpdates     \* bound: updates of a replica

VARIABLES
    vector,    \* vector[n]: the VersionVector of replica n
    sent,      \* the vectors on their way, with the history they stand for
    known      \* history: known[n], the updates <<node, number>> that n has
               \* made or heard of

vars == <<vector, sent, known>>

Get(v, n) == IF n \in DOMAIN v THEN v[n] ELSE 0

Increment(v, n) ==
    [m \in DOMAIN v \cup {n} |-> IF m = n THEN Get(v, n) + 1 ELSE v[m]]

Larger(x, y) == IF x > y THEN x ELSE y

\* Mutant: the entries of the other vector replace those of this one.
MergeTakesOther(v, w) ==
    [n \in DOMAIN v \cup DOMAIN w |-> IF n \in DOMAIN w THEN w[n] ELSE v[n]]

Merge(v, w) == [n \in DOMAIN v \cup DOMAIN w |-> Larger(Get(v, n), Get(w, n))]

Newer(v, w) == \E n \in DOMAIN v \cup DOMAIN w : Get(v, n) > Get(w, n)

Compare(v, w) ==
    CASE Newer(v, w) /\ Newer(w, v) -> "concurrent"
      [] Newer(v, w) /\ ~Newer(w, v) -> "after"
      [] ~Newer(v, w) /\ Newer(w, v) -> "before"
      [] ~Newer(v, w) /\ ~Newer(w, v) -> "equal"

-----------------------------------------------------------------------------
Init ==
    /\ vector = [n \in Node |-> [m \in {} |-> 0]]
    /\ sent = {}
    /\ known = [n \in Node |-> {}]

Update(n) ==
    /\ Get(vector[n], n) < MaxUpdates
    /\ vector' = [vector EXCEPT ![n] = Increment(vector[n], n)]
    /\ known' = [known EXCEPT ![n] = known[n] \cup {<<n, Get(vector[n], n) + 1>>}]
    /\ UNCHANGED sent

\* to_dict
Send(n) ==
    /\ sent' = sent \cup {[vector |-> vector[n], known |-> known[n]]}
    /\ UNCHANGED <<vector, known>>

\* from_dict, merge
Receive(n, s) ==
    /\ vector' = [vector EXCEPT ![n] = Merge(vector[n], s.vector)]
    /\ known' = [known EXCEPT ![n] = known[n] \cup s.known]
    /\ UNCHANGED sent

Next ==
    \E n \in Node : \/ Update(n) \/ Send(n)
                    \/ \E s \in sent : Receive(n, s)

Spec == Init /\ [][Next]_vars

-----------------------------------------------------------------------------
IsVector(v) == DOMAIN v \subseteq Node /\ v \in [DOMAIN v -> Nat \ {0}]

TypeOK ==
    /\ \A n \in Node : IsVector(vector[n]) /\ known[n] \subseteq Node \X Nat
    /\ \A s \in sent : IsVector(s.vector) /\ s.known \subseteq Node \X Nat

\* compare decides causality: it says "before" exactly when the updates behind
\* the first vector are some but not all of those behind the second, "equal" when
\* they are the same, and "concurrent" when each side has one the other lacks.
\* This holds between replicas and against vectors still on their way.
Verdict(a, b) ==
    CASE a = b -> "equal"
      [] a # b /\ a \subseteq b -> "before"
      [] a # b /\ b \subseteq a -> "after"
      [] ~(a \subseteq b) /\ ~(b \subseteq a) -> "concurrent"

ComparesCausally ==
    \A n \in Node :
        /\ \A m \in Node : Compare(vector[n], vector[m]) = Verdict(known[n], known[m])
        /\ \A s \in sent : Compare(vector[n], s.vector) = Verdict(known[n], s.known)
=============================================================================
