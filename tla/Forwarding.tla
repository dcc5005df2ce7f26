----------------------------- MODULE Forwarding -----------------------------
(***************************************************************************)
(* The way of a client's write through the cluster (node.py): SET, SETEX   *)
(* and DELETE at any node, forwarded as __LEADER_WRITE to the node that    *)
(* the receiver takes for the leader, refused there, sent on, or written.  *)
(*                                                                         *)
(* Who leads comes from Election: every node has its own belief, and       *)
(* beliefs of different nodes may disagree for a while.  The write itself, *)
(* from the write lock on, is Replication's; here it is two steps with an  *)
(* arbitrary outcome.  Admission (RateLimiter) may refuse any message.     *)
(* What is written is left out: the value passes json.dumps and json.loads *)
(* unchanged, an absent TTL travels as "".                                 *)
(***************************************************************************)
EXTENDS Integers, Sequences

CONSTANTS
    Node,
    Req,          \* writes of clients
    None,
    FirstLeaders, \* what nodes may take for the leader at first
    MaxChanges,   \* bound: changes of a node's belief
    MaxCrashes    \* bound: crashes of a node

ASSUME ForwardingAssumption ==
    /\ None \notin Node
    /\ FirstLeaders \subseteq [Node -> Node \cup {None}]
    /\ MaxChanges \in Nat /\ MaxCrashes \in Nat

VARIABLES
    leads,    \* leads[n]: election.role at n is LEADER
    leader,   \* leader[n]: election.leader_id at n
    lock,     \* lock[n]: the request that holds the _write_lock of n, or None
    entry,    \* entry[r]: the node the client sent r to
    handler,  \* handler[r]: where the handler of r is at its entry node
    hops,     \* hops[r]: the attempts made for r, the last one is awaited
    answer,   \* answer[r]: what the client was told
    starts,   \* history: how often the write of r was started
    changes, crashes

vars == <<leads, leader, lock, entry, handler, hops, answer, starts, changes, crashes>>

\* An attempt at a node: "sent", past the check of __LEADER_WRITE ("checked"),
\* past the check of _apply_partition_write ("accepted"), holding the write lock
\* ("writing"), "done" with a result, or "lost" with the process.
Stages == {"sent", "checked", "accepted", "writing", "done", "lost"}
Results == {"none", "ok", "failed", "refused", "mismatch"}
Hop == [node : Node, stage : Stages, result : Results, local : BOOLEAN]

Attempt(n, s) ==
    [node |-> n, stage |-> s, result |-> "none", local |-> s = "checked"]

Last(r) == hops[r][Len(hops[r])]

\* Answers that say the write was not made, as opposed to "failed" (it was
\* begun) and "unknown" (no answer came).
Answers == {"none", "ok", "failed", "refused", "unknown"}

-----------------------------------------------------------------------------
Init ==
    /\ leader \in FirstLeaders
    /\ leads = [n \in Node |-> leader[n] = n]
    /\ lock = [n \in Node |-> None]
    /\ entry = [r \in Req |-> None]
    /\ handler = [r \in Req |-> "none"]
    /\ hops = [r \in Req |-> <<>>]
    /\ answer = [r \in Req |-> "none"]
    /\ starts = [r \in Req |-> 0]
    /\ changes = 0
    /\ crashes = 0

\* The response goes to the client and the handler of the entry node ends.
Reply(r, a) ==
    /\ answer' = [answer EXCEPT ![r] = a]
    /\ handler' = [handler EXCEPT ![r] = "over"]

Submit(r, n) ==
    /\ entry[r] = None
    /\ entry' = [entry EXCEPT ![r] = n]
    /\ handler' = [handler EXCEPT ![r] = "route"]
    /\ UNCHANGED <<leads, leader, lock, hops, answer, starts, changes, crashes>>

\* should_accept_request says no, or the arguments are wrong.
Reject(r) ==
    /\ handler[r] = "route"
    /\ Reply(r, "refused")
    /\ UNCHANGED <<leads, leader, lock, entry, hops, starts, changes, crashes>>

\* Mutant: the handler waits for a call it never made.
ForwardToUnsent(r, m) ==
    /\ handler' = [handler EXCEPT ![r] = "waits"]
    /\ UNCHANGED <<hops, answer>>

\* _forward_write: the coordinator is not a member that is alive, or it cannot
\* be reached, or the request is on its way.
ForwardTo(r, m) ==
    \/ /\ Reply(r, "refused")
       /\ UNCHANGED hops
    \/ /\ hops' = [hops EXCEPT ![r] = Append(@, Attempt(m, "sent"))]
       /\ handler' = [handler EXCEPT ![r] = "waits"]
       /\ UNCHANGED answer

\* _coordinate_or_forward_write
RouteLocal(r) ==
    /\ handler[r] = "route"
    /\ leads[entry[r]]
    /\ hops' = [hops EXCEPT ![r] = Append(@, Attempt(entry[r], "checked"))]
    /\ handler' = [handler EXCEPT ![r] = "waits"]
    /\ UNCHANGED <<leads, leader, lock, entry, answer, starts, changes, crashes>>

RouteNowhere(r) ==
    /\ handler[r] = "route"
    /\ ~leads[entry[r]] /\ leader[entry[r]] = None
    /\ Reply(r, "refused")
    /\ UNCHANGED <<leads, leader, lock, entry, hops, starts, changes, crashes>>

RouteRemote(r) ==
    /\ handler[r] = "route"
    /\ ~leads[entry[r]] /\ leader[entry[r]] # None
    /\ ForwardTo(r, leader[entry[r]])
    /\ UNCHANGED <<leads, leader, lock, entry, starts, changes, crashes>>

-----------------------------------------------------------------------------
(* At the node of the attempt.  It goes on when nobody waits for it any more. *)

Moved(h, stage, result) ==
    [node |-> h.node, stage |-> stage, result |-> result, local |-> h.local]

Becomes(r, i, stage, result) ==
    hops' = [hops EXCEPT ![r] =
               [hops[r] EXCEPT ![i] = Moved(hops[r][i], stage, result)]]

\* _handle_leader_write
HandleLeaderWrite(r, i) ==
    LET n == hops[r][i].node IN
    /\ hops[r][i].stage = "sent"
    /\ \/ Becomes(r, i, "done", "refused")
       \/ ~leads[n] /\ Becomes(r, i, "done", "mismatch")
       \/ leads[n] /\ Becomes(r, i, "checked", "none")
    /\ UNCHANGED <<leads, leader, lock, entry, handler, answer, starts, changes, crashes>>

\* _apply_partition_write up to the write lock: the second check for the leader,
\* and the size of the ring.
CheckWrite(r, i) ==
    LET n == hops[r][i].node IN
    /\ hops[r][i].stage = "checked"
    /\ \/ Becomes(r, i, "done", "refused")
       \/ leads[n] /\ Becomes(r, i, "accepted", "none")
    /\ UNCHANGED <<leads, leader, lock, entry, handler, answer, starts, changes, crashes>>

\* With the write lock: refused when a replica is not alive, else the entry
\* is replicated.  Whether the node still leads is not looked at.
StartWrite(r, i) ==
    LET n == hops[r][i].node IN
    /\ hops[r][i].stage = "accepted"
    /\ lock[n] = None
    /\ \/ Becomes(r, i, "done", "refused") /\ UNCHANGED <<lock, starts>>
       \/ /\ Becomes(r, i, "writing", "none")
          /\ lock' = [lock EXCEPT ![n] = r]
          /\ starts' = [starts EXCEPT ![r] = @ + 1]
    /\ UNCHANGED <<leads, leader, entry, handler, answer, changes, crashes>>

\* Mutant: the write lock is not given back.
FinishWriteKeepsLock(r, i) ==
    /\ hops[r][i].stage = "writing"
    /\ \E res \in {"ok", "failed"} : Becomes(r, i, "done", res)
    /\ UNCHANGED <<leads, leader, lock, entry, handler, answer, starts, changes, crashes>>

FinishWrite(r, i) ==
    LET n == hops[r][i].node IN
    /\ hops[r][i].stage = "writing"
    /\ \E res \in {"ok", "failed"} : Becomes(r, i, "done", res)
    /\ lock' = [lock EXCEPT ![n] = None]
    /\ UNCHANGED <<leads, leader, entry, handler, answer, starts, changes, crashes>>

-----------------------------------------------------------------------------
(* Back at the entry node *)

\* Mutant: any failure makes the entry node try again.
RetriesOnFailure(r) ==
    /\ Last(r).result \in {"mismatch", "failed"}
    /\ leader[entry[r]] \notin {None, Last(r).node}

\* The response to a stale leader makes the entry node try the one it takes for
\* the leader by now, unless that is the node which refused.
Retries(r) ==
    /\ Last(r).result = "mismatch"
    /\ leader[entry[r]] \notin {None, Last(r).node}

Retry(r) ==
    /\ handler[r] = "waits"
    /\ Last(r).stage = "done"
    /\ Retries(r)
    /\ ForwardTo(r, leader[entry[r]])
    /\ UNCHANGED <<leads, leader, lock, entry, starts, changes, crashes>>

GiveAnswer(r) ==
    /\ handler[r] = "waits"
    /\ Last(r).stage = "done"
    /\ ~Retries(r)
    /\ Reply(r, IF Last(r).result = "mismatch" THEN "refused" ELSE Last(r).result)
    /\ UNCHANGED <<leads, leader, lock, entry, hops, starts, changes, crashes>>

\* Mutant: a missing answer is reported like an unreachable coordinator.
ForwardTimeoutRefuses(r) ==
    /\ handler[r] = "waits"
    /\ ~Last(r).local
    /\ Reply(r, "refused")
    /\ UNCHANGED <<leads, leader, lock, entry, hops, starts, changes, crashes>>

\* send_command returns None: no answer within the timeout, or the connection
\* was lost.  A leader calls _apply_partition_write itself
\* and has no call to wait for.
ForwardTimeout(r) ==
    /\ handler[r] = "waits"
    /\ ~Last(r).local
    /\ Reply(r, "unknown")
    /\ UNCHANGED <<leads, leader, lock, entry, hops, starts, changes, crashes>>

-----------------------------------------------------------------------------
(* Environment *)

\* A node wins an election, hears from a leader, steps down, or is deposed by a
\* vote request of a higher term, which leaves leader_id as it was.
LeaderChange(n) ==
    /\ changes < MaxChanges
    /\ changes' = changes + 1
    /\ \/ ~leads[n] /\ leads' = [leads EXCEPT ![n] = TRUE]
                    /\ leader' = [leader EXCEPT ![n] = n]
       \/ \E m \in Node \ {n} : /\ leads' = [leads EXCEPT ![n] = FALSE]
                                /\ leader' = [leader EXCEPT ![n] = m]
       \/ leads[n] /\ leads' = [leads EXCEPT ![n] = FALSE]
                   /\ leader' \in {leader, [leader EXCEPT ![n] = None]}
    /\ UNCHANGED <<lock, entry, handler, hops, answer, starts, crashes>>

\* The attempts h without those under way at n.
Lost(h, n) ==
    [i \in DOMAIN h |->
        IF h[i].node = n /\ h[i].stage # "done"
        THEN Moved(h[i], "lost", h[i].result) ELSE h[i]]

\* The process ends with its handlers and starts again; its clients lose their
\* connections.
Crash(n) ==
    /\ crashes < MaxCrashes
    /\ crashes' = crashes + 1
    /\ leads' = [leads EXCEPT ![n] = FALSE]
    /\ leader' = [leader EXCEPT ![n] = None]
    /\ lock' = [lock EXCEPT ![n] = None]
    /\ hops' = [r \in Req |-> Lost(hops[r], n)]
    /\ LET cut == {r \in Req : entry[r] = n /\ handler[r] # "over"}
       IN  /\ answer' = [r \in Req |-> IF r \in cut THEN "unknown" ELSE answer[r]]
           /\ handler' = [r \in Req |-> IF r \in cut THEN "over" ELSE handler[r]]
    /\ UNCHANGED <<entry, starts, changes>>

AttemptStep(r) ==
    \E i \in DOMAIN hops[r] :
        \/ HandleLeaderWrite(r, i) \/ CheckWrite(r, i)
        \/ StartWrite(r, i) \/ FinishWrite(r, i)

EntryStep(r) ==
    \/ Reject(r) \/ RouteLocal(r) \/ RouteNowhere(r) \/ RouteRemote(r)
    \/ Retry(r) \/ GiveAnswer(r) \/ ForwardTimeout(r)

Next ==
    \/ \E r \in Req, n \in Node : Submit(r, n)
    \/ \E r \in Req : AttemptStep(r) \/ EntryStep(r)
    \/ \E n \in Node : LeaderChange(n)
    \/ \E n \in Node : Crash(n)

Spec == Init /\ [][Next]_vars

\* Threads run, calls time out, and a free lock is given to a waiting thread.
Fairness == \A r \in Req : WF_vars(AttemptStep(r)) /\ WF_vars(EntryStep(r))

FairSpec == Spec /\ Fairness

-----------------------------------------------------------------------------
TypeOK ==
    /\ leads \in [Node -> BOOLEAN]
    /\ leader \in [Node -> Node \cup {None}]
    /\ lock \in [Node -> Req \cup {None}]
    /\ entry \in [Req -> Node \cup {None}]
    /\ handler \in [Req -> {"none", "route", "waits", "over"}]
    /\ hops \in [Req -> Seq(Hop)]
    /\ \A r \in Req : handler[r] = "waits" => hops[r] # <<>>
    /\ answer \in [Req -> Answers]
    /\ starts \in [Req -> Nat]
    /\ changes \in 0 .. MaxChanges /\ crashes \in 0 .. MaxCrashes

\* An attempt that may still turn into a write.
Alive(h) == h.stage \in {"sent", "checked", "accepted", "writing"}

\* However often _forward_write sends a write on, it is started at most once,
\* also by attempts that nobody waits for any more.
AtMostOnce ==
    \A r \in Req :
        /\ starts[r] <= 1
        /\ starts[r] = 1 => \A i \in DOMAIN hops[r] :
                               hops[r][i].stage \notin {"sent", "checked", "accepted"}

\* A client that is told its write was refused (no leader, leader mismatch, rate
\* limited, coordinator unavailable) can rely on it: the write was not begun and
\* no attempt under way can still begin it.  One that is told OK was written.
AnswersAreTrue ==
    \A r \in Req :
        /\ answer[r] = "refused" =>
              starts[r] = 0 /\ \A i \in DOMAIN hops[r] : ~Alive(hops[r][i])
        /\ answer[r] = "ok" =>
              \E i \in DOMAIN hops[r] : hops[r][i].result = "ok"

\* Every write is answered, although leaders change under way, a lock is held
\* by another write and nodes crash.
EveryWriteAnswered ==
    \A r \in Req : (entry[r] # None) ~> (answer[r] # "none")

\* What came of the attempts h of a write.
Outcome(h) == {h[i].result : i \in DOMAIN h} \cap {"ok", "failed"}

Promise == INSTANCE ClientWrite WITH
    sent <- {r \in Req : entry[r] # None},
    begun <- starts,
    outcome <- [r \in Req |-> Outcome(hops[r])],
    told <- answer

\* The write path implements what it promises its clients: every step is one of
\* ClientWrite or changes nothing the client could tell, whatever attempts are
\* refused, sent on, abandoned or lost with their node.
KeepsPromise == Promise!Spec

\* "Stale leader: retry once against the current election winner."
RetriesOnce == \A r \in Req : Len(hops[r]) <= 2

\* "Route every write through the current election leader": the node that
\* starts a write leads when it does.
StartedByLeader ==
    [][\A r \in Req, n \in Node :
          (lock[n] # r /\ lock'[n] = r) => leads[n]]_vars
=============================================================================
