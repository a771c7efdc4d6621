----------------------------- MODULE DeltaQueue -----------------------------
(***************************************************************************)
(* The delta queue of flyos_kernel.c: the tasks that wait for a number of  *)
(* ticks, in the order in which they fall due, each with the number of     *)
(* ticks between its predecessor's wake-up and its own.  The doubly linked *)
(* list is the sequence dq.  Both loops of the code (the search for the    *)
(* place of an insertion, the expiry of everybody who is due) are modelled *)
(* iteration by iteration.  A call runs inside the kernel's critical       *)
(* section, so no other call or tick starts before it returns.             *)
(***************************************************************************)
EXTENDS Naturals, Sequences, SequencesExt

CONSTANTS
    Task,       \* the task control blocks
    MAX_TICKS   \* the largest delay, 2^32 - 1 for flyos_tick_t

ASSUME MaxTicksAssumption == MAX_TICKS \in Nat

VARIABLES
    dq,         \* the queue, from scheduler.delta_queue_head on
    delta,      \* timer_delta_link.delta of every task
    op,         \* the call in progress: "none", "insert" or "deal"
    who,        \* the task flyos_delta_queue_insert is placing
    pos,        \* the number of nodes its search has passed
    left,       \* history: the ticks each waiting task has left
    older       \* history: the waiting tasks that were inserted before it

vars == <<dq, delta, op, who, pos, left, older>>

ArmedTasks == ToSet(dq) \cup (IF op = "insert" THEN {who} ELSE {})

TypeOK ==
    /\ dq    \in Seq(Task)
    /\ delta \in [Task -> 0..MAX_TICKS]
    /\ op    \in {"none", "insert", "deal"}
    /\ who   \in Task
    /\ pos   \in 0..Len(dq)
    /\ left  \in [Task -> 0..MAX_TICKS]
    /\ older \in [Task -> SUBSET Task]

-----------------------------------------------------------------------------

\* The place of a task that is linked in the queue.
Index(t) == CHOOSE i \in 1..Len(dq) : dq[i] = t

Linked(t) == \E i \in 1..Len(dq) : dq[i] = t

\* The queue and the deltas after flyos_delta_queue_remove(t): the node that
\* follows t inherits t's delta; a task that is not linked is left alone.
QueueWithout(t) == IF Linked(t) THEN RemoveAt(dq, Index(t)) ELSE dq

\* A mutant: the follower does not inherit t's delta.
MutantDropsDelta(t) ==
    IF Linked(t) THEN [u \in Task |-> IF u = t THEN 0 ELSE delta[u]] ELSE delta

DeltaWithout(t) ==
    IF Linked(t)
    THEN [u \in Task |->
            IF u = t THEN 0
            ELSE IF Index(t) < Len(dq) /\ u = dq[Index(t) + 1]
                 THEN delta[u] + delta[t]
                 ELSE delta[u]]
    ELSE delta

OlderWithout(t) == [u \in Task |-> IF u = t THEN {} ELSE older[u] \ {t}]

-----------------------------------------------------------------------------

Init ==
    /\ dq    = <<>>
    /\ delta = [t \in Task |-> 0]
    /\ op    = "none"
    /\ who   \in Task
    /\ pos   = 0
    /\ left  = [t \in Task |-> 0]
    /\ older = [t \in Task |-> {}]

\* flyos_delta_queue_insert up to its loop: a linked task is removed first.
\* A call with a delay of 0 returns at once and changes nothing.
InsertBegin(t, ticks) ==
    /\ op = "none"
    /\ ticks > 0
    /\ dq'    = QueueWithout(t)
    /\ delta' = [DeltaWithout(t) EXCEPT ![t] = ticks]
    /\ op'    = "insert"
    /\ who'   = t
    /\ pos'   = 0
    /\ left'  = [left EXCEPT ![t] = ticks]
    /\ older' = [OlderWithout(t) EXCEPT ![t] = ToSet(QueueWithout(t))]

\* One iteration of the search: the node falls due no later than who does.
InsertPass ==
    /\ op = "insert"
    /\ pos < Len(dq)
    /\ delta[who] >= delta[dq[pos + 1]]
    /\ delta' = [delta EXCEPT ![who] = @ - delta[dq[pos + 1]]]
    /\ pos'   = pos + 1
    /\ UNCHANGED <<dq, op, who, left, older>>

\* A mutant: the node after who keeps its delta.
MutantKeepsFollower ==
    /\ op = "insert"
    /\ pos < Len(dq) => delta[who] < delta[dq[pos + 1]]
    /\ dq' = InsertAt(dq, pos + 1, who)
    /\ op' = "none"
    /\ pos' = 0
    /\ UNCHANGED <<delta, who, left, older>>

\* A mutant: the search may stop at a node that falls due at the same tick.
MutantBeforeEquals ==
    /\ op = "insert"
    /\ \/ /\ pos = Len(dq)
          /\ UNCHANGED delta
       \/ /\ pos < Len(dq)
          /\ delta[who] <= delta[dq[pos + 1]]
          /\ delta' = [delta EXCEPT ![dq[pos + 1]] = @ - delta[who]]
    /\ dq' = InsertAt(dq, pos + 1, who)
    /\ op' = "none"
    /\ pos' = 0
    /\ UNCHANGED <<who, left, older>>

\* The search is over: who goes before the node it stopped at, if any.
InsertLink ==
    /\ op = "insert"
    /\ \/ /\ pos = Len(dq)
          /\ UNCHANGED delta
       \/ /\ pos < Len(dq)
          /\ delta[who] < delta[dq[pos + 1]]
          /\ delta' = [delta EXCEPT ![dq[pos + 1]] = @ - delta[who]]
    /\ dq' = InsertAt(dq, pos + 1, who)
    /\ op' = "none"
    /\ pos' = 0
    /\ UNCHANGED <<who, left, older>>

\* flyos_delta_queue_remove: a wake-up before the time-out, or a deletion.
Unlink(t) ==
    /\ op = "none"
    /\ dq'    = QueueWithout(t)
    /\ delta' = DeltaWithout(t)
    /\ left'  = [left EXCEPT ![t] = 0]
    /\ older' = OlderWithout(t)
    /\ UNCHANGED <<op, who, pos>>

\* delta_queue_deal up to its loop; an empty queue returns at once.
DealBegin ==
    /\ op = "none"
    /\ dq # <<>>
    /\ delta' = [delta EXCEPT ![dq[1]] = @ - 1]
    /\ op'    = "deal"
    /\ left'  = [u \in Task |-> IF Linked(u) THEN left[u] - 1 ELSE 0]
    /\ UNCHANGED <<dq, who, pos, older>>

\* One iteration: the head is due, so it is unlinked and woken.
DealFire ==
    /\ op = "deal"
    /\ dq # <<>>
    /\ delta[dq[1]] = 0
    /\ dq'    = Tail(dq)
    /\ delta' = [delta EXCEPT ![dq[1]] = 0]
    /\ older' = OlderWithout(dq[1])
    /\ UNCHANGED <<op, who, pos, left>>

\* A mutant: one task is woken per tick.
MutantOneExpiry ==
    /\ op = "deal"
    /\ op' = "none"
    /\ UNCHANGED <<dq, delta, who, pos, left, older>>

DealEnd ==
    /\ op = "deal"
    /\ dq # <<>> => delta[dq[1]] # 0
    /\ op' = "none"
    /\ UNCHANGED <<dq, delta, who, pos, left, older>>

Step == InsertPass \/ InsertLink \/ DealFire \/ DealEnd

Next ==
    \/ \E t \in Task, ticks \in 1..MAX_TICKS : InsertBegin(t, ticks)
    \/ \E t \in Task : Unlink(t)
    \/ DealBegin
    \/ Step

Spec == Init /\ [][Next]_vars

-----------------------------------------------------------------------------
(* Properties                                                              *)

\* No task is twice in the queue, and the task being placed is not in it yet.
Distinct ==
    /\ \A i, j \in 1..Len(dq) : dq[i] = dq[j] => i = j
    /\ op = "insert" => ~Linked(who)

\* The ticks a task has left are those of its predecessor and its own delta.
Chained(q, d, l) ==
    /\ q # <<>> => l[q[1]] = d[q[1]]
    /\ \A i \in 1..(Len(q) - 1) : l[q[i + 1]] = l[q[i]] + d[q[i + 1]]

\* Nobody is behind a task that falls due later, and among those who fall due
\* together the earlier comer is in front.
Ordered(q, l, o) ==
    \A i, j \in 1..Len(q) : i < j =>
        \/ l[q[i]] < l[q[j]]
        \/ l[q[i]] = l[q[j]] /\ q[i] \in o[q[j]] /\ q[j] \notin o[q[i]]

\* A task outside the queue has no delta: the test with which
\* flyos_delta_queue_insert and _remove recognise such a task is right.
UnlinkedZero ==
    \A t \in Task : ~Linked(t) /\ ~(op = "insert" /\ t = who) => delta[t] = 0

\* The queue always says when each of its tasks falls due, in that order,
\* whichever calls and ticks have worked on it (lines 115-239).
QueueInvariant ==
    /\ Distinct
    /\ Chained(dq, delta, left)
    /\ Ordered(dq, left, older)
    /\ UnlinkedZero

\* Line 218 decrements the head's delta without looking at it: when a tick
\* arrives it is never 0, so that the unsigned counter does not wrap around.
HeadPositive == op # "deal" /\ dq # <<>> => delta[dq[1]] > 0

\* The history variables speak of the armed tasks only.
HistoryInvariant ==
    /\ \A t \in Task : older[t] \subseteq ArmedTasks \ {t}
    /\ \A t \in Task \ ArmedTasks : older[t] = {} /\ left[t] = 0

\* What holds at each iteration of the search: the task being placed still has
\* to wait delta[who] ticks after the last node that was passed.
SearchInvariant ==
    /\ op # "insert" => pos = 0
    /\ op = "insert" =>
        /\ left[who] = delta[who] + IF pos = 0 THEN 0 ELSE left[dq[pos]]
        /\ left[who] > 0
        /\ older[who] = ToSet(dq)
        /\ \A i \in 1..Len(dq) : who \notin older[dq[i]]

\* The inductive invariant.
IInv ==
    /\ TypeOK
    /\ QueueInvariant
    /\ HeadPositive
    /\ HistoryInvariant
    /\ SearchInvariant

\* The queue of deltas is an implementation of the timers: with every search
\* and every expiry loop, each task is woken in the tick it asked for, and
\* tasks that fall due together are woken in the order of their calls.
Abstract == INSTANCE Timers WITH armed <- ArmedTasks
TimersSpec == Abstract!Spec
=============================================================================
