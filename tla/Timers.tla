------------------------------- MODULE Timers -------------------------------
(***************************************************************************)
(* What the delta queue of flyos_kernel.c promises, free of lists and of   *)
(* relative deltas: every armed task has a number of ticks left; a tick    *)
(* takes one from each of them; a task fires when it has none left, not a  *)
(* tick earlier and not a tick later; tasks that fall due at the same tick *)
(* fire in the order in which they were armed.                             *)
(*                                                                         *)
(* DeltaQueue implements this specification (DeltaQueueProofs), and        *)
(* FlyosKernel uses it in place of the queue of deltas.                    *)
(***************************************************************************)
EXTENDS Naturals

CONSTANTS
    Task,       \* the task control blocks
    MAX_TICKS   \* the largest delay an API call may ask for

VARIABLES
    armed,      \* the tasks whose delay or time-out is running
    left,       \* the ticks each armed task has left (0 for the others)
    older       \* for an armed task, the armed tasks that were armed before it

vars == <<armed, left, older>>

TypeOK ==
    /\ armed \subseteq Task
    /\ left  \in [Task -> 0..MAX_TICKS]
    /\ older \in [Task -> SUBSET Task]

-----------------------------------------------------------------------------

Forget(t) == [u \in Task |-> IF u = t THEN {} ELSE older[u] \ {t}]

\* Nobody waits to be fired in the tick that is being handled.
Quiet == \A u \in armed : left[u] > 0

Init ==
    /\ armed = {}
    /\ left  = [t \in Task |-> 0]
    /\ older = [t \in Task |-> {}]

\* Arming an armed task starts it afresh, behind the others.
Arm(t, ticks) ==
    /\ Quiet
    /\ armed' = armed \cup {t}
    /\ left'  = [left EXCEPT ![t] = ticks]
    /\ older' = [Forget(t) EXCEPT ![t] = armed \ {t}]

Cancel(t) ==
    /\ Quiet
    /\ armed' = armed \ {t}
    /\ left'  = [left EXCEPT ![t] = 0]
    /\ older' = Forget(t)

Tick ==
    /\ Quiet
    /\ left' = [u \in Task |-> IF u \in armed THEN left[u] - 1 ELSE 0]
    /\ UNCHANGED <<armed, older>>

Fire(t) ==
    /\ t \in armed
    /\ left[t] = 0
    /\ \A u \in older[t] : left[u] > 0
    /\ armed' = armed \ {t}
    /\ older' = Forget(t)
    /\ UNCHANGED left

Next ==
    \/ \E t \in Task, ticks \in 1..MAX_TICKS : Arm(t, ticks)
    \/ \E t \in Task : Cancel(t)
    \/ Tick
    \/ \E t \in Task : Fire(t)

Spec == Init /\ [][Next]_vars
=============================================================================
