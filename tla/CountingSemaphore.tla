-------------------------- MODULE CountingSemaphore -------------------------
(***************************************************************************)
(* What a semaphore of flyos_ipc.h promises: a number of tokens, a set of  *)
(* tasks that wait for one, and the tasks that have been handed one and    *)
(* will learn of it when they run.  Nothing is said of lists.              *)
(*                                                                         *)
(* Semaphore implements this specification.                                *)
(***************************************************************************)
EXTENDS Naturals

CONSTANT Urgency        \* the priority of each task: 0 is the most urgent

VARIABLES
    value,      \* the tokens nobody has taken
    limit,      \* the largest value
    waiting,    \* the tasks that wait
    granted     \* the tasks that have been handed a token

vars == <<value, limit, waiting, granted>>

Init == value = 0 /\ limit = 0 /\ waiting = {} /\ granted = {}

\* A new semaphore.
Open ==
    /\ value = 0
    /\ waiting = {}
    /\ limit' \in Nat \ {0}
    /\ value' \in 0..limit'
    /\ UNCHANGED <<waiting, granted>>

Close == value' = 0 /\ UNCHANGED <<limit, waiting, granted>>

Take ==
    /\ value > 0
    /\ value' = value - 1
    /\ UNCHANGED <<limit, waiting, granted>>

\* Nobody waits while there is a token.
Join ==
    /\ value = 0
    /\ \E t \in DOMAIN Urgency \ (waiting \cup granted) :
          waiting' = waiting \cup {t}
    /\ UNCHANGED <<value, limit, granted>>

\* A token for the most urgent of the tasks that wait.
Grant ==
    \E t \in waiting :
        /\ \A u \in waiting : Urgency[t] <= Urgency[u]
        /\ waiting' = waiting \ {t}
        /\ granted' = granted \cup {t}
        /\ UNCHANGED <<value, limit>>

\* A token for nobody in particular.
Store ==
    /\ waiting = {}
    /\ value < limit
    /\ value' = value + 1
    /\ UNCHANGED <<limit, waiting, granted>>

\* A time-out, or the deletion of the semaphore.
GiveUp ==
    \E t \in waiting :
        /\ waiting' = waiting \ {t}
        /\ UNCHANGED <<value, limit, granted>>

Collect ==
    \E t \in granted :
        /\ granted' = granted \ {t}
        /\ UNCHANGED <<value, limit, waiting>>

Next == Open \/ Close \/ Take \/ Join \/ Grant \/ Store \/ GiveUp \/ Collect

Spec == Init /\ [][Next]_vars
=============================================================================
