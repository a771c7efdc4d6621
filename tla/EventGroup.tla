---------------------------- MODULE EventGroup -----------------------------
(***************************************************************************)
(* What event flags do for their callers: a set of flags; the tasks that   *)
(* wait, each with what it waits for; and what a call that has waited is   *)
(* going to return.  Nothing is said of the order in which waiting tasks   *)
(* are looked at, nor of an index of the flags they wait for.              *)
(*                                                                         *)
(* Flags that a task clears on exit are gone for the tasks served after    *)
(* it.  This is how flyos_event_set behaves (flyos_ipc.c 1781).  The       *)
(* comment in line 1633, that all tasks that wait for an event are woken,  *)
(* is true of waits that clear nothing only (findings in PROJECT.json).    *)
(*                                                                         *)
(* EventFlags implements this specification.                               *)
(***************************************************************************)
CONSTANTS
    Flag,
    NULL,           \* no request
    Task

VARIABLES
    open,       \* the object exists
    flags,      \* the flags that are set
    serving,    \* a set is in progress; no other call sees it
    waits,      \* for each task that waits, its request: see Request
    answer      \* what a call that has waited is going to return

vars == <<open, flags, serving, waits, answer>>

\* All of some flags or any of them; and are they cleared on exit?
Request == [flags : SUBSET Flag, all : BOOLEAN, clear : BOOLEAN]

Met(f, r)  == IF r.all THEN r.flags \subseteq f ELSE r.flags \cap f # {}
Left(f, r) == IF r.clear THEN f \ r.flags ELSE f

Waiters == {t \in Task : waits[t] # NULL}

Init ==
    /\ open = FALSE
    /\ flags = {}
    /\ serving = FALSE
    /\ waits  = [t \in Task |-> NULL]
    /\ answer = [t \in Task |-> "none"]

Open ==
    /\ ~open
    /\ Waiters = {}
    /\ open' = TRUE
    /\ flags' = {}
    /\ UNCHANGED <<serving, waits, answer>>

Close ==
    /\ ~serving
    /\ open' = FALSE
    /\ flags' = {}
    /\ UNCHANGED <<serving, waits, answer>>

Clear(f) ==
    /\ ~serving
    /\ flags' = flags \ f
    /\ UNCHANGED <<open, serving, waits, answer>>

\* A request that is met at once.
Take(r) ==
    /\ ~serving
    /\ Met(flags, r)
    /\ flags' = Left(flags, r)
    /\ UNCHANGED <<open, serving, waits, answer>>

Wait(t, r) ==
    /\ open
    /\ ~serving
    /\ t \notin Waiters
    /\ ~Met(flags, r)
    /\ waits' = [waits EXCEPT ![t] = r]
    /\ UNCHANGED <<open, flags, serving, answer>>

\* The tasks whose requests are met by a set are served one after the other:
\* each is met by what those before it have left.  Nobody for whom the flags
\* suffice that are left in the end is left behind.
SetBegin(f) ==
    /\ open
    /\ ~serving
    /\ flags' = flags \cup f
    /\ serving' = TRUE
    /\ UNCHANGED <<open, waits, answer>>

Serve(t) ==
    /\ serving
    /\ t \in Waiters
    /\ Met(flags, waits[t])
    /\ flags'  = Left(flags, waits[t])
    /\ waits'  = [waits  EXCEPT ![t] = NULL]
    /\ answer' = [answer EXCEPT ![t] = "OK"]
    /\ UNCHANGED <<open, serving>>

SetEnd ==
    /\ serving
    /\ \A t \in Waiters : ~Met(flags, waits[t])
    /\ serving' = FALSE
    /\ UNCHANGED <<open, flags, waits, answer>>

\* A time-out, or the deletion of the object.
GiveUp(t) ==
    /\ ~serving
    /\ t \in Waiters
    /\ waits'  = [waits  EXCEPT ![t] = NULL]
    /\ answer' = [answer EXCEPT ![t] = "failed"]
    /\ UNCHANGED <<open, flags, serving>>

\* The call returns.
Collect(t) ==
    /\ ~serving
    /\ t \notin Waiters
    /\ answer' = [answer EXCEPT ![t] = "none"]
    /\ UNCHANGED <<open, flags, serving, waits>>

Next ==
    \/ Open
    \/ Close
    \/ SetEnd
    \/ \E f \in SUBSET Flag : SetBegin(f) \/ Clear(f)
    \/ \E r \in Request : Take(r) \/ \E t \in Task : Wait(t, r)
    \/ \E t \in Task : Serve(t) \/ GiveUp(t) \/ Collect(t)

Spec == Init /\ [][Next]_vars
=============================================================================
