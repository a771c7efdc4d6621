----------------------------- MODULE EventFlags -----------------------------
(***************************************************************************)
(* The event flags of flyos_ipc.c (1642-1902): create, set, clear, wait    *)
(* for all or any of some flags with and without clearing them, time-out,  *)
(* delete.                                                                 *)
(*                                                                         *)
(* Flag stands for the flags that a wait may name, 0 to 15; setting others *)
(* reaches nobody.  The three loops of flyos_event_set run in one critical *)
(* section and are modelled iteration by iteration, as is the loop of      *)
(* flyos_event_delete: nothing else happens until the section is left.     *)
(* What *result_flags receives is left out.  Callers keep to flyos_ipc.h:  *)
(* no call begins after flyos_event_delete has begun.                      *)
(***************************************************************************)
EXTENDS IpcTasks

CONSTANTS
    Flag,
    Requests,       \* for each task, what it may wait for
    Timeouts        \* the time-outs of waits that may block

Request == [flags : SUBSET Flag, all : BOOLEAN, clear : BOOLEAN]

ASSUME EventAssumption ==
    /\ Queue = {"wait"}
    /\ Flag \subseteq Nat
    /\ IsFiniteSet(Flag)
    /\ NULL \notin Request
    /\ Requests \in [Task -> SUBSET Request]
    /\ Timeouts \subseteq Nat \ {NO_WAIT}

VARIABLES
    alive,          \* the object exists
    flags,          \* event->flags
    flag_waiters,   \* event->flag_waiters: for each flag a set of priorities
    want,           \* task->user_data of a waiting task, or NULL
    set_flags,      \* flyos_event_set: the flags still to look at,
    waiter_prios,   \* of one of them, the priorities still to look at,
    at              \* and of one of these, the task to look at, or NULL

loopVars  == <<set_flags, waiter_prios, at>>
eventVars == <<alive, flags, flag_waiters, want, loopVars>>
vars      == <<kernelVars, eventVars>>

TypeOK ==
    /\ KernelTypeOK
    /\ alive \in BOOLEAN
    /\ flags \subseteq Flag
    /\ flag_waiters \in [Flag -> SUBSET Prio]
    /\ want \in [Task -> Request \cup {NULL}]
    /\ set_flags \subseteq Flag
    /\ waiter_prios \subseteq Prio
    /\ at \in Link

-----------------------------------------------------------------------------

Init ==
    /\ KernelInit
    /\ alive = FALSE
    /\ flags = {}
    /\ flag_waiters = [f \in Flag |-> {}]
    /\ want = [t \in Task |-> NULL]
    /\ set_flags = {}
    /\ waiter_prios = {}
    /\ at = NULL

\* flyos_event_create
Create(c) ==
    /\ MayCall(c, "create")
    /\ ~alive
    /\ alive' = TRUE
    /\ flags' = {}
    /\ flag_waiters' = [f \in Flag |-> {}]
    /\ lists' = WaitInit(lists, "wait")
    /\ UNCHANGED <<state, prio, object, err, dq, left, cpuVars, pc, want, loopVars>>

-----------------------------------------------------------------------------
(* Waiting                                                                 *)

\* The condition of flyos_event_wait and flyos_event_set.
Met(f, r) == IF r.all THEN r.flags \subseteq f ELSE r.flags \cap f # {}

\* FLYOS_EVENT_CLEAR_ON_EXIT
Left(f, r) == IF r.clear THEN f \ r.flags ELSE f

\* flyos_event_wait finds its condition met.
WaitTake(c, r) ==
    /\ MayCall(c, "wait")
    /\ alive
    /\ Met(flags, r)
    /\ flags' = Left(flags, r)
    /\ UNCHANGED <<kernelVars, alive, flag_waiters, want, loopVars>>

\* A mutant: a task that waits for several flags is noted for one of them.
MutantNotesOne(t, r) ==
    [f \in Flag |-> IF r.flags # {} /\ f = CHOOSE g \in r.flags : TRUE
                    THEN flag_waiters[f] \cup {prio[t]} ELSE flag_waiters[f]]

\* A mutant: the bits are noted one place too high.
MutantNotesShifted(t, r) ==
    [f \in {g + 1 : g \in Flag} |->
        IF f - 1 \in r.flags THEN flag_waiters[f - 1] \cup {prio[t]}
                             ELSE flag_waiters[f - 1]]

\* The index after it has noted a task's request.
Noted(t, r) ==
    [f \in Flag |-> IF f \in r.flags
                    THEN flag_waiters[f] \cup {prio[t]} ELSE flag_waiters[f]]

\* It blocks.  A call that must not block returns FLYOS_TIMEOUT and changes
\* nothing.
WaitBlock(c, r, timeout) ==
    /\ MayCall(c, "wait")
    /\ alive
    /\ ~Met(flags, r)
    /\ timeout # NO_WAIT
    /\ BlockOn(c, "wait", timeout)
    /\ want' = [want EXCEPT ![c] = r]
    /\ flag_waiters' = Noted(c, r)
    /\ Goto(c, "wait")
    /\ UNCHANGED <<cpuVars, alive, flags, loopVars>>

\* A wait that has blocked returns the task's error code.
WaitReturn(c) ==
    /\ Runs(c)
    /\ pc[c] = "return"
    /\ want' = [want EXCEPT ![c] = NULL]
    /\ Goto(c, "user")
    /\ UNCHANGED <<taskVars, cpuVars, alive, flags, flag_waiters, loopVars>>

-----------------------------------------------------------------------------
(* Setting and clearing                                                    *)

\* flyos_event_set enters its critical section.
SetBegin(c, fs) ==
    /\ MayCall(c, "set")
    /\ alive
    /\ flags'     = flags \cup fs
    /\ set_flags' = fs
    /\ inside'    = c
    /\ Goto(c, "section")
    /\ UNCHANGED <<taskVars, current, pend, isr, alive, flag_waiters, want,
                   waiter_prios, at>>

Lowest(S) == CHOOSE n \in S : \A m \in S : n <= m

\* Its outer loop goes on to the next flag, and works on a copy of the bitmap of
\* the priorities that wait for it.
NextFlag(c) ==
    /\ inside = c
    /\ at = NULL
    /\ waiter_prios = {}
    /\ set_flags # {}
    /\ waiter_prios' = flag_waiters[Lowest(set_flags)]
    /\ set_flags'    = set_flags \ {Lowest(set_flags)}
    /\ UNCHANGED <<kernelVars, alive, flags, flag_waiters, want, at>>

\* Its middle loop goes on to the list of the next priority.
NextPriority(c) ==
    /\ inside = c
    /\ at = NULL
    /\ waiter_prios # {}
    /\ at' = lists.wait["wait"][Lowest(waiter_prios)]
    /\ waiter_prios' = waiter_prios \ {Lowest(waiter_prios)}
    /\ UNCHANGED <<kernelVars, alive, flags, flag_waiters, want, set_flags>>

\* The index without a request of t, for flyos_event_set and for a time-out.
\* The bit of t's priority goes, even if tasks of that priority still wait.
Dropped(t) ==
    [f \in Flag |-> IF f \in want[t].flags
                    THEN flag_waiters[f] \ {prio[t]} ELSE flag_waiters[f]]

\* A mutant: the flags stay set.
MutantServeKeeps(t) ==
    /\ MakeReady(t, WaitRemove(lists, "wait", t, prio[t]), "OK")
    /\ flag_waiters' = Dropped(t)
    /\ UNCHANGED flags

\* Task t is woken.
Serve(t) ==
    /\ MakeReady(t, WaitRemove(lists, "wait", t, prio[t]), "OK")
    /\ flag_waiters' = Dropped(t)
    /\ flags' = Left(flags, want[t])

\* Its inner loop reads the link to the next task before it looks at a task.
VisitTask(c) ==
    /\ inside = c
    /\ at # NULL
    /\ at' = lists.next[at]
    /\ IF Met(flags, want[at]) THEN Serve(at)
       ELSE UNCHANGED <<taskVars, flag_waiters, flags>>
    /\ UNCHANGED <<cpuVars, pc, alive, want, set_flags, waiter_prios>>

\* All loops have ended: it leaves the section and goes on to the scheduler.
SetEnd(c) ==
    /\ inside = c
    /\ alive
    /\ set_flags = {} /\ waiter_prios = {} /\ at = NULL
    /\ inside' = NULL
    /\ Goto(c, "schedule")
    /\ UNCHANGED <<taskVars, current, pend, isr, eventVars>>

\* flyos_event_clear, by a task or by an interrupt.
Clear(fs) ==
    /\ Interrupts
    /\ alive
    /\ flags' = flags \ fs
    /\ UNCHANGED <<kernelVars, alive, flag_waiters, want, loopVars>>

-----------------------------------------------------------------------------
(* Deletion and time-outs                                                  *)

\* flyos_event_delete enters its critical section.  The object is lost.
DeleteBegin(c) ==
    /\ MayCall(c, "delete")
    /\ alive
    /\ alive'  = FALSE
    /\ flags'  = {}
    /\ flag_waiters' = [f \in Flag |-> {}]
    /\ inside' = c
    /\ Goto(c, "section")
    /\ UNCHANGED <<taskVars, current, pend, isr, want, loopVars>>

\* One iteration of its loop.
DeleteWake(c) ==
    /\ inside = c
    /\ ~alive
    /\ HasWaiter("wait")
    /\ WakeHighest("wait", "ERROR")
    /\ UNCHANGED <<cpuVars, pc, eventVars>>

\* It leaves the section, frees the object and goes on to the scheduler.
DeleteEnd(c) ==
    /\ inside = c
    /\ ~alive
    /\ ~HasWaiter("wait")
    /\ inside' = NULL
    /\ Goto(c, "schedule")
    /\ UNCHANGED <<taskVars, current, pend, isr, eventVars>>

\* delta_queue_wake_task and flyos_ipc_remove_task_from_wait_list, for the head
\* of the delta queue.
Expire ==
    LET t == Head(dq) IN
    /\ isr = "deal"
    /\ Due
    /\ MakeReady(t, WaitRemove(lists, "wait", t, prio[t]), "TIMEOUT")
    /\ flag_waiters' = Dropped(t)
    /\ UNCHANGED <<cpuVars, pc, alive, flags, want, loopVars>>

-----------------------------------------------------------------------------

Call(c) ==
    \/ Create(c)
    \/ \E r \in Requests[c] : \/ WaitTake(c, r)
                              \/ \E timeout \in Timeouts : WaitBlock(c, r, timeout)
    \/ \E fs \in SUBSET Flag : SetBegin(c, fs)
    \/ DeleteBegin(c)

Continue(c) ==
    \/ CallScheduler(c) /\ UNCHANGED eventVars
    \/ WaitReturn(c)
    \/ NextFlag(c)
    \/ NextPriority(c)
    \/ VisitTask(c)
    \/ SetEnd(c)
    \/ DeleteWake(c)
    \/ DeleteEnd(c)

Next ==
    \/ \E c \in Task : Call(c) \/ Continue(c)
    \/ \E fs \in SUBSET Flag : Clear(fs)
    \/ Expire
    \/ Handler /\ UNCHANGED eventVars

Spec == Init /\ [][Next]_vars

-----------------------------------------------------------------------------
(* Properties                                                              *)

\* Nobody waits for what is there: no waiting task's condition holds, except
\* while flyos_event_set is looking for the tasks to wake.  It looks only where
\* the index of waited-for flags leads it, so an index that has forgotten a task
\* makes it wait for ever.
NoMissedWakeup ==
    alive /\ inside = NULL =>
        \A t \in Task : object[t] # NULL => ~Met(flags, want[t])

\* The call of a task that has waited is about to return.
Answered(t) == pc[t] \in {"wait", "return"} /\ state[t] = "READY"

\* What EventGroup sees: is a set in progress; what the tasks wait for; and what
\* the calls are going to return.
Serving == alive /\ inside # NULL
Waits   == [t \in Task |-> IF object[t] # NULL THEN want[t] ELSE NULL]
Answers == [t \in Task |-> IF ~Answered(t) THEN "none"
                           ELSE IF err[t] = "OK" THEN "OK" ELSE "failed"]

\* The event flags implement EventGroup: a set serves waiting tasks one after
\* the other until none is met by the flags that are left, a task is woken with
\* FLYOS_OK only while its condition holds, and flags that one task has cleared
\* on exit serve nobody after it.  This is less than the comment in line 1633
\* says: not everybody who waits for a flag is woken if one of them clears it.
Abstract == INSTANCE EventGroup WITH
    open    <- alive,
    serving <- Serving,
    waits   <- Waits,
    answer  <- Answers
EventSpec == Abstract!Spec
=============================================================================
