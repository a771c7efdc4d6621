------------------------------ MODULE Semaphore -----------------------------
(***************************************************************************)
(* The semaphore of flyos_ipc.c (398-640): create, wait with and without a *)
(* time-out, signal from tasks and from interrupts, delete.                *)
(*                                                                         *)
(* A wait that blocks is a critical section, then flyos_scheduler(), then, *)
(* whenever the task runs again, the look at its error code.  Callers keep *)
(* to flyos_ipc.h: no call begins after flyos_semaphore_delete has begun.  *)
(***************************************************************************)
EXTENDS IpcTasks, Integers

CONSTANTS
    MAX_COUNT,      \* bound on max_count
    Timeouts        \* the time-outs of waits that may block

ASSUME SemaphoreAssumption ==
    /\ Queue = {"wait"}
    /\ MAX_COUNT \in Nat
    /\ Timeouts \subseteq Nat \ {NO_WAIT}

VARIABLES
    alive,      \* the semaphore exists
    count,      \* sem->count
    max,        \* sem->max_count
    balance     \* history: tokens created and signalled, less those returned
                \* to callers and those lost with a deleted semaphore

semVars == <<alive, count, max, balance>>
vars    == <<kernelVars, semVars>>

TypeOK ==
    /\ KernelTypeOK
    /\ alive   \in BOOLEAN
    /\ count   \in 0..MAX_COUNT
    /\ max     \in 0..MAX_COUNT
    /\ balance \in Int

-----------------------------------------------------------------------------

Init ==
    /\ KernelInit
    /\ alive   = FALSE
    /\ count   = 0
    /\ max     = 0
    /\ balance = 0

\* flyos_semaphore_create; with other arguments it changes nothing.
Create(c, init, limit) ==
    /\ MayCall(c, "create")
    /\ ~alive
    /\ limit > 0
    /\ init <= limit
    /\ alive'   = TRUE
    /\ count'   = init
    /\ max'     = limit
    /\ balance' = balance + init
    /\ lists'   = WaitInit(lists, "wait")
    /\ UNCHANGED <<state, prio, object, err, dq, left, cpuVars, pc>>

\* sem_wait_common takes a token that is there.
WaitTake(c) ==
    /\ MayCall(c, "wait")
    /\ alive
    /\ count > 0
    /\ count'   = count - 1
    /\ balance' = balance - 1
    /\ UNCHANGED <<kernelVars, alive, max>>

\* It blocks.  A call that must not block returns FLYOS_TIMEOUT and changes
\* nothing.
WaitBlock(c, timeout) ==
    /\ MayCall(c, "wait")
    /\ alive
    /\ count = 0
    /\ timeout # NO_WAIT
    /\ BlockOn(c, "wait", timeout)
    /\ Goto(c, "wait")
    /\ UNCHANGED <<cpuVars, semVars>>

\* A wait that has blocked returns the task's error code.
WaitReturn(c) ==
    /\ Runs(c)
    /\ pc[c] = "return"
    /\ balance' = IF err[c] = "OK" THEN balance - 1 ELSE balance
    /\ Goto(c, "user")
    /\ UNCHANGED <<taskVars, cpuVars, alive, count, max>>

\* A token that is signalled goes to a waiting task.
HandedOn == HasWaiter("wait") /\ HighestWaiter("wait") # NULL

\* Mutants of sem_signal_common: the count grows although the token is handed
\* to a waiting task; the count is not compared with its maximum.
MutantCountsTwice ==
    IF HandedOn
    THEN /\ WakeHighest("wait", "OK")
         /\ count' = IF count < max THEN count + 1 ELSE count
         /\ balance' = balance + 1
    ELSE /\ count' = IF count < max THEN count + 1 ELSE count
         /\ balance' = balance + (count' - count)
         /\ UNCHANGED taskVars

MutantNoMaximum ==
    IF HandedOn
    THEN /\ WakeHighest("wait", "OK")
         /\ balance' = balance + 1
         /\ UNCHANGED count
    ELSE /\ count'   = count + 1
         /\ balance' = balance + 1
         /\ UNCHANGED taskVars

\* The critical section of sem_signal_common: the token goes to the most
\* urgent waiting task, to the count, or, if that is at its maximum, nowhere.
Post ==
    IF HandedOn
    THEN /\ WakeHighest("wait", "OK")
         /\ balance' = balance + 1
         /\ UNCHANGED count
    ELSE /\ count'   = IF count < max THEN count + 1 ELSE count
         /\ balance' = balance + (count' - count)
         /\ UNCHANGED taskVars

\* flyos_semaphore_signal
Signal(c) ==
    /\ MayCall(c, "signal")
    /\ alive
    /\ Post
    /\ Goto(c, IF HandedOn
               THEN "schedule" ELSE "user")
    /\ UNCHANGED <<cpuVars, alive, max>>

\* A mutant: no switch is requested.
MutantSignalFromIsr ==
    /\ Interrupts
    /\ alive
    /\ Post
    /\ UNCHANGED <<cpuVars, pc, alive, max>>

\* flyos_semaphore_signal_from_isr: a switch is requested whenever a task has
\* been woken.
SignalFromIsr ==
    /\ Interrupts
    /\ alive
    /\ Post
    /\ pend' = (pend \/ HandedOn)
    /\ UNCHANGED <<current, isr, inside, pc, alive, max>>

\* flyos_semaphore_delete enters its critical section.
DeleteBegin(c) ==
    /\ MayCall(c, "delete")
    /\ alive
    /\ alive'   = FALSE
    /\ balance' = balance - count
    /\ inside'  = c
    /\ Goto(c, "section")
    /\ UNCHANGED <<taskVars, current, pend, isr, count, max>>

\* One iteration of its loop.
DeleteWake(c) ==
    /\ inside = c
    /\ HasWaiter("wait")
    /\ WakeHighest("wait", "ERROR")
    /\ UNCHANGED <<cpuVars, pc, semVars>>

\* It leaves the section, frees the object and goes on to the scheduler.
DeleteEnd(c) ==
    /\ inside = c
    /\ ~HasWaiter("wait")
    /\ inside' = NULL
    /\ Goto(c, "schedule")
    /\ UNCHANGED <<taskVars, current, pend, isr, semVars>>

\* delta_queue_wake_task and flyos_ipc_remove_task_from_wait_list, for the head
\* of the delta queue.
Expire ==
    LET t == Head(dq) IN
    /\ isr = "deal"
    /\ Due
    /\ MakeReady(t, WaitRemove(lists, "wait", t, prio[t]), "TIMEOUT")
    /\ UNCHANGED <<cpuVars, pc, semVars>>

-----------------------------------------------------------------------------

Call(c) ==
    \/ \E limit \in 1..MAX_COUNT : \E init \in 0..limit : Create(c, init, limit)
    \/ WaitTake(c)
    \/ \E timeout \in Timeouts : WaitBlock(c, timeout)
    \/ Signal(c)
    \/ DeleteBegin(c)

Continue(c) ==
    \/ CallScheduler(c) /\ UNCHANGED semVars
    \/ WaitReturn(c)
    \/ DeleteWake(c)
    \/ DeleteEnd(c)

Next ==
    \/ \E c \in Task : Call(c) \/ Continue(c)
    \/ SignalFromIsr
    \/ Expire
    \/ Handler /\ UNCHANGED semVars

Spec == Init /\ [][Next]_vars

\* SysTick stays pending in the NVIC until it can be taken; the handlers and
\* the calls that have begun go on.
Fairness ==
    /\ SF_vars(SysTick /\ UNCHANGED semVars)
    /\ WF_vars(Expire)
    /\ WF_vars((SysTickSlice \/ SysTickEnd \/ ContextSwitch) /\ UNCHANGED semVars)
    /\ \A c \in Task : WF_vars(Continue(c))

FairSpec == Spec /\ Fairness

-----------------------------------------------------------------------------
(* Properties                                                              *)

\* Tasks that have been handed a token and have not yet returned with it.
Granted == {t \in Task : pc[t] \in {"wait", "return"}
                         /\ state[t] = "READY" /\ err[t] = "OK"}

\* No token is lost or comes from nowhere: what was put in is in the count, on
\* its way to a task, or was returned (flyos_ipc.h 227: a wait blocks while
\* there is no token, and FLYOS_OK means that it got one).
TokensConserved == balance = (IF alive THEN count ELSE 0) + Cardinality(Granted)

\* A wait with a time-out ends.
WaitEnds ==
    \A t \in Task : object[t] # NULL /\ t \in ToSet(dq) ~> object[t] = NULL

\* The semaphore implements the abstract one, whose tokens go to the most
\* urgent of the tasks that wait, and which nobody waits for while it has any.
Abstract == INSTANCE CountingSemaphore WITH
    Urgency <- [t \in Task |-> Priority[t]],
    value   <- IF alive THEN count ELSE 0,
    limit   <- max,
    waiting <- {t \in Task : object[t] # NULL},
    granted <- Granted
SemaphoreSpec == Abstract!Spec
=============================================================================
