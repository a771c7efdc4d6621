----------------------------- MODULE FlyosKernel ----------------------------
(***************************************************************************)
(* The kernel of flyos_kernel.c: ready lists and priority bitmap, task     *)
(* life cycle, delays, time slices, the scheduler lock, and the SysTick    *)
(* and PendSV handlers of the Cortex-M ports.                              *)
(*                                                                         *)
(* An API call is a critical section followed, outside of it, by a call of *)
(* flyos_scheduler().  Each critical section is one action; pc says what   *)
(* the task still has to do of its call, so that a tick and a context      *)
(* switch may come between the two.  PendSV is taken as soon as BASEPRI    *)
(* lets it through: no instruction of a task runs while it is pending and  *)
(* not masked.                                                             *)
(*                                                                         *)
(* A ready list is a sequence that starts at ready_list[priority] and      *)
(* follows the ring of next pointers.  The delta queue is Timers'          *)
(* implementation (DeltaQueueProofs); here left[t] is the time t still has *)
(* to wait, the sum of the deltas up to t.                                 *)
(***************************************************************************)
EXTENDS Naturals, Sequences, SequencesExt

CONSTANTS
    Task,           \* the control blocks an application can create
    Idle,           \* the idle task of flyos_kernel_init
    IDLE_PRIORITY,  \* FLYOS_IDLE_PRIORITY, the lowest urgency
    Delays,         \* the delays tasks ask for
    TIME_SLICE,     \* ticks a task runs before its equals get a turn
    Calls,          \* for each API call, the tasks that make it
    MAX_LOCK,       \* bound on the nesting of flyos_scheduler_lock
    MAX_LEAK        \* bound on the critical sections that are never left

ASSUME KernelAssumption ==
    /\ Idle \notin Task
    /\ IDLE_PRIORITY \in Nat \ {0}
    /\ Delays \subseteq Nat \ {0}
    /\ TIME_SLICE \in Nat \ {0}
    /\ MAX_LOCK \in Nat
    /\ MAX_LEAK \in Nat

Thread == Task \cup {Idle}
Prio   == 0..IDLE_PRIORITY

VARIABLES
    started,    \* scheduler.started
    ready,      \* scheduler.ready_list
    bits,       \* scheduler.ready_priorities, as a set
    dq,         \* the tasks in the delta queue, head first
    left,       \* the ticks each of them has left
    state,      \* task->state
    reason,     \* task->block_reason
    prio,       \* task->priority
    slice,      \* task->remaining_time_slice
    alloc,      \* the tasks whose stack and control block are allocated
    current,    \* scheduler.current_task, meaningful once started
    lock,       \* scheduler.lock_nesting
    nesting,    \* ux_critical_nesting between calls: critical sections not left
    pend,       \* is PendSV pending?
    isr,        \* "deal" while the SysTick handler wakes tasks, else "none"
    pc,         \* what each task still has to do of its call
    arg         \* the task that call is about

lists == <<ready, bits>>
timer == <<dq, left>>
tcb   == <<state, reason, prio, slice, alloc>>
cpu   == <<current, lock, nesting, pend, isr>>
flow  == <<pc, arg>>
vars  == <<started, lists, timer, tcb, cpu, flow>>

-----------------------------------------------------------------------------
(* Ready lists                                                             *)

PlaceOf(s, t) == CHOOSE i \in 1..Len(s) : s[i] = t

\* A mutant: the last task of a list stays at its head.
MutantKeepsHead(t) ==
    IF t \in ToSet(ready[prio[t]]) /\ Len(ready[prio[t]]) > 1
    THEN [ready EXCEPT ![prio[t]] = RemoveAt(@, PlaceOf(@, t))]
    ELSE ready

\* flyos_remove_ready_list: a task outside its list is left alone.
ReadyWithout(t) ==
    IF t \in ToSet(ready[prio[t]])
    THEN [ready EXCEPT ![prio[t]] = RemoveAt(@, PlaceOf(@, t))]
    ELSE ready

\* A mutant: the bit of an emptied list stays set.
MutantKeepsBit(t) == bits

BitsWithout(t) ==
    IF ready[prio[t]] = <<t>> THEN bits \ {prio[t]} ELSE bits

\* A mutant: a task that is linked is linked again.
MutantLinksTwice(t, p) == [ready EXCEPT ![p] = Append(@, t)]

\* flyos_insert_ready_list for a task of priority p: at the tail, and a task
\* that is in a list already is taken out first.
ReadyWith(t, p) == [ReadyWithout(t) EXCEPT ![p] = Append(@, t)]
BitsWith(t, p)  == BitsWithout(t) \cup {p}

\* ready_list[priority] = task->next: t becomes the last of the ring.
Rotated(s, t) ==
    SubSeq(s, PlaceOf(s, t) + 1, Len(s)) \o SubSeq(s, 1, PlaceOf(s, t))

\* find_highest_priority
Highest(b) ==
    IF b = {} THEN IDLE_PRIORITY ELSE CHOOSE p \in b : \A q \in b : p <= q

\* What flyos_scheduler would run: the head of the most urgent list.
HasNext(r, b) == r[Highest(b)] # <<>>
NextTask(r, b) == Head(r[Highest(b)])

\* Mutants of flyos_scheduler: it ignores the lock; it switches to more urgent
\* tasks only.
MutantIgnoresLock ==
    pend' = (pend \/ (started /\ NextTask(ready, bits) # current))

MutantMoreUrgentOnly ==
    pend' = (pend \/ (/\ lock = 0
                      /\ started
                      /\ prio[NextTask(ready, bits)] < prio[current]))

\* flyos_scheduler: nothing while locked or before the start; otherwise PendSV
\* is requested when another task than the current one should run.
Reschedule ==
    pend' = (pend \/ (/\ lock = 0
                      /\ started
                      /\ ~(HasNext(ready, bits) /\ NextTask(ready, bits) = current)))

-----------------------------------------------------------------------------
(* Delta queue, in terms of the ticks left                                 *)

\* flyos_delta_queue_insert: behind the tasks that fall due no later.
DelayPlace(q, ticks) ==
    CHOOSE k \in 1..(Len(q) + 1) :
        /\ \A i \in 1..(k - 1) : left[q[i]] <= ticks
        /\ k <= Len(q) => left[q[k]] > ticks

\* A mutant: deleting a task forgets the delta queue.
MutantKeepsSleeper(t) == dq

QueueWithout(t) == IF t \in ToSet(dq) THEN RemoveAt(dq, PlaceOf(dq, t)) ELSE dq

-----------------------------------------------------------------------------

\* flyos_kernel_init: only the idle task exists.
Init ==
    /\ started = FALSE
    /\ ready   = [p \in Prio |-> IF p = IDLE_PRIORITY THEN <<Idle>> ELSE <<>>]
    /\ bits    = {IDLE_PRIORITY}
    /\ dq      = <<>>
    /\ left    = [t \in Thread |-> 0]
    /\ state   = [t \in Thread |-> IF t = Idle THEN "READY" ELSE "NONE"]
    /\ reason  = [t \in Thread |-> "NONE"]
    /\ prio    = [t \in Thread |-> IDLE_PRIORITY]
    /\ slice   = [t \in Thread |-> TIME_SLICE]
    /\ alloc   = {Idle}
    /\ current = Idle
    /\ lock    = 0
    /\ nesting = 0
    /\ pend    = FALSE
    /\ isr     = "none"
    /\ pc      = [t \in Thread |-> "user"]
    /\ arg     = [t \in Thread |-> Idle]

\* flyos_kernel_start
Start ==
    /\ ~started
    /\ HasNext(ready, bits)
    /\ started' = TRUE
    /\ current' = NextTask(ready, bits)
    /\ UNCHANGED <<lists, timer, tcb, lock, nesting, pend, isr, flow>>

\* An instruction of task c can run: no handler is active or about to be.
Runs(c) ==
    /\ started
    /\ current = c
    /\ isr = "none"
    /\ ~(pend /\ nesting = 0)

\* Task c makes a call.  A task that has blocked and goes on running, because
\* the scheduler is locked or PendSV stays masked, makes none.
MayCall(c, call) ==
    /\ Runs(c)
    /\ pc[c] = "user"
    /\ state[c] = "READY"
    /\ c \in Calls[call]

\* What remains to be done of the call once its critical section is left.
Then(c, next, x) ==
    /\ pc'  = [pc  EXCEPT ![c] = next]
    /\ arg' = [arg EXCEPT ![c] = x]

-----------------------------------------------------------------------------
(* Task life cycle                                                         *)

\* The effect of flyos_task_create on the kernel, for a control block that is
\* not in use: its links are zeroed, so no list it may still be in is looked at.
\* A call whose arguments or allocations fail changes nothing.
NewTask(x, p) ==
    /\ x \notin alloc
    /\ ready' = [ready EXCEPT ![p] = Append(@, x)]
    /\ bits'  = bits \cup {p}
    /\ state'  = [state  EXCEPT ![x] = "READY"]
    /\ reason' = [reason EXCEPT ![x] = "NONE"]
    /\ prio'   = [prio   EXCEPT ![x] = p]
    /\ slice'  = [slice  EXCEPT ![x] = TIME_SLICE]
    /\ alloc'  = alloc \cup {x}
    /\ UNCHANGED <<started, timer, cpu>>

\* flyos_task_create from main(), before flyos_kernel_start.
CreateBeforeStart(x, p) ==
    /\ ~started
    /\ NewTask(x, p)
    /\ UNCHANGED flow

\* flyos_task_create from a task.  The new task starts at its entry point.
Create(c, x, p) ==
    /\ MayCall(c, "create")
    /\ NewTask(x, p)
    /\ pc'  = [pc  EXCEPT ![x] = "user", ![c] = "compare"]
    /\ arg' = [arg EXCEPT ![c] = x]

\* flyos_task_delete up to the end of its critical section.
Delete(c, x) ==
    /\ MayCall(c, IF x = c THEN "delete self" ELSE "delete")
    /\ x \in alloc
    /\ IF state[x] = "READY"
       THEN ready' = ReadyWithout(x) /\ bits' = BitsWithout(x)
       ELSE UNCHANGED lists
    /\ dq'    = QueueWithout(x)
    /\ left'  = [left  EXCEPT ![x] = 0]
    /\ state' = [state EXCEPT ![x] = "CLOSE"]
    /\ Then(c, "free", x)
    /\ UNCHANGED <<started, reason, prio, slice, alloc, cpu>>

\* The rest of flyos_task_delete: the memory is freed outside the critical
\* section; a task that deleted itself goes on to the scheduler.
DeleteFree(c) ==
    /\ Runs(c)
    /\ pc[c] = "free"
    /\ alloc' = alloc \ {arg[c]}
    /\ Then(c, IF arg[c] = c THEN "leave" ELSE "user", arg[c])
    /\ UNCHANGED <<started, lists, timer, state, reason, prio, slice, cpu>>

\* flyos_scheduler(); while (1);
DeleteLeave(c) ==
    /\ Runs(c)
    /\ pc[c] = "leave"
    /\ Reschedule
    /\ Then(c, "spin", c)
    /\ UNCHANGED <<started, lists, timer, tcb, current, lock, nesting, isr>>

\* flyos_task_suspend: a task that is not READY is left as it is.
Suspend(c, x) ==
    /\ MayCall(c, "suspend")
    /\ x \in alloc
    /\ IF state[x] = "READY"
       THEN /\ ready'  = ReadyWithout(x)
            /\ bits'   = BitsWithout(x)
            /\ state'  = [state  EXCEPT ![x] = "BLOCK"]
            /\ reason' = [reason EXCEPT ![x] = "SUSPEND"]
       ELSE UNCHANGED <<lists, state, reason>>
    /\ Then(c, IF x = c THEN "schedule" ELSE "user", x)
    /\ UNCHANGED <<started, timer, prio, slice, alloc, cpu>>

\* A mutant: whatever blocks the task, it can be resumed.
MutantResumable(x) == state[x] = "BLOCK"

Resumable(x) == state[x] = "BLOCK" /\ reason[x] = "SUSPEND"

\* flyos_task_resume looks at the task before it enters its critical section.
ResumeCheck(c, x) ==
    /\ MayCall(c, "resume")
    /\ x \in alloc
    /\ Resumable(x)
    /\ Then(c, "resume", x)
    /\ UNCHANGED <<started, lists, timer, tcb, cpu>>

Resume(c) ==
    LET x == arg[c] IN
    /\ Runs(c)
    /\ pc[c] = "resume"
    /\ reason' = [reason EXCEPT ![x] = "NONE"]
    /\ ready'  = ReadyWith(x, prio[x])
    /\ bits'   = BitsWith(x, prio[x])
    /\ state'  = [state EXCEPT ![x] = "READY"]
    /\ Then(c, "compare", x)
    /\ UNCHANGED <<started, timer, prio, slice, alloc, cpu>>

\* flyos_task_set_priority
SetPriority(c, x, p) ==
    /\ MayCall(c, "set_priority")
    /\ x \in alloc
    /\ p < IDLE_PRIORITY
    /\ IF state[x] = "READY"
       THEN ready' = ReadyWith(x, p) /\ bits' = BitsWith(x, p)
       ELSE UNCHANGED lists
    /\ prio' = [prio EXCEPT ![x] = p]
    /\ Then(c, "schedule", x)
    /\ UNCHANGED <<started, timer, state, reason, slice, alloc, cpu>>

-----------------------------------------------------------------------------
(* Calls about the calling task                                            *)

\* flyos_task_delay
Delay(c, ticks) ==
    /\ MayCall(c, "delay")
    /\ ready'  = ReadyWithout(c)
    /\ bits'   = BitsWithout(c)
    /\ state'  = [state  EXCEPT ![c] = "BLOCK"]
    /\ reason' = [reason EXCEPT ![c] = "DELAY"]
    /\ dq'     = InsertAt(QueueWithout(c), DelayPlace(QueueWithout(c), ticks), c)
    /\ left'   = [left EXCEPT ![c] = ticks]
    /\ Then(c, "schedule", c)
    /\ UNCHANGED <<started, prio, slice, alloc, cpu>>

\* flyos_task_yield: the head moves on to the task after the caller.
Yield(c) ==
    /\ MayCall(c, "yield")
    /\ ready' = [ready EXCEPT ![prio[c]] = Rotated(@, c)]
    /\ Then(c, "schedule", c)
    /\ UNCHANGED <<started, bits, timer, tcb, cpu>>

\* flyos_scheduler_lock
Lock(c) ==
    /\ MayCall(c, "lock")
    /\ lock < MAX_LOCK
    /\ lock' = lock + 1
    /\ UNCHANGED <<started, lists, timer, tcb, current, nesting, pend, isr, flow>>

\* flyos_scheduler_unlock: when a switch is due, PendSV is requested and the
\* function returns from inside its critical section.
Unlock(c) ==
    /\ MayCall(c, "unlock")
    /\ lock > 0
    /\ lock' = lock - 1
    /\ IF lock' = 0 /\ ~(HasNext(ready, bits) /\ NextTask(ready, bits) = current)
       THEN pend' = TRUE /\ nesting < MAX_LEAK /\ nesting' = nesting + 1
       ELSE UNCHANGED <<pend, nesting>>
    /\ UNCHANGED <<started, lists, timer, tcb, current, isr, flow>>

\* The call of flyos_scheduler() with which most API functions end.
CallScheduler(c) ==
    /\ Runs(c)
    /\ pc[c] = "schedule"
    /\ Reschedule
    /\ Then(c, "user", arg[c])
    /\ UNCHANGED <<started, lists, timer, tcb, current, lock, nesting, isr>>

\* flyos_task_create and _resume call it only for a more urgent task.
CompareAndCall(c) ==
    /\ Runs(c)
    /\ pc[c] = "compare"
    /\ IF prio[arg[c]] < prio[current] THEN Reschedule ELSE UNCHANGED pend
    /\ Then(c, "user", arg[c])
    /\ UNCHANGED <<started, lists, timer, tcb, current, lock, nesting, isr>>

-----------------------------------------------------------------------------
(* Exceptions                                                              *)

\* A mutant: no delay advances while the processor is idle.
MutantIdleTick ==
    [t \in Thread |-> IF t \in ToSet(dq) /\ current # Idle
                      THEN left[t] - 1 ELSE left[t]]

\* delta_queue_deal takes one tick from every sleeper, by the head's delta.
LeftAfterTick ==
    [t \in Thread |-> IF t \in ToSet(dq) THEN left[t] - 1 ELSE left[t]]

\* Mutants: an expired slice is not renewed; an expired slice has no effect.
MutantSlice(c) == slice[c] - 1

MutantNoRotation(c) == ready

\* The slice of task c after a tick: renewed when it has expired.
SliceAfterTick(c) == IF slice[c] = 1 THEN TIME_SLICE ELSE slice[c] - 1

\* When the slice has expired, the turn passes to the task after c.  A task
\* that is alone in its list, or in none, is not rotated.
ReadyAfterTick(c) ==
    IF slice[c] = 1 /\ c \in ToSet(ready[prio[c]])
    THEN [ready EXCEPT ![prio[c]] = Rotated(@, c)]
    ELSE ready

\* flyos_systick_handler up to the loop that wakes the tasks that are due.
SysTick ==
    /\ started
    /\ isr = "none"
    /\ nesting = 0
    /\ ~pend
    /\ isr' = "deal"
    /\ left' = LeftAfterTick
    /\ UNCHANGED <<started, lists, dq, tcb, current, lock, nesting, pend, flow>>

\* One iteration of that loop, delta_queue_wake_task included.
Wake ==
    LET t == Head(dq) IN
    /\ isr = "deal"
    /\ dq # <<>>
    /\ left[t] = 0
    /\ dq'     = Tail(dq)
    /\ state'  = [state  EXCEPT ![t] = "READY"]
    /\ reason' = [reason EXCEPT ![t] = "NONE"]
    /\ ready'  = ReadyWith(t, prio[t])
    /\ bits'   = BitsWith(t, prio[t])
    /\ UNCHANGED <<started, left, prio, slice, alloc, cpu, flow>>

\* The rest of the handler: the current task's time slice, and the scheduler.
SysTickEnd ==
    /\ isr = "deal"
    /\ dq # <<>> => left[Head(dq)] # 0
    /\ slice' = [slice EXCEPT ![current] = SliceAfterTick(current)]
    /\ ready' = ReadyAfterTick(current)
    /\ pend' = (/\ lock = 0
                /\ ~(HasNext(ready', bits) /\ NextTask(ready', bits) = current))
    /\ isr' = "none"
    /\ UNCHANGED <<started, bits, timer, state, reason, prio, alloc,
                   current, lock, nesting, flow>>

\* PendSV_Handler and flyos_context_switch, which does not look at the lock.
ContextSwitch ==
    /\ pend
    /\ nesting = 0
    /\ isr = "none"
    /\ HasNext(ready, bits)
    /\ current' = NextTask(ready, bits)
    /\ state'   = [state EXCEPT ![NextTask(ready, bits)] = "READY"]
    /\ pend'    = FALSE
    /\ UNCHANGED <<started, lists, timer, reason, prio, slice, alloc,
                   lock, nesting, isr, flow>>

-----------------------------------------------------------------------------

\* What is left of a call that has begun.
Continue(c) ==
    \/ DeleteFree(c)
    \/ DeleteLeave(c)
    \/ Resume(c)
    \/ CallScheduler(c)
    \/ CompareAndCall(c)

Call(c) ==
    \/ \E x \in Task, p \in Prio : Create(c, x, p) \/ SetPriority(c, x, p)
    \/ \E x \in Task : Delete(c, x) \/ Suspend(c, x) \/ ResumeCheck(c, x)
    \/ \E ticks \in Delays : Delay(c, ticks)
    \/ Yield(c)
    \/ Lock(c)
    \/ Unlock(c)

Handler == SysTick \/ Wake \/ SysTickEnd \/ ContextSwitch

Next ==
    \/ \E x \in Task, p \in Prio : CreateBeforeStart(x, p)
    \/ Start
    \/ \E c \in Task : Call(c)
    \/ \E c \in Task : Continue(c)
    \/ Handler

Spec == Init /\ [][Next]_vars

\* The handlers are taken when they can be: SysTick stays pending in the NVIC
\* while PendSV or a critical section holds it back, so it is taken at the next
\* opportunity (strong fairness).  A task that runs gets on with its call.
Fairness ==
    /\ WF_vars(Start)
    /\ SF_vars(SysTick)
    /\ WF_vars(Wake)
    /\ WF_vars(SysTickEnd)
    /\ WF_vars(ContextSwitch)
    /\ \A c \in Task : WF_vars(Continue(c))

FairSpec == Spec /\ Fairness

-----------------------------------------------------------------------------
(* Properties                                                              *)

\* All resumptions and all deletions of other tasks are made by one task.
\* flyos_task_resume and flyos_task_delete do part of their work outside of
\* their critical sections, and rely on no other task doing the same.
Supervised ==
    \A c, d \in Calls["resume"] \cup Calls["delete"] : c = d

TypeOK ==
    /\ started \in BOOLEAN
    /\ ready   \in [Prio -> Seq(Thread)]
    /\ bits    \subseteq Prio
    /\ dq      \in Seq(Thread)
    /\ left    \in [Thread -> Nat]
    /\ state   \in [Thread -> {"NONE", "READY", "BLOCK", "CLOSE"}]
    /\ reason  \in [Thread -> {"NONE", "DELAY", "SUSPEND"}]
    /\ prio    \in [Thread -> Prio]
    /\ slice   \in [Thread -> 1..TIME_SLICE]
    /\ alloc   \subseteq Thread
    /\ current \in Thread
    /\ lock    \in 0..MAX_LOCK
    /\ nesting \in 0..MAX_LEAK
    /\ pend    \in BOOLEAN
    /\ isr     \in {"none", "deal"}
    /\ pc      \in [Thread -> {"user", "schedule", "compare", "free", "leave",
                               "spin", "resume"}]
    /\ arg     \in [Thread -> Thread]

Distinct(s) == \A i, j \in 1..Len(s) : s[i] = s[j] => i = j

\* A task is in the list of its own priority, once, exactly when it is READY,
\* and a bit of the bitmap is set exactly when the list of its priority is not
\* empty: what lines 414-480 keep up and every caller relies on.
ReadyConsistent ==
    /\ \A p \in Prio : Distinct(ready[p])
    /\ \A p \in Prio, t \in Thread :
          t \in ToSet(ready[p]) <=> state[t] = "READY" /\ prio[t] = p
    /\ \A p \in Prio : p \in bits <=> ready[p] # <<>>

\* A task is in the delta queue, once, exactly while flyos_task_delay blocks
\* it: no call wakes it early and forgets it there, and none but the tick takes
\* it out to forget it for ever (deletion excepted).
SleepersQueued ==
    /\ Distinct(dq)
    /\ \A t \in Thread :
          t \in ToSet(dq) <=> state[t] = "BLOCK" /\ reason[t] = "DELAY"
    /\ \A i, j \in 1..Len(dq) : i < j => left[dq[i]] <= left[dq[j]]
    /\ isr = "none" => \A t \in ToSet(dq) : left[t] > 0

\* The lists never lead to a control block that has been given back.
NoDangling ==
    \A t \in Thread \ alloc :
        t \notin ToSet(dq) /\ \A p \in Prio : t \notin ToSet(ready[p])

\* The assertion of flyos_context_switch (line 1214): there is a task to run,
\* and it is one whose control block exists.
SwitchFindsTask == HasNext(ready, bits) /\ NextTask(ready, bits) \in alloc

\* While a task executes its own code and the scheduler is not locked, it is
\* the head of the most urgent list: no call, tick or combination of the two
\* leaves a more urgent task waiting with no switch under way.
HighestRuns ==
    started /\ lock = 0 /\ isr = "none" /\ ~pend /\ pc[current] = "user" =>
        HasNext(ready, bits) /\ NextTask(ready, bits) = current

\* What has been checked before a call's first step still holds at its next
\* one, and nobody frees what another call is going to use.
CallInvariant ==
    /\ state[Idle] = "READY"
    /\ Idle \in alloc
    /\ \A t \in Thread \ alloc : state[t] \in {"NONE", "CLOSE"}
    /\ \A c \in Task :
          /\ ~started => pc[c] = "user"
          /\ pc[c] = "resume" =>
                /\ c \in Calls["resume"]
                /\ arg[c] \in alloc
                /\ Resumable(arg[c])
          /\ pc[c] = "free" =>
                /\ state[arg[c]] = "CLOSE"
                /\ arg[c] # c => /\ c \in Calls["delete"]
                                /\ arg[c] \in alloc
                                /\ arg[c] # current

\* While no switch is on its way, either the running task is the one that
\* should run, or the rest of its call is about to ask for a switch.
DispatchInvariant ==
    /\ ~started => lock = 0 /\ nesting = 0 /\ ~pend /\ isr = "none"
    /\ pend /\ nesting = 0 => lock = 0
    /\ started /\ lock = 0 /\ isr = "none" /\ ~pend =>
          /\ pc[current] \in {"user", "resume"}
                => NextTask(ready, bits) = current
          /\ pc[current] = "free" /\ arg[current] # current
                => NextTask(ready, bits) = current
          /\ pc[current] = "compare"
                => \/ NextTask(ready, bits) = current
                   \/ prio[arg[current]] < prio[current]

\* The inductive invariant of a system with one supervisor.
IInv ==
    /\ TypeOK
    /\ ReadyConsistent
    /\ SleepersQueued
    /\ CallInvariant
    /\ DispatchInvariant

\* flyos_scheduler_lock keeps the processor with its caller.
NoSwitchWhileLocked == [][lock > 0 => current' = current]_vars

\* flyos_task_delay lasts: a task that sleeps becomes READY only in the tick in
\* which its delay has run out.
DelayKept ==
    [][\A t \in Task :
          state[t] = "BLOCK" /\ reason[t] = "DELAY" /\ state'[t] = "READY"
              => t \in ToSet(dq) /\ left[t] = 0]_vars

\* A most urgent READY task gets the processor, or loses its rank, although
\* its equals may never give it up: the time slices of lines 1150-1168.
RoundRobin ==
    \A t \in Task :
        started /\ state[t] = "READY" /\ prio[t] = Highest(bits)
            ~> current = t \/ state[t] # "READY" \/ prio[t] # Highest(bits)

\* A task that delays itself is woken.
DelayEnds ==
    \A t \in Task : state[t] = "BLOCK" /\ reason[t] = "DELAY"
                        ~> state[t] # "BLOCK"
=============================================================================
