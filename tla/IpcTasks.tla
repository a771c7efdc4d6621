------------------------------ MODULE IpcTasks ------------------------------
(***************************************************************************)
(* What the objects of flyos_ipc.c share: tasks that block in wait queues  *)
(* and are woken or time out, and the scheduler and handlers of            *)
(* flyos_kernel.c as far as IPC depends on them.                           *)
(*                                                                         *)
(* FlyosKernel treats ready lists as sequences.  Here they are rings of    *)
(* links, because a task that waits is linked through the same two         *)
(* pointers (task->rdy_wait_link) into a list of the wait queue.  An       *)
(* operator on lists maps the links before a call to those after it.       *)
(*                                                                         *)
(* A critical section is one action, or several with inside # NULL.        *)
(* PendSV is taken as soon as no section masks it.  Interrupts that call   *)
(* the _from_isr functions come at any time outside of critical sections.  *)
(***************************************************************************)
EXTENDS Naturals, Sequences, FiniteSets, SequencesExt

CONSTANTS
    Task,           \* the tasks, created before the kernel starts
    Idle,           \* the idle task
    NULL,           \* the null pointer
    Queue,          \* the wait queues
    IDLE_PRIORITY,  \* FLYOS_IDLE_PRIORITY
    Priority,       \* the priority each task is created with
    Sliced,         \* the tasks whose time slice may run out
    WAIT_FOREVER,   \* FLYOS_WAIT_FOREVER
    Calls           \* for each API call, the tasks that make it

NO_WAIT == 0

Thread == Task \cup {Idle}
Prio   == 0..IDLE_PRIORITY
Link   == Thread \cup {NULL}

ASSUME IpcAssumption ==
    /\ IsFiniteSet(Task)
    /\ Idle \notin Task
    /\ NULL \notin Thread \cup Queue
    /\ IDLE_PRIORITY \in Nat
    /\ Priority \in [Task -> Prio]
    /\ Sliced \subseteq Thread
    /\ WAIT_FOREVER \in Nat \ {0}

VARIABLES
    lists,      \* links, heads and bitmaps: see Lists
    state,      \* task->state
    prio,       \* task->priority
    object,     \* the wait queue of task->block_object, or NULL
    err,        \* task->error_code
    dq, left,   \* the delta queue and the ticks left, as in FlyosKernel
    current,    \* scheduler.current_task
    pend,       \* is PendSV pending?
    isr,        \* what the SysTick handler still has to do
    inside,     \* the task in a critical section of several actions, or NULL
    pc          \* what each task still has to do of its call

taskVars   == <<lists, state, prio, object, err, dq, left>>
cpuVars    == <<current, pend, isr, inside>>
kernelVars == <<taskVars, cpuVars, pc>>

Lists ==
    [next     : [Thread -> Link],           \* task->rdy_wait_link.next
     prev     : [Thread -> Link],           \* task->rdy_wait_link.prev
     ready    : [Prio -> Link],             \* scheduler.ready_list
     bits     : SUBSET Prio,                \* scheduler.ready_priorities
     wait     : [Queue -> [Prio -> Link]],  \* wait_queue->prio_list
     waitBits : [Queue -> SUBSET Prio]]     \* wait_queue->ready_bitmap

KernelTypeOK ==
    /\ lists   \in Lists
    /\ state   \in [Thread -> {"READY", "BLOCK"}]
    /\ prio    \in [Thread -> Prio]
    /\ object  \in [Thread -> Queue \cup {NULL}]
    /\ err     \in [Thread -> {"OK", "TIMEOUT", "ERROR"}]
    /\ dq      \in Seq(Thread)
    /\ left    \in [Thread -> Nat]
    /\ current \in Thread
    /\ pend    \in BOOLEAN
    /\ isr     \in {"none", "deal", "schedule"}
    /\ inside  \in Link
    /\ pc      \in [Thread -> {"user", "schedule", "wait", "return", "finish", "section"}]

-----------------------------------------------------------------------------
(* Ready lists: rings                                                      *)

\* flyos_remove_ready_list, for a task of priority p.
RemoveReady(m, t, p) ==
    CASE m.next[t] = NULL /\ m.prev[t] = NULL /\ m.ready[p] # t -> m
      [] m.next[t] = t ->
            [m EXCEPT !.ready[p] = NULL,
                      !.bits     = @ \ {p},
                      !.next[t]  = NULL,
                      !.prev[t]  = NULL]
      [] OTHER ->
            [m EXCEPT !.next  = [@ EXCEPT ![m.prev[t]] = m.next[t], ![t] = NULL],
                      !.prev  = [@ EXCEPT ![m.next[t]] = m.prev[t], ![t] = NULL],
                      !.ready[p] = IF @ = t THEN m.next[t] ELSE @]

\* The last lines of flyos_insert_ready_list: t becomes the tail of the ring.
Ring(m, t, p) ==
    LET head == m.ready[p]
        tail == m.prev[head]
    IN  IF head = NULL
        THEN [m EXCEPT !.ready[p] = t, !.next[t] = t, !.prev[t] = t]
        ELSE [m EXCEPT !.next = [@ EXCEPT ![tail] = t, ![t] = head],
                       !.prev = [@ EXCEPT ![t] = tail, ![head] = t]]

\* flyos_insert_ready_list: a task that is linked is taken out first.
InsertReady(m, t, p) ==
    LET free == IF m.next[t] # NULL \/ m.prev[t] # NULL
                THEN RemoveReady(m, t, p) ELSE m
    IN  Ring([free EXCEPT !.bits = @ \cup {p}], t, p)

\* find_highest_priority, and the task flyos_scheduler would run.
Highest(b) ==
    IF b = {} THEN IDLE_PRIORITY ELSE CHOOSE p \in b : \A q \in b : p <= q

NextTask(m) == m.ready[Highest(m.bits)]

-----------------------------------------------------------------------------
(* Wait queues: a list for each priority                                   *)

\* wait_queue_init
WaitInit(m, q) == [m EXCEPT !.wait[q]     = [p \in Prio |-> NULL],
                            !.waitBits[q] = {}]

\* wait_queue_insert, for a task of priority p: at the head of the list.
WaitInsert(m, q, t, p) ==
    LET head == m.wait[q][p]
    IN  [m EXCEPT !.next[t] = head,
                  !.prev = [u \in Thread |-> CASE u = t    -> NULL
                                               [] u = head -> t
                                               [] OTHER    -> @[u]],
                  !.wait[q][p]  = t,
                  !.waitBits[q] = @ \cup {p}]

\* A mutant: the bit of a list that becomes empty stays set.
MutantKeepsWaitBit(m, q, t, p) ==
    LET before == m.prev[t]
        after  == m.next[t]
    IN  [m EXCEPT !.next = [u \in Thread |-> CASE u = t      -> NULL
                                               [] u = before -> after
                                               [] OTHER      -> @[u]],
                  !.prev = [u \in Thread |-> CASE u = t     -> NULL
                                               [] u = after -> before
                                               [] OTHER     -> @[u]],
                  !.wait[q][p] = IF before = NULL THEN after ELSE @]

\* wait_queue_remove: a task without a predecessor is taken for the head.
WaitRemove(m, q, t, p) ==
    LET before == m.prev[t]
        after  == m.next[t]
        first  == IF before = NULL THEN after ELSE m.wait[q][p]
    IN  [m EXCEPT !.next = [u \in Thread |-> CASE u = t      -> NULL
                                               [] u = before -> after
                                               [] OTHER      -> @[u]],
                  !.prev = [u \in Thread |-> CASE u = t     -> NULL
                                               [] u = after -> before
                                               [] OTHER     -> @[u]],
                  !.wait[q][p]  = first,
                  !.waitBits[q] = IF first = NULL THEN @ \ {p} ELSE @]

\* A mutant: the least urgent task that waits.
MutantLeastUrgent(q) ==
    lists.wait[q][CHOOSE p \in lists.waitBits[q] : \A r \in lists.waitBits[q] : r <= p]

\* wait_queue_is_empty, and the task wait_queue_remove_highest takes.
HasWaiter(q)     == lists.waitBits[q] # {}
HighestWaiter(q) == lists.wait[q][Highest(lists.waitBits[q])]

-----------------------------------------------------------------------------
(* Blocking and waking                                                     *)

\* flyos_delta_queue_insert and flyos_delta_queue_remove, as in FlyosKernel.
DelayPlace(ticks) ==
    CHOOSE k \in 1..(Len(dq) + 1) :
        /\ \A i \in 1..(k - 1) : left[dq[i]] <= ticks
        /\ k <= Len(dq) => left[dq[k]] > ticks

QueueWithout(t) ==
    IF t \in ToSet(dq) THEN RemoveAt(dq, CHOOSE i \in 1..Len(dq) : dq[i] = t) ELSE dq

\* ipc_block_current_task, applied to the lists m.
Block(c, m, q, timeout) ==
    /\ lists'  = WaitInsert(RemoveReady(m, c, prio[c]), q, c, prio[c])
    /\ state'  = [state  EXCEPT ![c] = "BLOCK"]
    /\ object' = [object EXCEPT ![c] = q]
    /\ err'    = [err    EXCEPT ![c] = "OK"]
    /\ IF timeout = WAIT_FOREVER
       THEN UNCHANGED <<dq, left>>
       ELSE /\ dq'   = InsertAt(dq, DelayPlace(timeout), c)
            /\ left' = [left EXCEPT ![c] = timeout]

BlockOn(c, q, timeout) == Block(c, lists, q, timeout) /\ UNCHANGED prio

\* A waiting task becomes READY with priority p and result e.  m are the lists
\* after it has left its wait queue.
Unblock(t, m, e, p) ==
    /\ lists'  = InsertReady(m, t, p)
    /\ state'  = [state  EXCEPT ![t] = "READY"]
    /\ object' = [object EXCEPT ![t] = NULL]
    /\ err'    = [err    EXCEPT ![t] = e]
    /\ dq'     = QueueWithout(t)
    /\ left'   = [left   EXCEPT ![t] = 0]

MakeReady(t, m, e) == Unblock(t, m, e, prio[t]) /\ UNCHANGED prio

\* ipc_wake_highest_task, and with e = "ERROR" the loop of the delete calls.
WakeHighest(q, e) ==
    LET t == HighestWaiter(q)
    IN  MakeReady(t, WaitRemove(lists, q, t, prio[t]), e)

-----------------------------------------------------------------------------

\* The first and the last task of S in the order in which tasks were created.
Earliest(turn, S) ==
    IF S = {} THEN NULL ELSE CHOOSE t \in S : \A u \in S : turn[t] <= turn[u]

Latest(turn, S) == CHOOSE t \in S : \A u \in S : turn[u] <= turn[t]

\* The lists after flyos_insert_ready_list has put each task, when its turn
\* came, at the tail of the ring of its priority.
Created(turn) ==
    LET Peers(p) == {u \in Thread : prio[u] = p}
        After(t)  == {u \in Peers(prio[t]) : turn[u] > turn[t]}
        Before(t) == {u \in Peers(prio[t]) : turn[u] < turn[t]}
        Of(S, t)  == IF S = {} THEN Peers(prio[t]) ELSE S
    IN  [next     |-> [t \in Thread |-> Earliest(turn, Of(After(t), t))],
         prev     |-> [t \in Thread |-> Latest(turn, Of(Before(t), t))],
         ready    |-> [p \in Prio |-> Earliest(turn, Peers(p))],
         bits     |-> {prio[t] : t \in Thread},
         wait     |-> [q \in Queue |-> [p \in Prio |-> NULL]],
         waitBits |-> [q \in Queue |-> {}]]

\* The state in which flyos_kernel_start leaves the system: the idle task was
\* created first, the others in some order after it.
KernelInit ==
    /\ prio = [t \in Thread |-> IF t = Idle THEN IDLE_PRIORITY ELSE Priority[t]]
    /\ \E turn \in [Thread -> 0..Cardinality(Task)] :
        /\ turn[Idle] = 0
        /\ \A t, u \in Thread : turn[t] = turn[u] => t = u
        /\ lists = Created(turn)
    /\ state   = [t \in Thread |-> "READY"]
    /\ object  = [t \in Thread |-> NULL]
    /\ err     = [t \in Thread |-> "OK"]
    /\ dq      = <<>>
    /\ left    = [t \in Thread |-> 0]
    /\ current = NextTask(lists)
    /\ pend    = FALSE
    /\ isr     = "none"
    /\ inside  = NULL
    /\ pc      = [t \in Thread |-> "user"]

\* An instruction of task c can run.
Runs(c) == current = c /\ isr = "none" /\ inside = NULL /\ ~pend

MayCall(c, call) == Runs(c) /\ pc[c] = "user" /\ c \in Calls[call]

\* An interrupt handler can call a _from_isr function.
Interrupts == isr # "deal" /\ inside = NULL

Goto(c, next) == pc' = [pc EXCEPT ![c] = next]

\* flyos_scheduler, in a system that has not locked it.
Reschedule == pend' = (pend \/ NextTask(lists) # current)

\* The call of flyos_scheduler() with which an IPC call ends.
CallScheduler(c) ==
    /\ Runs(c)
    /\ \/ pc[c] = "schedule" /\ Goto(c, "user")
       \/ pc[c] = "wait"     /\ Goto(c, "return")
    /\ Reschedule
    /\ UNCHANGED <<taskVars, current, isr, inside>>

-----------------------------------------------------------------------------
(* Exceptions                                                              *)

\* A mutant: no time passes while the processor is idle.
MutantIdleTick ==
    [t \in Thread |-> IF t \in ToSet(dq) /\ current # Idle
                      THEN left[t] - 1 ELSE left[t]]

\* delta_queue_deal: a tick less for everybody.
LeftAfterTick ==
    [t \in Thread |-> IF t \in ToSet(dq) THEN left[t] - 1 ELSE left[t]]

\* flyos_systick_handler enters its critical section.
SysTick ==
    /\ Runs(current)
    /\ isr'  = "deal"
    /\ left' = LeftAfterTick
    /\ UNCHANGED <<lists, state, prio, object, err, dq, current, pend, inside, pc>>

\* The tick has still a task to wake.
Due == dq # <<>> /\ left[Head(dq)] = 0

\* The end of a time slice: the head of the ring moves on, if the current task
\* has a neighbour.
Rotated(m, c) ==
    IF m.next[c] # NULL /\ m.next[c] # c
    THEN [m EXCEPT !.ready[prio[c]] = m.next[c]]
    ELSE m

\* The rest of the handler's critical section: the current task's slice.
SysTickSlice ==
    /\ isr = "deal"
    /\ ~Due
    /\ \/ current \in Sliced /\ lists' = Rotated(lists, current)
       \/ UNCHANGED lists
    /\ isr' = "schedule"
    /\ UNCHANGED <<state, prio, object, err, dq, left, current, pend, inside, pc>>

\* The handler calls flyos_scheduler() outside of the section.
SysTickEnd ==
    /\ isr = "schedule"
    /\ isr' = "none"
    /\ Reschedule
    /\ UNCHANGED <<taskVars, current, inside, pc>>

\* PendSV_Handler and flyos_context_switch.
ContextSwitch ==
    /\ pend
    /\ isr = "none"
    /\ inside = NULL
    /\ NextTask(lists) # NULL
    /\ current' = NextTask(lists)
    /\ state'   = [state EXCEPT ![NextTask(lists)] = "READY"]
    /\ pend'    = FALSE
    /\ UNCHANGED <<lists, prio, object, err, dq, left, isr, inside, pc>>

Handler == SysTick \/ SysTickSlice \/ SysTickEnd \/ ContextSwitch

-----------------------------------------------------------------------------
(* Properties that every IPC object needs                                  *)

\* The tasks in s, one after the other, are a ring that head leads to.
IsRing(s, head) ==
    /\ head = IF s = <<>> THEN NULL ELSE s[1]
    /\ \A i \in 1..Len(s) :
        LET j == (i % Len(s)) + 1
        IN  lists.next[s[i]] = s[j] /\ lists.prev[s[j]] = s[i]

\* The tasks in s, one after the other, are a list that head leads to.
IsList(s, head) ==
    /\ head = IF s = <<>> THEN NULL ELSE s[1]
    /\ \A i \in 1..Len(s) :
        /\ lists.prev[s[i]] = IF i = 1      THEN NULL ELSE s[i - 1]
        /\ lists.next[s[i]] = IF i = Len(s) THEN NULL ELSE s[i + 1]

\* A task's two links put it into the ring of its priority exactly when it is
\* READY and into the list of the queue it waits for exactly when it waits;
\* the bitmaps tell which of them are empty; a task that is not READY waits or
\* sleeps, and the delta queue holds nobody whose wait is over.
LinksSound ==
    /\ \A t \in Thread :
        /\ object[t] # NULL => state[t] = "BLOCK"
        /\ state[t] = "BLOCK" => object[t] # NULL \/ t \in ToSet(dq)
    /\ \A p \in Prio :
        /\ \E s \in SetToSeqs({t \in Thread : state[t] = "READY" /\ prio[t] = p}) :
              IsRing(s, lists.ready[p])
        /\ p \in lists.bits <=> lists.ready[p] # NULL
    /\ \A q \in Queue, p \in Prio :
        /\ \E s \in SetToSeqs({t \in Thread : object[t] = q /\ prio[t] = p}) :
              IsList(s, lists.wait[q][p])
        /\ p \in lists.waitBits[q] <=> lists.wait[q][p] # NULL
    /\ \A t \in ToSet(dq) : state[t] = "BLOCK"

\* Whoever wakes a more urgent task, be it a task, an interrupt or a time-out,
\* also asks for the switch: a task in its own code is the one that should run.
PromptSwitch ==
    isr = "none" /\ inside = NULL /\ ~pend /\ pc[current] = "user" =>
        NextTask(lists) = current
=============================================================================
