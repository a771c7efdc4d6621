# FLYOS in TLA+

FLYOS is a small preemptive real-time kernel for Cortex-M: tasks with 32
priorities (0 is the most urgent, 31 is the idle task's), delays, time slices,
inter-process communication and a heap. This directory holds TLA+ models of it,
the TLC configurations that check them, and proofs for TLAPS.

## The system

| Component | State | Operations | Interacts with |
|---|---|---|---|
| Delta queue (`flyos_kernel.c` 115-239) | head pointer; in each control block a delta and two links | insert, remove, deal (one tick) | delay and IPC time-outs arm it, the SysTick handler advances it, delete and IPC wake-ups remove from it |
| Ready lists (396-480) | a ring per priority, a bitmap | insert, remove, find highest | every call that blocks or wakes a task |
| Scheduler (951-1003) | current task, lock nesting | `flyos_scheduler`, lock, unlock | requests PendSV |
| Task life cycle (581-920) | state, block reason, priority, slice, allocation | create, delete, suspend, resume, set_priority, delay, delay_until, yield | ready lists, delta queue, heap, scheduler |
| SysTick (1138-1203) | tick count, slices | one handler | delta queue, ready lists, scheduler, monitors |
| Context switch and ports (1208-1243, `port/*`) | BASEPRI, nesting counter, pending PendSV | enter and exit critical, yield, PendSV | everything |
| IPC common part (`flyos_ipc.c` 50-334, 2456-2536) | a list per priority and a bitmap in each object | block, wake highest, remove on time-out | ready lists, delta queue |
| Semaphore (398-640) | count, maximum | wait, try, signal, signal from ISR, delete | IPC common part |
| Mutex (719-1013) | owner, nesting, the owner's priority at locking | lock, unlock, delete; inheritance along the chain of owners | IPC common part, priorities in the ready lists |
| Message queue (1146-1456), mailbox (2153-2433) | ring buffer, wait queues of senders and of receivers | send, receive, delete, the ISR variants | IPC common part |
| Event flags (1642-1902) | flags, the flags waited for | set, clear, wait (AND, OR, clear on exit), delete | IPC common part |
| Heap (`flyos_mem.c`) | list of blocks over an arena | alloc, free, realloc, calloc | task and IPC creation |
| Monitors (1012-1125) | counters | stack scan; the rest are stubs | called by SysTick |

What is hard in it:

* The processor can be taken away wherever BASEPRI does not mask it. An API
  call is a critical section and then, outside of it, a call of
  `flyos_scheduler()`, a comparison or a `free`. What the section has
  established may be stale by then.
* PendSV may be pending while a task goes on inside a critical section, and
  `flyos_context_switch` looks neither at the scheduler lock nor at who asked.
* Absolute wake-up times exist only as a chain of differences; every insertion
  and removal has to keep the sums.
* Ready lists, bitmap, state and priority say the same thing four times.
* Rotation for time slices and for `yield`, preemption, and removal from a list
  meet in one head pointer.

What makes each component correct:

* delta queue: every armed task is woken in the tick it asked for, ties in the
  order of the calls, and no delta underflows;
* ready lists: they agree with state, priority and bitmap;
* scheduler: a task that runs its own code is the head of the most urgent list,
  a locked scheduler does not switch, equals take turns;
* life cycle: a suspended task stays suspended, a delay lasts, a deleted task is
  in no list when its memory goes, and its memory goes;
* IPC: a semaphore with a count has no waiters, a queue with messages has no
  waiting receivers and one with room no waiting senders, a met condition of
  event flags no waiting task, a waiter is in exactly
  one wait queue, an owner has the priority of its most urgent waiter and gets
  its own back, a time-out and a hand-over never both succeed;
* heap: blocks tile the arena, no two free blocks are neighbours, allocated
  blocks do not overlap.

## The modules

| Module | What it is |
|---|---|
| `Timers` | Abstract specification of timers: armed tasks, ticks left, fire at 0, ties in order |
| `DeltaQueue` | The delta queue with its nodes, relative deltas and loops; implements `Timers` |
| `FlyosKernel` | Ready lists, bitmap, task life cycle, delays, slices, scheduler lock, critical sections, SysTick, PendSV |
| `Allocator` | Abstract specification of the heap: regions handed out, disjoint and long enough |
| `Heap` | The list of blocks link by link, the search, splitting, merging, the sections of realloc; implements `Allocator` |
| `IpcTasks` | What IPC objects share: wait queues and ready rings over the same links, blocking, waking, scheduler, SysTick, PendSV |
| `CountingSemaphore` | Abstract specification of a semaphore: tokens, tasks that wait, tasks that have been handed one |
| `Semaphore` | The semaphore over `IpcTasks`; implements `CountingSemaphore` |
| `Channel` | Abstract specification of queue and mailbox: a bounded FIFO, senders and receivers that wait, answers |
| `RingBuffer` | The buffer of a message queue: slots, two indices, a count |
| `MessageQueue` | Message queue and mailbox over `IpcTasks` and `RingBuffer`; implements `Channel` |
| `Mutex` | Recursive mutexes over `IpcTasks`, with inheritance along the chain of owners |
| `EventGroup` | Abstract specification of event flags: flags, requests that wait, answers |
| `EventFlags` | Event flags over `IpcTasks` with the index of waited-for flags; implements `EventGroup` |
| `DeltaQueueProofs` | The invariant of the delta queue and the refinement |
| `FlyosKernelProofs` | The invariant of the kernel and what follows from it |
| `HeapProofs` | The invariant of the heap, the refinement, sums over finite sets and the statistics |
| `IpcTasksProofs` | The invariant of links, delta queue, calls and processor that all IPC objects share |
| `SemaphoreProofs` | The invariant of the semaphore and the refinement |
| `MessageQueueProofs` | The ring buffer is a FIFO; the invariant of message queue and mailbox and the refinement |
| `EventFlagsProofs` | The invariant of the event flags and the refinement |
| `MutexProofs` | The invariant of the mutexes: lists, owners and priorities |
| `MCDeltaQueue`, `MCKernelLife`, `MCKernelSched`, `MCHeap`, `MCSemaphore`, `MCMessageQueue`, `MCMutex`, `MCEventFlags` | Instances for TLC |

How they build on each other: `DeltaQueue` implements `Timers`, and every module
that has a delta queue uses it as `Timers` describes it. `FlyosKernel` has the
tasks without IPC objects, with the calls of their life cycle; `IpcTasks` has
tasks that exist from start to end, and is extended by one module per object.

### DeltaQueue and Timers

`dq` is the doubly linked list from `delta_queue_head` on, `delta` the field
of each control block. The search loop of `flyos_delta_queue_insert` is one
action per node passed (`InsertPass`) and one that links (`InsertLink`), the
expiry loop of `delta_queue_deal` one action per task (`DealFire`). A call runs
inside a critical section, so calls do not interleave with each other, and `op`
says which loop is in progress. `left` and `older` are history variables: the
ticks each task has left, and who was armed before it. They are read by
properties only. `TimersSpec` maps the queue to `Timers` with
`armed <- ArmedTasks`; a search iteration is a stuttering step.

### FlyosKernel

| Variable | Code |
|---|---|
| `ready`, `bits` | `ready_list` as sequences that start at the head pointer, `ready_priorities` as a set |
| `dq`, `left` | the delta queue as `Timers` describes it: order, and ticks left |
| `state`, `reason`, `prio`, `slice` | the fields of the control block |
| `alloc` | which control blocks and stacks are allocated |
| `current`, `started`, `lock` | fields of `scheduler` |
| `nesting` | `ux_critical_nesting` between calls, that is, critical sections that have not been left |
| `pend` | PENDSVSET |
| `isr` | whether the SysTick handler is in its expiry loop |
| `pc`, `arg` | what a task still has to do of its call, and about whom |

One action is one critical section. `Create`, `Delete`, `Suspend`,
`ResumeCheck`, `Resume`, `SetPriority`, `Delay`, `Yield` are the sections;
`CallScheduler`, `CompareAndCall`, `DeleteFree`, `DeleteLeave` are what follows
outside of them. `ResumeCheck` is an action of its own because
`flyos_task_resume` looks at its target before it enters its section. SysTick is
`SysTick`, then one `Wake` per task that is due, then `SysTickEnd` (slice and
`flyos_scheduler`). `ContextSwitch` is PendSV. As both exceptions have the lowest
priority (`flyos_port.c` 87-93), neither interrupts the other, and BASEPRI
(`nesting # 0`) masks both. A pending and unmasked PendSV is taken before the
next instruction of a task: `Runs` says so, and `SysTick` waits for it because
PendSV has the lower exception number.

Simplifications, each of which keeps the states the properties tell apart:

* the two `flyos_mem_free` calls of a deletion are one step (`DeleteFree`), and
  a control block that is not allocated can be used by `Create` again;
* `create` with bad arguments or an exhausted heap changes nothing;
* every task has the slice `TIME_SLICE` of the default configuration;
* a task that has blocked and still runs, because the scheduler is locked or
  PendSV stays masked, makes no further call. The code lets it, and its lists
  may then be corrupted (see `hazards` in PROJECT.json, line 848);
* only tasks call the API; the `_from_isr` functions belong to the IPC modules.

### Heap and Allocator

`next`, `prev`, `size`, `used` are the fields of the header at an address;
`NULL` is the address behind the arena, so that the last block's `next` is where
it ends. Each call is one critical section, in which the search takes one step
per block (`FindPass`, then `FindTake` or `FindFail`); `finder`, `cur` and
`need` are its local state, and `finder # NoTask` keeps the other calls out.
`flyos_mem_realloc` is different: it reads the size in one section
(`ReallocKeep` or `ReallocBegin`), allocates in a second (`ReallocAlloc` and the
search), copies outside of any and frees in a third (`ReallocFree`), and other
tasks call in between. `chain` (the blocks that the list reaches) and `wanted`
(how many bytes a holder counts on) are history variables. `AllocatorSpec` maps
a held block to the region behind its header.

Callers keep to `flyos_mem.h`: they free what they hold, and once. The magic
numbers, which catch some that do not, are left out, as are `peak_usage`, the
counters of calls and the contents of memory. Headers that a merge leaves behind
are reset, since nothing reads them. `ALIGNMENT` need not be a power of two:
rounding by division agrees with the mask of the code where it is one.

### IpcTasks, Semaphore and CountingSemaphore

A task that waits is linked into a wait queue through `rdy_wait_link`, the very
field that links READY tasks. `IpcTasks` therefore keeps links instead of
sequences: `lists` is a record of `next`, `prev`, the heads `ready` and `wait`
and the bitmaps, and each operator (`RemoveReady`, `InsertReady`, `WaitInsert`,
`WaitRemove`) maps the links before a call to the links after it, so that an
action applies several in the order of the code. `BlockOn` is
`ipc_block_current_task`, `MakeReady` the common part of
`ipc_wake_highest_task`, of the loops in the delete calls and of
`delta_queue_wake_task`. The delta queue is `dq` and `left`, as in
`FlyosKernel`. The SysTick handler is one critical section (`SysTick`, one
`Expire` per task, `SysTickSlice`) and a call of `flyos_scheduler()` outside of
it (`SysTickEnd`); an interrupt that signals may come in between, and anywhere
else outside of critical sections (`Interrupts`). `flyos_semaphore_delete` stays
in its section while it wakes one task after the other: `inside` is that task,
and `pc` says `"section"`. `KernelInit` is the state that `flyos_kernel_start`
leaves behind for any order in which the tasks were created: `turn` is their
place in it, and `Created` the lists that one `flyos_insert_ready_list` after
the other has built.

`Semaphore` adds `count`, `max`, `alive` and the history variable `balance`:
tokens created and signalled, less those that callers have returned with. A
wait that blocks is `WaitBlock`, `CallScheduler` and, when the task runs again,
`WaitReturn`, which reads the error code. `SemaphoreSpec` maps the tasks with a
`block_object` to `waiting` and those whose wait has been answered but has not
returned to `granted`.

### MessageQueue, RingBuffer and Channel

`type`, `max`, `ring` are the fields of `flyos_queue_t`, `message` and `full`
those of `flyos_mailbox_t`. Queue and mailbox are in one module because most of
their code is the same; the object that exists has either type. Both have two
wait queues, `"send"` and `"recv"`. A waiting task leaves a pointer in
`user_data`: to its message (`data`) or to its caller's buffer, in which a
receive call finds `got`. One action is one critical section: `Send` is
`queue_send_common` or `mailbox_send_common` if it does not block (`HandsOver`
tells whether a receiver gets the message past the ring), `SendFromIsr` the same
from an interrupt, `QueueSendBlocks` and the like are the calls that do.
`QueueReceive` takes the oldest message and puts the message of the most urgent
waiting sender into the ring. The delete calls wake the senders first, one
`DeleteWake` each. `Expire` removes a task from both wait queues, as the code
does. `ChannelSpec` maps a waiting sender to `offer`, a waiting receiver to
`receivers`, and the error code of a task that has been woken to `answer`.

### Mutex

Each mutex is its own wait queue, with `owner`, `nest` and `original` for
`owner`, `nest_count` and `original_priority`. `InheritChain` is the loop of
`mutex_priority_inherit_chain`: each iteration looks at the owner of a mutex,
raises its priority, moves it in the ready lists if it is there, and goes on to
the mutex that this owner waits for. Its check for cycles is never reached
(`findings`, line 739), and the assertion on the length of the chain (788-791) is
left out. `Restore` is `mutex_priority_restore`.
`LockFree`, `LockAgain` and `LockBlock` are the three outcomes of
`flyos_mutex_lock` that change something, `UnlockInner` and `Unlock` those of
`flyos_mutex_unlock`. An owner may sleep (`Delay`), so that it can be boosted
while it is in the delta queue. `held` is a history variable: what the results
of its calls tell a task that it owns. `inherited_priority` is left out, since
nothing reads it.

### EventFlags and EventGroup

`flags` is the word of flags as a set, `flag_waiters` the index of the code: for
each flag that a wait may name a set of priorities. `want` is what a waiting task
has left in `user_data`. `flyos_event_set` is one critical section with three nested
loops, over the flags that are set, over a copy of the flag's priorities and
over the wait list of each. It is modelled iteration by iteration: `SetBegin`,
`NextFlag`, `NextPriority`, `VisitTask`, `SetEnd`, with the three loop variables
`set_flags`, `waiter_prios` and `at`. `VisitTask` reads the link to the next task
before it unlinks this one (`Serve`), as the code does. `Dropped` clears the
bit of a task's priority, which is what lets the index forget others.
`EventSpec` maps a set to `SetBegin`, one `Serve` for each task that is woken,
each met by what those before it have left, and `SetEnd`, which requires that
nobody is left behind for whom the flags suffice that are left; the iterations
that wake nobody are stuttering steps. This is what the code does, and it is
less than the comment in `flyos_ipc.c` 1633 says, that all tasks that wait for an
event are woken: a wait with `FLYOS_EVENT_CLEAR_ON_EXIT` takes its flags from the
tasks that are looked at after it (line 1782), which stay blocked although their
condition held when the flags were set. The run `event_flags` contains such
states (t3 clears flags 1 and 2, t1 waits for flag 0 or 1) and `EventSpec` holds
in them, so it must not be read as a confirmation of the comment; `findings`
reports the disagreement. Where no wait clears its flags, whoever is met by a set
is still met when it ends, so that all are woken.
`*result_flags` is left out (see `findings`, line 1895).

### What the IPC modules leave out

Priorities change in `Mutex` only. The scheduler is not locked, and tasks are
neither deleted nor suspended while they wait. Time slices are not counted: a
slice of a task in `Sliced` may run out at any tick, and those of others do not.
No call begins once an object is being deleted, as `flyos_ipc.h` 220 demands,
and handles are valid, so that the type checks succeed. A failing `create`
changes nothing. Calls that fail or that must not wait and return at once change
nothing.

## What is checked

| Run | Properties | What it shows |
|---|---|---|
| `delta_queue` | `TypeOK`, `QueueInvariant`, `HeadPositive`, `TimersSpec` | Four tasks, delays 1 to 3: all queues of up to four nodes with equal and different due times, insertion and removal at each place |
| `kernel_life` | `TypeOK`, `ReadyConsistent`, `SleepersQueued`, `NoDangling`, `SwitchFindsTask`, `HighestRuns`, `NoSwitchWhileLocked`, `DelayKept` | A supervisor and two workers with all API calls between them |
| `kernel_sched` | `RoundRobin`, `DelayEnds` | Three tasks with every assignment of priorities, one of which never gives up the processor |
| `heap` | `TypeOK`, `BlocksTile`, `Coalesced`, `HoldersSafe`, `EmptyIsWhole`, `CopySafe`, `StatsExact`, `AllocatorSpec` | Two tasks that alloc, calloc, realloc and free in every order in an arena for up to four blocks |
| `semaphore` | `TypeOK`, `LinksSound`, `TokensConserved`, `PromptSwitch`, `SemaphoreSpec`, `WaitEnds` | Three tasks, two of them equals, and interrupts: wait with and without time-out, signal, create and delete in every order |
| `message_queue` | `TypeOK`, `NobodyStranded`, `ChannelSpec` | Three tasks, two of them equals, and interrupts send, receive, time out and delete, on a queue of one or two items or a mailbox |
| `mutex` | `TypeOK`, `LinksSound`, `Ownership`, `NoInversion`, `BoostEnds` | Three tasks of different priorities lock, lock again, sleep, time out, unlock and delete one mutex |
| `event_flags` | `TypeOK`, `LinksSound`, `NoMissedWakeup`, `EventSpec` | Three tasks wait for all or any of three flags, with and without clearing them, while flags are set and cleared and the object is deleted: a set wakes tasks until the flags that are left suffice for nobody |
| `semaphore_slice` | `TokensConserved` violated | A slice that ends in the wrong moment lets a wait return without a token (`flyos_kernel.c` 1166) |
| `queue_timeout` | `NobodyStranded` violated | A time-out of one task makes a queue forget another of the same priority (`flyos_ipc.c` 2495) |
| `mutex_nested` | `NoInversion` violated | Unlocking one of two mutexes takes the boost that the other still needs (`flyos_ipc.c` 818) |
| `event_lost` | `NoMissedWakeup` violated | A time-out of one task makes the index forget another that waits for the same flag (`flyos_ipc.c` 2511) |

The four violations are behaviours of the code that contradict what its headers
and comments say of it; `findings` in PROJECT.json quotes the lines. It lists
further ones that have no run of their own. The passing runs exclude their
causes, each by what it says of its instance: the kernel runs are of a
*supervised* system, one task that does all resuming and all deleting of others
(a second resumer could cut a delay short, line 782); the equals of
`semaphore`, `message_queue` and `event_flags` have no time slices; those of
`message_queue` wait for ever; those of `event_flags` wait for different flags;
there is one mutex in `mutex`. The hazards that cannot show in a run for this
reason name no property in PROJECT.json, but a note. `HighestRuns` and `NoSwitchWhileLocked` hold
although `flyos_scheduler_unlock` leaks a critical section (line 997), which the
model does too.

Bounds. Three priorities (two for tasks, one for the idle task, which tasks may
also have) distinguish more, equally and less urgent. Three tasks give a list of
two and a task that moves between lists. In `kernel_life` delays and slices last
one tick, so that every tick ends a delay and a slice; in `kernel_sched` they
last up to two, so that they can differ. `MAX_LOCK` bounds the nesting of the
scheduler lock and `MAX_LEAK` the critical sections that `unlock` leaves open:
one leak masks both exceptions for ever, more change nothing.
`kernel_life` switches deadlock checking off because a leaked section together
with a task that spins after deleting itself stops the model, as it stops the
processor.

`heap` has a word of 32 values, an arena of 21 bytes and headers of 3: blocks of
5, 7 and 15 bytes and what remains of them give splits, fits without a split,
merges to either side and to both, and failing searches. As in the code, where
it is 20, the header is no multiple of the alignment. A count of 3 times a size
of 11 does not fit the word; every other request stays clear of it, as `NoWrap`
asks.

`semaphore` has up to two tokens, time-outs of one and two ticks and for ever,
and three tasks of which two share a priority: lists of the wait queue hold up
to two tasks, time-outs fall into the same tick and into different ones, and
there is one task more than there can be tokens. `Sliced` leaves out the two
equals: `semaphore_slice` shows what happens otherwise. With different
priorities no task has a neighbour in the wait queue and slices do no harm.

`message_queue` has two messages, so that an exchange of them shows, and rings of
one and two slots: the indices wrap around after every message and after two.
Two equals and a more urgent task give wait queues with two lists and a list
with two tasks, in either queue. `mutex` nests up to two locks; with a low, a
middle and a high priority the owner is boosted once, twice, while it runs,
while it is READY and while it sleeps. The least urgent task deletes, so that
waiting tasks of both other priorities are woken; the middle one does not sleep,
because a mutex that is deleted while its boosted owner sleeps puts the owner
into a ready list (see `findings`). Inheritance through a chain needs a second
mutex and is exercised by `mutex_nested`. `event_flags` has three flags, and
requests that overlap: one flag of t3 is t1's, another t2's, so that clearing
by one task takes from another.

Fairness (`FairSpec`, in `kernel_sched` and `semaphore`). The handlers run when
they can: weak fairness for `Wake`, `SysTickEnd`, `ContextSwitch`. SysTick is
disabled again and again by a pending PendSV; the NVIC keeps it pending and
takes it at the next opportunity, which is strong fairness. A task that has
begun a call continues when it runs: weak fairness for `Continue`. There is no
fairness for beginning a call: a task may compute for ever.

`RoundRobin` promises the processor to a task that is READY and most urgent, or
that it loses its rank. It holds although a tick between `yield` and its
`flyos_scheduler()` can rotate the ring twice and skip a task's turn: the
skipped task comes next time. It is checked without `set_priority`, which
re-queues a task at the tail and may be called without end.

## What is proved

All proofs are for every value of the constants that satisfies the assumptions
of the modules (`MaxTicksAssumption`, `KernelAssumption`, `HeapAssumption`,
`IpcAssumption` and those of the IPC objects). What some theorems assume beyond
that is stated in the theorem, and named below.

`DeltaQueueProofs`: `Spec => []IInv`, from it `TypeOK`, `QueueInvariant` and
`HeadPositive`, and `Spec => TimersSpec`. `QueueInvariant` is not inductive: in
the middle of an insertion the new node's delta counts from the last node
passed. `SearchInvariant` states this, and `HistoryInvariant` that the history
variables speak of armed tasks only, without which ties could not be ordered.
The refinement maps `InsertBegin` to `Arm`, `Unlink` to `Cancel`, `DealBegin`
to `Tick`, `DealFire` to `Fire`, the rest to stuttering.

`FlyosKernelProofs`, all under the assumption `Supervised`: `Spec => []IInv`,
and from it `TypeOK`, `ReadyConsistent`, `SleepersQueued`, `NoDangling`,
`SwitchFindsTask`, `HighestRuns`, `NoSwitchWhileLocked` and `DelayKept`.
`HighestRuns` alone is not inductive, since in most states some task is in the
middle of a call. `DispatchInvariant` says for each kind of unfinished call why
the processor will still end up where it belongs: a switch is pending, or the
rest of the call asks for one if it is needed. It also says that an unmasked
PendSV is never pending while the scheduler is locked, which gives
`NoSwitchWhileLocked`. `CallInvariant` says that what a call has checked
before its first section still holds at the next one. This is where
`Supervised` is needed: with a second resumer the call of the first one finds a
task that has gone to sleep since (`findings`, line 782).
The proof has one lemma per action; the sections that relink tasks share
`ListStep`, the steps that only go on with a call share `CallStep`.

`HeapProofs`, all under the assumption `NoWrap`: `Spec => []IInv`, and from it
`TypeOK`, `BlocksTile`, `Coalesced`, `HoldersSafe`, `FirstFit`, `CopySafe`,
`EmptyIsWhole` and `StatsExact`, and `Spec => AllocatorSpec`. `NoWrap` says that no request comes
so near to 2^32 that aligning it or adding the header wraps around, save
products that `calloc` refuses; without it a size near 2^32 gets a block without
room (`findings`, line 86).
What `BlocksTile` says of neighbours would not be inductive without its last
conjunct, that blocks in the list do not overlap: it makes the neighbour of a
neighbour a third block, so that a merge of three touches no other.
`CallsApart` keeps two calls of realloc from working on one block. Releasing is
proved once (`ReleaseStep`, over an arbitrary set of blocks merged) and cited
for free and realloc, as is the search's beginning (`SearchStep`).
`Implementation` maps `FindTake` to `Obtain`, `Free` and `ReallocFree` to
`Release`, `ReallocKeep` to `Resize`, the rest to stuttering.
`StatsExact` is invariant given `IInv`: taking a block adds its size, after the
split, to the sum over the used blocks, and releasing one subtracts its own size,
whatever it is merged with. That needs the equation for a sum over a finite set.
The library states none for `MapThenSumSet`, and its induction theorems cannot be
instantiated, so the lemmas argue by the smallest counterexample instead:
`SumsExist` (the recursive function behind the sum exists), `TotalStep` (it obeys
its equation), `TotalFacts` (it is an integer and depends on the summands only)
and `TotalWithout` (any element can be taken out, not only the chosen one).

`IpcTasksProofs` is the common part of the four proofs that follow. Rings and
lists share two links, so that what an operator does to one list must be shown to
leave all others alone, and there is no induction over a list. Therefore order is
expressed without sequences: `Placed(m, R, W, P, rank)` says that in the lists
`m` exactly the tasks of `R` are in the ready rings of their priorities `P`, that
every other task `t` is in the list of `W[t]` or in none, and that `rank`, a
number for each task, grows along each list and along each ring up to its head.
Linking a task at an end gives it a rank beyond that end; unlinking changes no
rank; the rotation of a ring moves the old head's rank beyond the tail. Each
operator has a lemma about `Linked`, which is `Placed` for some rank
(`LeavesRing`, `EntersRing`, `EntersQueue`, `LeavesQueue`, `RingTurns`, ...).
`KernelLinks` goes from ranks back to the sequences of `LinksSound`: the tasks of
a list, sorted by rank, are the sequence it asks for. `KernelInv` adds to the
links that a task is BLOCKed exactly while it waits, that the delta queue is
sorted and holds only tasks that wait (`TasksSound`), that a task that waits is in
the middle of a call (`CallsSound`), and that a task in its own code is the one
the scheduler would choose unless a switch is pending or a call of
`flyos_scheduler()` still to come (`CpuSound`). One lemma for each kernel
operation and handler shows that it keeps `KernelInv`.

`SemaphoreProofs`, assuming `SliceAlone`: `Spec => []IInv`, from it `TypeOK`,
`LinksSound`, `TokensConserved` and `PromptSwitch`, and `Spec => SemaphoreSpec`.
Besides `KernelInv` the invariant needs that nobody waits for a semaphore that
has a token (`SemSound`): a time-out would otherwise have to give a token back.

`MessageQueueProofs`, assuming `SliceAlone` and `TimeoutAlone`: `Spec => []IInv`,
from it `TypeOK` and `NobodyStranded`, and `Spec => ChannelSpec`. It begins with
the ring buffer, for every number of slots: storing a message appends it to the
contents (`EnqueueAppends`), taking one takes the oldest and leaves the tail
(`DequeueIsTail`), and both keep the ring sound. The indices stay below twice the
number of slots, where the remainder is one subtraction (`WrappedIs`). A receive
call that takes a message from a full ring and refills it from a waiting sender
is then a `Tail` and an `Append` of what `Channel` stores. `LeavesNothing` and
`LeavesOneOfTwo` say what the code's removal from the wrong queue does: nothing
to the list of the wrong queue as long as the task is alone in its own.

`EventFlagsProofs`, assuming `SliceAlone` and `FlagsApart`: `Spec => []IInv`,
from it `TypeOK`, `LinksSound` and `NoMissedWakeup`, and `Spec => EventSpec`.
`NoMissedWakeup` says nothing while a set is in progress, so the invariant says
what is true there, `NobodyOverlooked`: whoever could go on is still to be looked
at by one of the three loops. It is further along the list that is walked
(`Onward`), or in a list that the middle loop has still to visit, or one of its
flags is still to come. `Indexed` makes the index lead to every waiting task;
serving a task clears only flags and only its own bits, so it makes nobody else's
condition hold and hides nobody. `Onward` is the least set closed under `next`,
and the lemmas about it show that unlinking a task while walking past it leaves
the rest of the walk as it was.

`MutexProofs`, assuming `OneAtATime`, `SliceAlone` and `SleepersKeep`:
`Spec => []IInv`, from it `TypeOK`, `LinksSound`, `Ownership`, `NoInversion` and
`BoostEnds`. The lemmas about `Linked` carry over, `KernelInv` does not:
priorities change, a task may sleep without a wait queue, and an unlock that
wakes nobody does not call the scheduler (`findings`, line 1011), so that
`PromptSwitch` does not hold. `IInv` has the same parts with sleepers among the
blocked tasks (`SleepSound`), and of the running task it says only that it is
READY or about to give up the processor (`Running`). `NoInversion` is not
inductive: after an unlock the next owner must be as urgent as those who still
wait, and this needs that whoever owns nothing has its own priority
(`Unraised`), that restoring the priority of one mutex's owner concerns no other
mutex (`OwnersApart`), and that an owner's call has told it or is about to
(`OwnersKnow`, which is `Ownership` with what it rests on). Under these an owner
waits for nothing, so that the loop of `mutex_priority_inherit_chain`, bounded by
`MAX_DEPTH` as a fold, ends after its first iteration (`ChainEnds`, by the least
counterexample). `Boosts` and `Restores` then say what inheriting and restoring
do to priorities and lists, whether the owner is READY or asleep.
Longer chains need a task that owns one mutex and waits for another. They are
excluded by `OneAtATime` and would break `NoInversion`, as the run
`mutex_nested` shows.

The hypotheses are about which tasks may use an object together, and each of them
excludes one defect of the code (`findings`). The first three concern tasks of
equal priority only.

| Hypothesis | Says | Why the theorems fail without it |
|---|---|---|
| `SliceAlone` | a task whose time slice may run out shares its priority with no other task that may wait in the same wait queue | `flyos_kernel.c` 1166, run `semaphore_slice` |
| `TimeoutAlone` | a task whose calls may time out shares its priority with no other receiver | `flyos_ipc.c` 2495, run `queue_timeout` |
| `FlagsApart` | tasks of one priority wait for different flags | `flyos_ipc.c` 1776 and 2511, run `event_lost` |
| `OneAtATime` | a task owns one mutex at a time | `flyos_ipc.c` 818, run `mutex_nested` |
| `SleepersKeep` | a task that may sleep while it owns a mutex is the only one that deletes mutexes, or nobody is more urgent | `flyos_ipc.c` 818-821 and 880: the deletion puts the sleeping owner into a ready list |

The configurations of the passing runs satisfy them. `SliceAlone` is a strong one:
`flyos_kernel.c` 651 gives every task a time slice unless its
configuration asks for none and `FLYOS_TIME_SLICE_TICKS` is 0, so that by default `Sliced` is the set of all
tasks, and the theorems speak of systems in which tasks that wait for the same
object differ in priority; with `FLYOS_TIME_SLICE_TICKS` 0, of equals too.

`TokensNeverStrand`, `FifoNeverStrands` and `EventsNeverStrand` say what the
three abstract specifications are worth: under them no task ever waits for what
is there, for any number of tasks, tokens, messages and flags.

Only checked by TLC: `RoundRobin`, `DelayEnds` and `WaitEnds`, because liveness
under fairness is beyond the provers at hand. Of
the delay queue, `DelayPlace` of `FlyosKernel` gives the place the code's search
ends at; the search itself is the subject of `DeltaQueue` and its proofs.

## The plan

Done: all components that carry the kernel's logic, with their runs; the proofs
of the delta queue, the kernel, the heap, the semaphore, the message queue and
mailbox, and the event flags, each with the refinement of its abstract
specification where it has one, and of the mutexes' invariants.

What is left, in this order:

1. `flyos_task_delay_until` with ticks modulo 2^w.
2. The scheduler lock together with IPC calls and interrupts.

## Not modelled

`flyos_task_delay_until`: `FlyosKernel` counts no absolute ticks. What it does
with a tick count that wraps around is among the `findings` (line 881).

Register saving, stack frames, SVC start-up, FPU (no state that scheduling
depends on); stack checks and `verify_task_integrity` (memory contents);
monitors (read only, or empty); names, versions and getters; the difference
between the two ports, whose logic is the same. What the IPC modules leave out is listed above.
