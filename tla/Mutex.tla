------------------------------- MODULE Mutex -------------------------------
(***************************************************************************)
(* The mutexes of flyos_ipc.c (719-1013): recursive locks with priority    *)
(* inheritance along the chain of owners, create, lock with and without a  *)
(* time-out, unlock, delete.  A task that owns one may also delay itself.  *)
(*                                                                         *)
(* Each mutex is its own wait queue.  inherited_priority is left out: it   *)
(* is written and never read.  Callers keep to flyos_ipc.h: no call begins *)
(* after a delete has begun.                                               *)
(***************************************************************************)
EXTENDS IpcTasks

CONSTANTS
    MAX_NEST,       \* bound on nest_count
    MAX_HELD,       \* bound on the mutexes that a task owns at a time
    MAX_DEPTH,      \* FLYOS_MAX_INHERIT_DEPTH
    Timeouts        \* the time-outs of locks that may block, and the delays

Mutexes == Queue

ASSUME MutexAssumption ==
    /\ MAX_NEST \in Nat \ {0}
    /\ MAX_HELD \in Nat \ {0}
    /\ MAX_DEPTH \in Nat \ {0}
    /\ Timeouts \subseteq Nat \ {NO_WAIT}

VARIABLES
    alive,      \* the mutexes that exist
    owner,      \* mutex->owner
    nest,       \* mutex->nest_count
    original,   \* mutex->original_priority
    arg,        \* the mutex that a call in progress is about, or NULL
    held        \* history: how often the callers have locked a mutex and not
                \* unlocked it again, as the results of the calls tell them

mutexVars == <<alive, owner, nest, original>>
vars      == <<kernelVars, mutexVars, arg, held>>

TypeOK ==
    /\ KernelTypeOK
    /\ alive    \subseteq Mutexes
    /\ owner    \in [Mutexes -> Task \cup {NULL}]
    /\ nest     \in [Mutexes -> 0..MAX_NEST]
    /\ original \in [Mutexes -> Prio]
    /\ arg      \in [Task -> Mutexes \cup {NULL}]
    /\ held     \in [Mutexes -> [Task -> 0..MAX_NEST]]

-----------------------------------------------------------------------------

Init ==
    /\ KernelInit
    /\ alive    = {}
    /\ owner    = [m \in Mutexes |-> NULL]
    /\ nest     = [m \in Mutexes |-> 0]
    /\ original = [m \in Mutexes |-> 0]
    /\ arg      = [t \in Task |-> NULL]
    /\ held     = [m \in Mutexes |-> [t \in Task |-> 0]]

\* flyos_mutex_create: a new object, which no call in progress is about.
Create(c, m) ==
    /\ MayCall(c, "create")
    /\ m \notin alive
    /\ \A t \in Task : arg[t] # m
    /\ alive'    = alive \cup {m}
    /\ lists'    = WaitInit(lists, m)
    /\ owner'    = [owner    EXCEPT ![m] = NULL]
    /\ nest'     = [nest     EXCEPT ![m] = 0]
    /\ original' = [original EXCEPT ![m] = 0]
    /\ UNCHANGED <<state, prio, object, err, dq, left, cpuVars, pc, arg, held>>

-----------------------------------------------------------------------------
(* Priorities                                                              *)

\* A mutant: the priority changes before the task leaves its ring.
MutantRepositionInPlace(m, t, old, new) ==
    InsertReady(RemoveReady(m, t, new), t, new)

\* The lists after the priority of a READY task has changed: it becomes the
\* tail of the ring of its new priority.
Reposition(m, t, old, new) == InsertReady(RemoveReady(m, t, old), t, new)

\* One iteration of mutex_priority_inherit_chain.  s holds the lists and the
\* priorities so far, and the mutex to look at, NULL when the loop has ended.
\* The check for a cycle behind the comparison of priorities is never reached:
\* an owner that has been visited has the new priority.
Inherit(s, new) ==
    LET o == owner[s.mutex] IN
    IF s.mutex = NULL \/ o = NULL \/ new >= s.prio[o]
    THEN [s EXCEPT !.mutex = NULL]
    ELSE [lists |-> IF state[o] = "READY"
                    THEN Reposition(s.lists, o, s.prio[o], new) ELSE s.lists,
          prio  |-> [s.prio EXCEPT ![o] = new],
          mutex |-> IF state[o] = "BLOCK" THEN object[o] ELSE NULL]

\* mutex_priority_inherit_chain.  Its result is ignored.  The assertion that the
\* chain was not too long (788-791) is left out: with FLYOS_ASSERT switched off
\* the loop just ends after MAX_DEPTH owners.
InheritChain(m, new) ==
    FoldLeft(LAMBDA s, i : Inherit(s, new),
             [lists |-> lists, prio |-> prio, mutex |-> m],
             [i \in 1..MAX_DEPTH |-> i])

\* A mutant of mutex_priority_restore: the boost stays.
MutantKeepsBoost(m) == [lists |-> lists, prio |-> prio]

\* mutex_priority_restore: the lists and the priorities after it.
Restore(m) ==
    LET o == owner[m] IN
    IF o # NULL /\ prio[o] # original[m]
    THEN [lists |-> Reposition(lists, o, prio[o], original[m]),
          prio  |-> [prio EXCEPT ![o] = original[m]]]
    ELSE [lists |-> lists, prio |-> prio]

-----------------------------------------------------------------------------
(* Locking                                                                 *)

\* Callers keep to the bound on what they own at a time.
Held(c)     == {m \in Mutexes : held[m][c] > 0}
MayLock(c, m) ==
    /\ MayCall(c, "lock")
    /\ m \in alive
    /\ Cardinality(Held(c) \cup {m}) <= MAX_HELD

\* A mutant: the nesting is not set.
MutantOwnOnly(t, m, p) ==
    /\ owner'    = [owner    EXCEPT ![m] = t]
    /\ original' = [original EXCEPT ![m] = p]
    /\ UNCHANGED nest

\* t becomes the owner.
Own(t, m, p) ==
    /\ owner'    = [owner    EXCEPT ![m] = t]
    /\ nest'     = [nest     EXCEPT ![m] = 1]
    /\ original' = [original EXCEPT ![m] = p]

\* flyos_mutex_lock: nobody owns the mutex.
LockFree(c, m) ==
    /\ MayLock(c, m)
    /\ owner[m] = NULL
    /\ Own(c, m, prio[c])
    /\ held' = [held EXCEPT ![m][c] = 1]
    /\ UNCHANGED <<kernelVars, alive, arg>>

\* The caller owns it.
LockAgain(c, m) ==
    /\ MayLock(c, m)
    /\ owner[m] = c
    /\ nest[m] < MAX_NEST
    /\ nest' = [nest EXCEPT ![m] = @ + 1]
    /\ held' = [held EXCEPT ![m][c] = @ + 1]
    /\ UNCHANGED <<kernelVars, alive, owner, original, arg>>

\* A mutant: the owner inherits nothing.
MutantNoInheritance(c, m) == [lists |-> lists, prio |-> prio]

\* The owner inherits the caller's priority.
Boost(c, m) ==
    IF prio[c] < prio[owner[m]]
    THEN InheritChain(m, prio[c])
    ELSE [lists |-> lists, prio |-> prio]

\* Another task owns it and the caller waits.  A call that must not wait
\* returns FLYOS_BUSY and changes nothing.
LockBlock(c, m, timeout) ==
    /\ MayLock(c, m)
    /\ owner[m] \notin {NULL, c}
    /\ timeout # NO_WAIT
    /\ Block(c, Boost(c, m).lists, m, timeout)
    /\ prio' = Boost(c, m).prio
    /\ arg'  = [arg EXCEPT ![c] = m]
    /\ Goto(c, "wait")
    /\ UNCHANGED <<cpuVars, mutexVars, held>>

\* A call that has blocked returns the task's error code.
Return(c) ==
    /\ Runs(c)
    /\ pc[c] = "return"
    /\ held' = IF arg[c] \in alive /\ err[c] = "OK"
               THEN [held EXCEPT ![arg[c]][c] = @ + 1] ELSE held
    /\ arg' = [arg EXCEPT ![c] = NULL]
    /\ Goto(c, "user")
    /\ UNCHANGED <<taskVars, cpuVars, mutexVars>>

-----------------------------------------------------------------------------
(* Unlocking                                                               *)

\* A mutant: the nesting is not looked at.
MutantUnlockInner(c, m) ==
    /\ MayCall(c, "unlock")
    /\ m \in alive
    /\ owner[m] = c
    /\ nest' = [nest EXCEPT ![m] = @ - 1]
    /\ held' = [held EXCEPT ![m][c] = @ - 1]
    /\ UNCHANGED <<kernelVars, alive, owner, original, arg>>

\* flyos_mutex_unlock by the owner, not for the last time.  A call by somebody
\* else returns FLYOS_PERMISSION and changes nothing.
UnlockInner(c, m) ==
    /\ MayCall(c, "unlock")
    /\ m \in alive
    /\ owner[m] = c
    /\ nest[m] > 1
    /\ nest' = [nest EXCEPT ![m] = @ - 1]
    /\ held' = [held EXCEPT ![m][c] = @ - 1]
    /\ UNCHANGED <<kernelVars, alive, owner, original, arg>>

\* For the last time: the caller's priority is restored.  The most urgent
\* waiting task becomes the owner, or the mutex is free, and then the scheduler
\* is not called.
Unlock(c, m) ==
    /\ MayCall(c, "unlock")
    /\ m \in alive
    /\ owner[m] = c
    /\ nest[m] = 1
    /\ held' = [held EXCEPT ![m][c] = @ - 1]
    /\ prio' = Restore(m).prio
    /\ IF HasWaiter(m) /\ HighestWaiter(m) # NULL
       THEN LET t == HighestWaiter(m)
                p == Restore(m).prio[t]
            IN  /\ Unblock(t, WaitRemove(Restore(m).lists, m, t, p), "OK", p)
                /\ Own(t, m, p)
                /\ Goto(c, "schedule")
       ELSE /\ lists' = Restore(m).lists
            /\ owner' = [owner EXCEPT ![m] = NULL]
            /\ nest'  = [nest  EXCEPT ![m] = 0]
            /\ UNCHANGED <<state, object, err, dq, left, original, pc>>
    /\ UNCHANGED <<cpuVars, alive, arg>>

-----------------------------------------------------------------------------
(* Deletion, delays and time-outs                                          *)

\* flyos_mutex_delete enters its critical section and restores the owner's
\* priority.
DeleteBegin(c, m) ==
    /\ MayCall(c, "delete")
    /\ m \in alive
    /\ alive'  = alive \ {m}
    /\ prio'   = Restore(m).prio
    /\ lists'  = Restore(m).lists
    /\ owner'  = [owner EXCEPT ![m] = NULL]
    /\ nest'   = [nest  EXCEPT ![m] = 0]
    /\ held'   = [held  EXCEPT ![m] = [t \in Task |-> 0]]
    /\ arg'    = [arg   EXCEPT ![c] = m]
    /\ inside' = c
    /\ Goto(c, "section")
    /\ UNCHANGED <<state, object, err, dq, left, current, pend, isr, original>>

\* One iteration of its loop.
DeleteWake(c) ==
    /\ inside = c
    /\ HasWaiter(arg[c])
    /\ WakeHighest(arg[c], "ERROR")
    /\ UNCHANGED <<cpuVars, pc, mutexVars, arg, held>>

\* It leaves the section, frees the object and goes on to the scheduler.
DeleteEnd(c) ==
    /\ inside = c
    /\ ~HasWaiter(arg[c])
    /\ inside' = NULL
    /\ arg' = [arg EXCEPT ![c] = NULL]
    /\ Goto(c, "schedule")
    /\ UNCHANGED <<taskVars, current, pend, isr, mutexVars, held>>

\* flyos_task_delay: the task sleeps without a wait queue.
Delay(c, ticks) ==
    /\ MayCall(c, "delay")
    /\ lists' = RemoveReady(lists, c, prio[c])
    /\ state' = [state EXCEPT ![c] = "BLOCK"]
    /\ dq'    = InsertAt(dq, DelayPlace(ticks), c)
    /\ left'  = [left EXCEPT ![c] = ticks]
    /\ Goto(c, "wait")
    /\ UNCHANGED <<prio, object, err, cpuVars, mutexVars, arg, held>>

\* delta_queue_wake_task, for the head of the delta queue: the end of a delay,
\* or a time-out.
Expire ==
    LET t == Head(dq) IN
    /\ isr = "deal"
    /\ Due
    /\ \/ object[t] = NULL /\ MakeReady(t, lists, "OK")
       \/ /\ object[t] # NULL
          /\ MakeReady(t, WaitRemove(lists, object[t], t, prio[t]), "TIMEOUT")
    /\ UNCHANGED <<cpuVars, pc, mutexVars, arg, held>>

-----------------------------------------------------------------------------

Call(c) ==
    \/ \E m \in Mutexes :
        \/ Create(c, m)
        \/ LockFree(c, m)
        \/ LockAgain(c, m)
        \/ \E timeout \in Timeouts : LockBlock(c, m, timeout)
        \/ UnlockInner(c, m)
        \/ Unlock(c, m)
        \/ DeleteBegin(c, m)
    \/ \E ticks \in Timeouts \ {WAIT_FOREVER} : Delay(c, ticks)

Continue(c) ==
    \/ CallScheduler(c) /\ UNCHANGED <<mutexVars, arg, held>>
    \/ Return(c)
    \/ DeleteWake(c)
    \/ DeleteEnd(c)

Next ==
    \/ \E c \in Task : Call(c) \/ Continue(c)
    \/ Expire
    \/ Handler /\ UNCHANGED <<mutexVars, arg, held>>

Spec == Init /\ [][Next]_vars

-----------------------------------------------------------------------------
(* Properties                                                              *)

\* A task that has been made the owner and whose call has not yet returned.
Granted(t, m) ==
    arg[t] = m /\ pc[t] \in {"wait", "return"} /\ state[t] = "READY" /\ err[t] = "OK"

\* The owner is the task whose calls say that it has the lock, or are about to
\* say so; it must unlock as often as it has locked.  So no two tasks hold one
\* mutex, and none is owned by a task that does not know (flyos_ipc.h 363: a
\* lock that returns FLYOS_OK has the mutex).
Ownership ==
    \A m \in alive :
        /\ \A t \in Task :
            /\ held[m][t] > 0 => owner[m] = t /\ nest[m] = held[m][t]
            /\ Granted(t, m)  => owner[m] = t /\ nest[m] = 1
        /\ owner[m] # NULL => held[m][owner[m]] > 0 \/ Granted(owner[m], m)

\* No priority inversion: an owner is as urgent as every task that waits for
\* its mutex (flyos_ipc.h 357).
NoInversion ==
    \A m \in alive, t \in Task :
        object[t] = m => owner[m] # NULL /\ prio[owner[m]] <= prio[t]

\* Nobody keeps a priority that is not its own without owning a mutex
\* (flyos_ipc.h 371: unlocking restores the priority).
BoostEnds ==
    \A t \in Task :
        (\A m \in alive : owner[m] # t) => prio[t] = Priority[t]
=============================================================================
