-------------------------- MODULE SemaphoreProofs ---------------------------
(***************************************************************************)
(* The semaphore of flyos_ipc.c with any number of tasks, priorities,      *)
(* tokens and time-outs: its links stay sound, no token is lost or comes   *)
(* from nowhere, a switch that is due is requested, and the semaphore      *)
(* implements CountingSemaphore.                                           *)
(***************************************************************************)
EXTENDS Semaphore, IpcTasksProofs

-----------------------------------------------------------------------------
(* The inductive invariant                                                 *)

\* A task whose time slice may run out shares its priority with no other task
\* that waits for the semaphore.  Without this the theorems do not hold: the
\* end of the slice of a task that has just blocked would put the list of its
\* wait queue in the place of a ready ring (MCSemaphoreSlice.cfg).
SliceAlone ==
    \A t \in Sliced \cap Calls["wait"] : \A u \in Calls["wait"] \ {t} :
        Priority[u] # Priority[t]

SemTyped ==
    /\ alive   \in BOOLEAN
    /\ count   \in 0..MAX_COUNT
    /\ max     \in 0..MAX_COUNT
    /\ balance \in Int

\* Nobody waits for a semaphore that has a token or that does not exist, except
\* while flyos_semaphore_delete is waking those who do.
SemSound ==
    /\ count <= max
    /\ alive => inside = NULL
    /\ \A t \in Thread : object[t] # NULL =>
          t \in Calls["wait"] /\ (alive => count = 0) /\ (alive \/ inside # NULL)

IInv ==
    /\ KernelInv
    /\ SemTyped
    /\ SemSound
    /\ TokensConserved

\* The tasks that wait.
Waiters == {t \in Task : object[t] # NULL}

\* The facts that most steps start from.
LEMMA Basics ==
    ASSUME IInv
    PROVE  /\ KernelTypeOK /\ ListsSound /\ TasksSound /\ CallsSound /\ CpuSound
           /\ Queue = {"wait"} /\ "wait" # NULL
           /\ NULL \notin Thread /\ Task \subseteq Thread /\ IsFiniteSet(Task)
           /\ Idle \in Thread /\ Idle \notin Task
           /\ \A t \in Thread : object[t] # NULL => object[t] = "wait" /\ t \in Task
           /\ MAX_COUNT \in Nat /\ count \in Nat /\ max \in Nat /\ balance \in Int
           /\ alive \in BOOLEAN
           /\ IsFiniteSet(Granted) /\ Cardinality(Granted) \in Nat
<1>1. Granted \in SUBSET Task
  BY DEF Granted
<1>2. IsFiniteSet(Granted) /\ Cardinality(Granted) \in Nat
  BY <1>1, IpcAssumption, FS_Subset, FS_CardinalityType
<1>. QED
  BY <1>2, IpcAssumption, SemaphoreAssumption
     DEF IInv, KernelInv, KernelTypeOK, CallsSound, SemTyped, Thread

\* The hypothesis about slices in terms of the state.
LEMMA SlicesAreApart ==
    ASSUME SliceAlone, IInv
    PROVE  SlicesApart
<1>1. SUFFICES ASSUME NEW t \in Sliced, NEW u \in Thread \ {t},
                      object[t] # NULL, object[u] = object[t]
               PROVE  prio[u] # prio[t]
  BY DEF SlicesApart
<1>2. t \in Thread
  BY IpcAssumption
<1>3. t \in Calls["wait"] /\ u \in Calls["wait"]
  BY <1>1, <1>2 DEF IInv, SemSound
<1>4. prio[t] = Priority[t] /\ prio[u] = Priority[u]
  BY <1>1, <1>2, Basics DEF TasksSound
<1>. QED
  BY <1>1, <1>3, <1>4 DEF SliceAlone

\* What a step that moves tasks between waiting and holding a token does to the
\* number of tokens.
LEMMA TokensMove ==
    ASSUME IInv, NEW t,
           \/ Granted' = Granted /\ balance' = balance
           \/ t \notin Granted /\ Granted' = Granted \cup {t} /\ balance' = balance + 1
           \/ t \in Granted /\ Granted' = Granted \ {t} /\ balance' = balance - 1,
           (IF alive' THEN count' ELSE 0) = (IF alive THEN count ELSE 0)
    PROVE  TokensConserved'
<1> DEFINE n == Cardinality(Granted)
           v == IF alive THEN count ELSE 0
<1>1. balance = v + n
  BY DEF IInv, TokensConserved
<1>2. n \in Nat /\ v \in Nat /\ IsFiniteSet(Granted)
  BY Basics
<1>3. /\ Cardinality(Granted \cup {t}) = IF t \in Granted THEN n ELSE n + 1
      /\ Cardinality(Granted \ {t}) = IF t \in Granted THEN n - 1 ELSE n
  BY <1>2, FS_AddElement, FS_RemoveElement
<1> DEFINE w == IF alive' THEN count' ELSE 0
           k == Cardinality(Granted')
<1>4. w = v
  OBVIOUS
<1>5. balance' = v + k
  <2> HIDE DEF v
  <2>. QED
    BY <1>1, <1>2, <1>3
<1>. QED
  BY <1>4, <1>5 DEF TokensConserved

-----------------------------------------------------------------------------
(* Every action keeps the invariant                                        *)

\* A step that leaves kernel, waiting tasks and tokens alone.
LEMMA SameHolders ==
    ASSUME UNCHANGED <<state, object, err, pc>>
    PROVE  Waiters' = Waiters /\ Granted' = Granted
BY DEF Waiters, Granted

\* flyos_semaphore_create
LEMMA Creating ==
    ASSUME IInv, NEW c \in Task, NEW init \in 0..MAX_COUNT, NEW limit \in 1..MAX_COUNT,
           Create(c, init, limit)
    PROVE  IInv' /\ Waiters = {} /\ Waiters' = Waiters /\ Granted' = Granted
<1>1. /\ Runs(c) /\ pc[c] = "user" /\ ~alive /\ init <= limit /\ alive' = TRUE
      /\ count' = init /\ max' = limit /\ balance' = balance + init
      /\ lists' = WaitInit(lists, "wait")
      /\ UNCHANGED <<state, prio, object, err, dq, left, current, pend, isr, inside, pc>>
  BY DEF Create, MayCall, cpuVars
<1>2. /\ KernelTypeOK /\ ListsSound /\ TasksSound /\ CallsSound /\ CpuSound
      /\ Queue = {"wait"} /\ "wait" # NULL /\ MAX_COUNT \in Nat /\ balance \in Int
      /\ Cardinality(Granted) \in Nat
  BY Basics
<1>3. inside = NULL
  BY <1>1 DEF Runs
<1>4. \A t \in Thread : object[t] = NULL
  BY <1>1, <1>3 DEF IInv, SemSound
<1>5. Waiters' = Waiters /\ Granted' = Granted /\ Waiters = {}
  <2>1. Waiters = {}
    BY <1>4 DEF Waiters, Thread
  <2>. QED
    BY <1>1, <2>1, SameHolders
<1>6. ReadyTasks' = ReadyTasks
  BY <1>1 DEF ReadyTasks
<1>7. Linked(lists', ReadyTasks, object, prio)
  <2>1. "wait" \in Queue /\ \A t \in Thread : object[t] # "wait"
    BY <1>2, <1>4
  <2>. QED
    BY <1>1, <1>2, <2>1, NewQueue DEF ListsSound
<1>8. ListsSound' /\ lists' \in Lists
  BY <1>1, <1>6, <1>7 DEF ListsSound, Linked, Placed
<1>9. NextTask(lists') = NextTask(lists)
  <2>1. lists \in Lists
    BY <1>2 DEF KernelTypeOK
  <2>2. WaitInit(lists, "wait").ready = lists.ready /\ WaitInit(lists, "wait").bits = lists.bits
    BY <2>1 DEF WaitInit, Lists
  <2>. QED
    BY <1>1, <2>2 DEF NextTask
<1>10. TasksSound' /\ CallsSound' /\ CpuSound'
  BY <1>1, <1>2, <1>9 DEF TasksSound, CallsSound, CpuSound
<1>11. KernelInv'
  BY <1>1, <1>2, <1>8, <1>10 DEF KernelInv, KernelTypeOK
<1>12. SemTyped' /\ SemSound'
  BY <1>1, <1>2, <1>3, <1>4 DEF SemTyped, SemSound
<1>13. TokensConserved'
  BY <1>1, <1>2, <1>5 DEF IInv, TokensConserved
<1>. QED
  BY <1>5, <1>11, <1>12, <1>13 DEF IInv

\* sem_wait_common with a token at hand.
LEMMA Taking ==
    ASSUME IInv, NEW c \in Task, WaitTake(c)
    PROVE  IInv' /\ Waiters' = Waiters /\ Granted' = Granted
<1>1. /\ alive /\ count > 0 /\ count' = count - 1 /\ balance' = balance - 1
      /\ alive' = alive /\ max' = max /\ UNCHANGED kernelVars
      /\ UNCHANGED <<state, object, err, pc, inside>>
  BY DEF WaitTake, kernelVars, taskVars, cpuVars
<1>2. /\ MAX_COUNT \in Nat /\ balance \in Int /\ Cardinality(Granted) \in Nat
      /\ count \in Nat /\ max \in Nat
  BY Basics
<1>3. Waiters' = Waiters /\ Granted' = Granted
  BY <1>1, SameHolders
<1>4. KernelInv'
  BY <1>1, SameKernel DEF IInv
<1>5. SemTyped' /\ SemSound'
  BY <1>1, <1>2 DEF IInv, SemTyped, SemSound
<1>6. TokensConserved'
  BY <1>1, <1>2, <1>3 DEF IInv, TokensConserved
<1>. QED
  BY <1>3, <1>4, <1>5, <1>6 DEF IInv

\* sem_wait_common blocks.
LEMMA Blocking ==
    ASSUME IInv, NEW c \in Task, NEW timeout \in Timeouts, WaitBlock(c, timeout)
    PROVE  /\ IInv' /\ Granted' = Granted /\ Waiters' = Waiters \cup {c}
           /\ c \notin Waiters /\ c \notin Granted /\ alive /\ count = 0
           /\ UNCHANGED <<alive, count, max>>
<1>1. /\ Runs(c) /\ pc[c] = "user" /\ c \in Calls["wait"] /\ alive /\ count = 0
      /\ BlockOn(c, "wait", timeout) /\ pc' = [pc EXCEPT ![c] = "wait"]
      /\ UNCHANGED <<current, pend, isr, inside, alive, count, max, balance>>
      /\ state' = [state EXCEPT ![c] = "BLOCK"]
      /\ object' = [object EXCEPT ![c] = "wait"]
      /\ err' = [err EXCEPT ![c] = "OK"]
  BY DEF WaitBlock, MayCall, Goto, cpuVars, semVars, BlockOn, Block
<1>2. /\ KernelTypeOK /\ CallsSound /\ CpuSound
      /\ Queue = {"wait"} /\ "wait" # NULL /\ Task \subseteq Thread
      /\ Idle \notin Task
  BY Basics
<1>3. /\ c = current /\ c \in Thread /\ isr = "none" /\ inside = NULL
      /\ state[c] = "READY" /\ object[c] = NULL
  BY <1>1, RunningTask DEF IInv
<1>4. timeout \in Nat \ {0}
  BY SemaphoreAssumption DEF NO_WAIT
<1>5. TasksTyped' /\ ListsSound' /\ TasksSound'
  BY <1>1, <1>2, <1>3, <1>4, Blocks DEF IInv
<1>6. /\ \A t \in Thread : t # c => /\ pc'[t] = pc[t] /\ state'[t] = state[t]
                                    /\ object'[t] = object[t] /\ err'[t] = err[t]
      /\ pc'[c] = "wait" /\ state'[c] = "BLOCK" /\ object'[c] = "wait"
  BY <1>1, <1>2, <1>3 DEF KernelTypeOK
<1>7. Granted' = Granted /\ c \notin Granted
  BY <1>1, <1>2, <1>6 DEF Granted
<1>8. Waiters' = Waiters \cup {c} /\ c \notin Waiters
  BY <1>2, <1>3, <1>6 DEF Waiters
<1>9. CallsSound'
  BY <1>2, <1>6 DEF CallsSound, Thread
<1>10. CpuSound'
  BY <1>1, <1>3, <1>6 DEF CpuSound
<1>11. KernelInv'
  BY <1>1, <1>2, <1>5, <1>9, <1>10 DEF KernelInv, KernelTypeOK, TasksTyped
<1>12. SemTyped' /\ SemSound'
  BY <1>1, <1>3, <1>6 DEF IInv, SemTyped, SemSound
<1>13. TokensConserved'
  BY <1>1, <1>7 DEF IInv, TokensConserved
<1>. QED
  BY <1>1, <1>7, <1>8, <1>11, <1>12, <1>13 DEF IInv

\* A wait that has blocked returns.  It brings a token back exactly when the
\* task had been handed one.
LEMMA Returning ==
    ASSUME IInv, NEW c \in Task, WaitReturn(c)
    PROVE  /\ IInv' /\ Waiters' = Waiters
           /\ \/ Granted' = Granted
              \/ c \in Granted /\ Granted' = Granted \ {c}
           /\ UNCHANGED <<alive, count, max>>
<1>1. /\ Runs(c) /\ pc[c] = "return" /\ pc' = [pc EXCEPT ![c] = "user"]
      /\ balance' = IF err[c] = "OK" THEN balance - 1 ELSE balance
      /\ UNCHANGED taskVars
      /\ UNCHANGED <<current, pend, isr, inside, alive, count, max>>
      /\ UNCHANGED <<lists, state, object, err>>
  BY DEF WaitReturn, Goto, cpuVars, taskVars
<1>2. /\ KernelTypeOK /\ CallsSound /\ CpuSound /\ Task \subseteq Thread
      /\ balance \in Int
  BY Basics
<1>3. /\ c = current /\ c \in Thread /\ c # Idle /\ isr = "none" /\ inside = NULL
      /\ state[c] = "READY" /\ object[c] = NULL
  BY <1>1, RunningTask DEF IInv
<1>4. /\ \A t \in Thread : t # c => pc'[t] = pc[t]
      /\ pc'[c] = "user"
  BY <1>1, <1>2, <1>3 DEF KernelTypeOK
<1>5. Waiters' = Waiters
  BY <1>1 DEF Waiters
<1>6. IF err[c] = "OK" THEN c \in Granted /\ Granted' = Granted \ {c}
      ELSE Granted' = Granted
  BY <1>1, <1>2, <1>3, <1>4 DEF Granted
<1>7. TasksTyped' /\ ListsSound' /\ TasksSound'
  BY <1>1, SameTasks DEF IInv
<1>8. CallsSound'
  BY <1>1, <1>2, <1>3, <1>4 DEF CallsSound
<1>9. CpuSound'
  BY <1>1, <1>2, <1>3, <1>4 DEF CpuSound
<1>10. KernelInv'
  BY <1>1, <1>2, <1>7, <1>8, <1>9 DEF KernelInv, KernelTypeOK, TasksTyped
<1>11. SemTyped' /\ SemSound'
  BY <1>1, <1>2 DEF IInv, SemTyped, SemSound
<1>12. TokensConserved'
  BY <1>1, <1>6, TokensMove
<1>. QED
  BY <1>1, <1>5, <1>6, <1>10, <1>11, <1>12 DEF IInv

\* A task that waits is woken with the result e.
LEMMA WakingOne ==
    ASSUME IInv, NEW t \in Thread, object[t] # NULL,
           NEW e \in {"OK", "TIMEOUT", "ERROR"},
           state' = [state EXCEPT ![t] = "READY"],
           object' = [object EXCEPT ![t] = NULL], err' = [err EXCEPT ![t] = e],
           pc' \in [Thread -> {"user", "schedule", "wait", "return", "finish", "section"}],
           \A u \in Thread : \/ pc'[u] = pc[u]
                             \/ u # Idle /\ pc[u] = "user" /\ pc'[u] = "schedule"
    PROVE  /\ t \in Waiters /\ t \notin Granted /\ Waiters' = Waiters \ {t}
           /\ Granted' = IF e = "OK" THEN Granted \cup {t} ELSE Granted
           /\ \A u \in Thread : object'[u] # NULL => object[u] # NULL
           /\ CallsSound'
<1>1. /\ KernelTypeOK /\ TasksSound /\ CallsSound /\ Task \subseteq Thread
      /\ t \in Task /\ Idle \notin Task /\ Idle \in Thread
  BY Basics
<1>2. /\ pc[t] \in {"wait", "return"} /\ state[t] = "BLOCK"
      /\ pc'[t] = pc[t]
  BY <1>1 DEF CallsSound, TasksSound
<1>3. /\ \A u \in Thread : u # t => /\ state'[u] = state[u] /\ object'[u] = object[u]
                                    /\ err'[u] = err[u]
      /\ state'[t] = "READY" /\ object'[t] = NULL /\ err'[t] = e
  BY <1>1 DEF KernelTypeOK
<1>4. \A u \in Thread : pc'[u] \in {"wait", "return"} <=> pc[u] \in {"wait", "return"}
  OBVIOUS
<1>5. t \in Waiters /\ t \notin Granted /\ Waiters' = Waiters \ {t}
  BY <1>1, <1>2, <1>3 DEF Waiters, Granted
<1>6. Granted' = IF e = "OK" THEN Granted \cup {t} ELSE Granted
  <2>1. \A u \in Task \ {t} : u \in Granted' <=> u \in Granted
    BY <1>1, <1>3, <1>4 DEF Granted
  <2>2. t \in Granted' <=> e = "OK"
    BY <1>1, <1>2, <1>3 DEF Granted
  <2>3. Granted \subseteq Task /\ Granted' \subseteq Task
    BY DEF Granted
  <2>. QED
    BY <1>1, <1>5, <2>1, <2>2, <2>3
<1>7. pc'[Idle] = "user"
  BY <1>1 DEF CallsSound
<1>8. CallsSound'
  BY <1>1, <1>3, <1>4, <1>7 DEF CallsSound
<1>. QED
  BY <1>3, <1>5, <1>6, <1>8

\* What a signal does to tokens and waiting tasks.
Posted ==
    \/ \E t \in Waiters :
          /\ \A u \in Waiters : Priority[t] <= Priority[u]
          /\ Waiters' = Waiters \ {t} /\ Granted' = Granted \cup {t}
          /\ UNCHANGED count
    \/ /\ Waiters = {} /\ count < max /\ count' = count + 1
       /\ Waiters' = Waiters /\ Granted' = Granted
    \/ UNCHANGED <<Waiters, Granted, count>>

\* The critical section of sem_signal_common.
LEMMA Posting ==
    ASSUME IInv, Post, alive, alive' = alive, max' = max, isr' = isr, inside' = inside,
           pc' \in [Thread -> {"user", "schedule", "wait", "return", "finish", "section"}],
           \A u \in Thread : \/ pc'[u] = pc[u]
                             \/ u # Idle /\ pc[u] = "user" /\ pc'[u] = "schedule"
    PROVE  /\ TasksTyped' /\ ListsSound' /\ TasksSound' /\ CallsSound'
           /\ SemTyped' /\ SemSound' /\ TokensConserved'
           /\ ~HandedOn => UNCHANGED lists
           /\ Posted
<1>1. /\ KernelTypeOK /\ ListsSound /\ TasksSound /\ CallsSound
      /\ Queue = {"wait"} /\ "wait" # NULL /\ NULL \notin Thread
      /\ Task \subseteq Thread /\ Idle \in Thread /\ Idle \notin Task
      /\ \A t \in Thread : object[t] # NULL => object[t] = "wait" /\ t \in Task
      /\ MAX_COUNT \in Nat /\ count \in Nat /\ max \in Nat /\ balance \in Int
      /\ Cardinality(Granted) \in Nat
  BY Basics
<1>2. /\ HasWaiter("wait") <=> \E t \in Thread : object[t] = "wait"
      /\ HasWaiter("wait") => HighestWaiter("wait") \in Thread
  BY <1>1, WaiterFacts DEF ListsSound
<1>3. HandedOn <=> \E t \in Thread : object[t] # NULL
  BY <1>1, <1>2 DEF HandedOn
<1>4. CASE HandedOn
  <2> DEFINE t == HighestWaiter("wait")
  <2>1. WakeHighest("wait", "OK") /\ balance' = balance + 1 /\ count' = count
    BY <1>4 DEF Post
  <2>2. /\ t \in Thread /\ object[t] = "wait"
        /\ \A u \in Thread : object[u] = "wait" => prio[t] <= prio[u]
        /\ TasksTyped' /\ ListsSound' /\ TasksSound'
        /\ state' = [state EXCEPT ![t] = "READY"]
        /\ object' = [object EXCEPT ![t] = NULL]
        /\ err' = [err EXCEPT ![t] = "OK"]
    <3>1. KernelInv /\ HasWaiter("wait") /\ "wait" \in Queue
      BY <1>1, <1>4 DEF IInv, HandedOn
    <3>. QED
      BY <2>1, <3>1, WakesHighest
  <2> HIDE DEF t
  <2>3. /\ t \in Waiters /\ t \notin Granted /\ Waiters' = Waiters \ {t}
        /\ Granted' = Granted \cup {t}
        /\ \A u \in Thread : object'[u] # NULL => object[u] # NULL
        /\ CallsSound'
    BY <1>1, <2>2, WakingOne
  <2>4. \A u \in Waiters : Priority[t] <= Priority[u]
    <3>1. \A u \in Waiters : u \in Task /\ u \in Thread /\ object[u] = "wait"
      BY <1>1 DEF Waiters
    <3>2. \A u \in Task : prio[u] = Priority[u]
      BY <1>1 DEF TasksSound
    <3>. QED
      BY <2>2, <2>3, <3>1, <3>2
  <2>5. SemTyped' /\ SemSound'
    BY <1>1, <2>1, <2>3 DEF IInv, SemTyped, SemSound
  <2>6. TokensConserved'
    BY <2>1, <2>3, TokensMove
  <2>. QED
    BY <1>4, <2>1, <2>2, <2>3, <2>4, <2>5, <2>6 DEF Posted
<1>5. CASE ~HandedOn
  <2>1. /\ count' = IF count < max THEN count + 1 ELSE count
        /\ balance' = balance + (count' - count)
        /\ UNCHANGED taskVars /\ UNCHANGED <<lists, state, object, err>>
    BY <1>5 DEF Post, taskVars
  <2>2. \A t \in Thread : object[t] = NULL
    BY <1>3, <1>5
  <2>3. Waiters = {} /\ Waiters' = {}
    BY <1>1, <2>1, <2>2 DEF Waiters
  <2>4. Granted' = Granted
    BY <1>1, <2>1 DEF Granted
  <2>5. TasksTyped' /\ ListsSound' /\ TasksSound'
    BY <2>1, SameTasks DEF IInv
  <2>6. CallsSound'
    BY <1>1, <2>1, <2>2 DEF CallsSound
  <2>7. SemTyped' /\ SemSound'
    BY <1>1, <2>1, <2>2 DEF IInv, SemTyped, SemSound
  <2>8. TokensConserved'
    BY <1>1, <2>1, <2>4 DEF IInv, TokensConserved
  <2>. QED
    BY <1>5, <2>1, <2>3, <2>4, <2>5, <2>6, <2>7, <2>8 DEF Posted
<1>. QED
  BY <1>4, <1>5

\* flyos_semaphore_signal
LEMMA Signalling ==
    ASSUME IInv, NEW c \in Task, Signal(c)
    PROVE  IInv' /\ Posted /\ alive /\ UNCHANGED <<alive, max>>
<1>1. /\ Runs(c) /\ pc[c] = "user" /\ alive /\ Post
      /\ pc' = [pc EXCEPT ![c] = IF HandedOn THEN "schedule" ELSE "user"]
      /\ UNCHANGED <<current, pend, isr, inside, alive, max>>
  BY DEF Signal, MayCall, Goto, cpuVars
<1>2. /\ KernelTypeOK /\ CpuSound /\ Task \subseteq Thread
  BY Basics
<1>3. c = current /\ c \in Thread /\ c # Idle /\ isr = "none" /\ inside = NULL
  BY <1>1, RunningTask DEF IInv
<1>4. /\ pc' \in [Thread -> {"user", "schedule", "wait", "return", "finish", "section"}]
      /\ \A u \in Thread : \/ pc'[u] = pc[u]
                           \/ u # Idle /\ pc[u] = "user" /\ pc'[u] = "schedule"
      /\ HandedOn => pc'[c] = "schedule"
      /\ ~HandedOn => pc'[c] = "user"
  BY <1>1, <1>2, <1>3 DEF KernelTypeOK
<1>5. /\ TasksTyped' /\ ListsSound' /\ TasksSound' /\ CallsSound'
      /\ SemTyped' /\ SemSound' /\ TokensConserved'
      /\ ~HandedOn => UNCHANGED lists
      /\ Posted
  BY <1>1, <1>4, Posting
<1>6. CpuSound'
  <2>1. CASE HandedOn
    BY <1>1, <1>3, <1>4, <2>1 DEF CpuSound
  <2>2. CASE ~HandedOn
    BY <1>1, <1>2, <1>3, <1>4, <1>5, <2>2 DEF CpuSound
  <2>. QED
    BY <2>1, <2>2
<1>7. KernelInv'
  BY <1>1, <1>2, <1>4, <1>5, <1>6 DEF KernelInv, KernelTypeOK, TasksTyped
<1>. QED
  BY <1>1, <1>5, <1>7 DEF IInv

\* flyos_semaphore_signal_from_isr
LEMMA SignallingFromIsr ==
    ASSUME IInv, SignalFromIsr
    PROVE  IInv' /\ Posted /\ alive /\ UNCHANGED <<alive, max>>
<1>1. /\ inside = NULL /\ alive /\ Post /\ pend' = (pend \/ HandedOn)
      /\ UNCHANGED <<current, isr, inside, pc, alive, max>>
  BY DEF SignalFromIsr, Interrupts
<1>2. KernelTypeOK /\ CpuSound
  BY Basics
<1>3. /\ pc' \in [Thread -> {"user", "schedule", "wait", "return", "finish", "section"}]
      /\ \A u \in Thread : \/ pc'[u] = pc[u]
                           \/ u # Idle /\ pc[u] = "user" /\ pc'[u] = "schedule"
  BY <1>1, <1>2 DEF KernelTypeOK
<1>4. /\ TasksTyped' /\ ListsSound' /\ TasksSound' /\ CallsSound'
      /\ SemTyped' /\ SemSound' /\ TokensConserved'
      /\ ~HandedOn => UNCHANGED lists
      /\ Posted
  BY <1>1, <1>3, Posting
<1>5. pend' \in BOOLEAN
  <2>1. pend \in BOOLEAN /\ HandedOn \in BOOLEAN
    BY <1>2 DEF KernelTypeOK, HandedOn, HasWaiter
  <2>. QED
    BY <1>1, <2>1, Zenon
<1>6. CpuSound'
  <2>1. CASE HandedOn
    BY <1>1, <2>1 DEF CpuSound
  <2>2. CASE ~HandedOn
    BY <1>1, <1>2, <1>4, <2>2 DEF CpuSound
  <2>. QED
    BY <2>1, <2>2
<1>7. KernelInv'
  BY <1>1, <1>2, <1>4, <1>5, <1>6 DEF KernelInv, KernelTypeOK, TasksTyped
<1>. QED
  BY <1>1, <1>4, <1>7 DEF IInv

\* flyos_semaphore_delete enters its critical section.
LEMMA DeletingBegins ==
    ASSUME IInv, NEW c \in Task, DeleteBegin(c)
    PROVE  /\ IInv' /\ Waiters' = Waiters /\ Granted' = Granted
           /\ alive /\ ~alive' /\ UNCHANGED max
<1>1. /\ Runs(c) /\ pc[c] = "user" /\ alive /\ alive' = FALSE
      /\ balance' = balance - count /\ inside' = c /\ pc' = [pc EXCEPT ![c] = "section"]
      /\ UNCHANGED taskVars /\ UNCHANGED <<lists, state, object, err>>
      /\ UNCHANGED <<current, pend, isr, count, max>>
  BY DEF DeleteBegin, MayCall, Goto, taskVars
<1>2. /\ KernelTypeOK /\ CallsSound /\ CpuSound /\ Task \subseteq Thread
      /\ balance \in Int /\ count \in Nat /\ NULL \notin Thread
      /\ Cardinality(Granted) \in Nat
  BY Basics
<1>3. /\ c = current /\ c \in Thread /\ c # Idle /\ isr = "none" /\ ~pend
      /\ state[c] = "READY" /\ object[c] = NULL
  BY <1>1, RunningTask DEF IInv
<1>4. /\ \A t \in Thread : t # c => pc'[t] = pc[t]
      /\ pc'[c] = "section"
  BY <1>1, <1>2, <1>3 DEF KernelTypeOK
<1>5. Waiters' = Waiters /\ Granted' = Granted
  BY <1>1, <1>2, <1>4 DEF Waiters, Granted
<1>6. TasksTyped' /\ ListsSound' /\ TasksSound'
  BY <1>1, SameTasks DEF IInv
<1>7. CallsSound'
  BY <1>1, <1>2, <1>3, <1>4 DEF CallsSound
<1>8. CpuSound'
  BY <1>1, <1>2, <1>3, <1>4 DEF CpuSound
<1>9. KernelInv'
  BY <1>1, <1>2, <1>3, <1>6, <1>7, <1>8 DEF KernelInv, KernelTypeOK, TasksTyped, Link
<1>10. SemTyped' /\ SemSound'
  <2>1. balance - count \in Int
    BY <1>2
  <2>2. SemTyped'
    BY <1>1, <2>1 DEF IInv, SemTyped
  <2>3. inside' # NULL
    BY <1>1, <1>2, <1>3
  <2>. QED
    BY <1>1, <2>2, <2>3 DEF IInv, SemSound
<1>11. TokensConserved'
  <2>1. balance = count + Cardinality(Granted)
    BY <1>1 DEF IInv, TokensConserved
  <2>2. balance' = Cardinality(Granted)
    BY <1>1, <1>2, <2>1
  <2>. QED
    BY <1>1, <1>2, <1>5, <2>2 DEF TokensConserved
<1>. QED
  BY <1>1, <1>5, <1>9, <1>10, <1>11 DEF IInv

\* One iteration of its loop.
LEMMA DeletingWakes ==
    ASSUME IInv, NEW c \in Task, DeleteWake(c)
    PROVE  /\ IInv' /\ Granted' = Granted /\ UNCHANGED <<alive, count, max>>
           /\ \E t \in Waiters : Waiters' = Waiters \ {t}
<1> DEFINE t == HighestWaiter("wait")
<1>1. /\ inside = c /\ HasWaiter("wait") /\ WakeHighest("wait", "ERROR")
      /\ UNCHANGED <<current, pend, isr, inside, pc, alive, count, max, balance>>
  BY DEF DeleteWake, cpuVars, semVars
<1>2. /\ KernelTypeOK /\ CpuSound /\ Queue = {"wait"} /\ "wait" # NULL
      /\ Task \subseteq Thread /\ NULL \notin Thread
  BY Basics
<1>3. /\ t \in Thread /\ object[t] = "wait"
      /\ TasksTyped' /\ ListsSound' /\ TasksSound'
      /\ state' = [state EXCEPT ![t] = "READY"]
      /\ object' = [object EXCEPT ![t] = NULL]
      /\ err' = [err EXCEPT ![t] = "ERROR"]
  <2>1. KernelInv /\ "wait" \in Queue
    BY <1>2 DEF IInv
  <2>. QED
    BY <1>1, <2>1, WakesHighest
<1> HIDE DEF t
<1>4. /\ pc' \in [Thread -> {"user", "schedule", "wait", "return", "finish", "section"}]
      /\ \A u \in Thread : pc'[u] = pc[u]
  BY <1>1, <1>2 DEF KernelTypeOK
<1>5. /\ t \in Waiters /\ Waiters' = Waiters \ {t} /\ Granted' = Granted
      /\ \A u \in Thread : object'[u] # NULL => object[u] # NULL
      /\ CallsSound'
  BY <1>2, <1>3, <1>4, WakingOne
<1>6. CpuSound'
  BY <1>1, <1>2 DEF CpuSound
<1>7. KernelInv'
  BY <1>1, <1>2, <1>3, <1>5, <1>6 DEF KernelInv, KernelTypeOK, TasksTyped
<1>8. SemTyped' /\ SemSound'
  BY <1>1, <1>5 DEF IInv, SemTyped, SemSound
<1>9. TokensConserved'
  BY <1>1, <1>5, TokensMove
<1>. QED
  BY <1>1, <1>5, <1>7, <1>8, <1>9 DEF IInv

\* Nobody waits any more: it leaves the section.
LEMMA DeletingEnds ==
    ASSUME IInv, NEW c \in Task, DeleteEnd(c)
    PROVE  /\ IInv' /\ Waiters' = Waiters /\ Granted' = Granted
           /\ UNCHANGED <<alive, count, max>>
<1>1. /\ inside = c /\ ~HasWaiter("wait") /\ inside' = NULL
      /\ pc' = [pc EXCEPT ![c] = "schedule"]
      /\ UNCHANGED taskVars /\ UNCHANGED <<lists, state, object, err>>
      /\ UNCHANGED <<current, pend, isr, alive, count, max, balance>>
  BY DEF DeleteEnd, Goto, semVars, taskVars
<1>2. /\ KernelTypeOK /\ ListsSound /\ TasksSound /\ CallsSound /\ CpuSound
      /\ Queue = {"wait"} /\ Task \subseteq Thread /\ Idle \notin Task
      /\ NULL \notin Thread
      /\ \A t \in Thread : object[t] # NULL => object[t] = "wait" /\ t \in Task
  BY Basics
<1>3. /\ c = current /\ c \in Thread /\ isr = "none" /\ pc[c] = "section" /\ ~alive
  BY <1>1, <1>2 DEF CpuSound, IInv, SemSound
<1>4. \A t \in Thread : object[t] = NULL
  <2>1. ~\E t \in Thread : object[t] = "wait"
    BY <1>1, <1>2, WaiterFacts DEF ListsSound
  <2>. QED
    BY <1>2, <2>1
<1>5. /\ \A t \in Thread : t # c => pc'[t] = pc[t]
      /\ pc'[c] = "schedule"
  BY <1>1, <1>2, <1>3 DEF KernelTypeOK
<1>6. Waiters' = Waiters /\ Granted' = Granted
  BY <1>1, <1>2, <1>3, <1>5 DEF Waiters, Granted
<1>7. TasksTyped' /\ ListsSound' /\ TasksSound'
  BY <1>1, SameTasks DEF IInv
<1>8. CallsSound'
  <2>1. pc'[Idle] = "user"
    BY <1>2, <1>5 DEF CallsSound, Thread
  <2>. QED
    BY <1>1, <1>4, <2>1 DEF CallsSound
<1>9. CpuSound'
  BY <1>1, <1>3, <1>5 DEF CpuSound
<1>10. KernelInv'
  BY <1>1, <1>2, <1>7, <1>8, <1>9 DEF KernelInv, KernelTypeOK, TasksTyped, Link
<1>11. SemTyped' /\ SemSound'
  BY <1>1, <1>3, <1>4 DEF IInv, SemTyped, SemSound
<1>12. TokensConserved'
  BY <1>1, <1>6, TokensMove
<1>. QED
  BY <1>1, <1>6, <1>10, <1>11, <1>12 DEF IInv

\* A wait times out.
LEMMA Expiring ==
    ASSUME IInv, Expire
    PROVE  /\ IInv' /\ Granted' = Granted /\ UNCHANGED <<alive, count, max>>
           /\ \E t \in Waiters : Waiters' = Waiters \ {t}
<1> DEFINE t == Head(dq)
<1>1. /\ isr = "deal" /\ Due
      /\ MakeReady(t, WaitRemove(lists, "wait", t, prio[t]), "TIMEOUT")
      /\ UNCHANGED <<current, pend, isr, inside, pc, alive, count, max, balance>>
  BY DEF Expire, cpuVars, semVars
<1>2. /\ KernelTypeOK /\ TasksSound /\ CpuSound /\ Queue = {"wait"} /\ "wait" # NULL
      /\ \A u \in Thread : object[u] # NULL => object[u] = "wait" /\ u \in Task
  BY Basics
<1>3. t \in Thread /\ object[t] = "wait"
  <2>1. dq # <<>> /\ dq \in Seq(Thread)
    BY <1>1, <1>2 DEF Due, KernelTypeOK
  <2>2. t = dq[1] /\ 1 \in 1..Len(dq)
    BY <2>1, HeadTailProperties, ListFacts
  <2>3. t \in ToSet(dq) /\ t \in Thread
    BY <2>1, <2>2, ListFacts
  <2>. QED
    BY <1>2, <2>3 DEF TasksSound
<1> HIDE DEF t
<1>4. /\ TasksTyped' /\ ListsSound' /\ TasksSound'
      /\ state' = [state EXCEPT ![t] = "READY"]
      /\ object' = [object EXCEPT ![t] = NULL]
      /\ err' = [err EXCEPT ![t] = "TIMEOUT"]
  <2>1. KernelInv /\ "wait" \in Queue
    BY <1>2 DEF IInv
  <2>. QED
    BY <1>1, <1>3, <2>1, Wakes
<1>5. /\ pc' \in [Thread -> {"user", "schedule", "wait", "return", "finish", "section"}]
      /\ \A u \in Thread : pc'[u] = pc[u]
  BY <1>1, <1>2 DEF KernelTypeOK
<1>6. /\ t \in Waiters /\ Waiters' = Waiters \ {t} /\ Granted' = Granted
      /\ \A u \in Thread : object'[u] # NULL => object[u] # NULL
      /\ CallsSound'
  BY <1>2, <1>3, <1>4, <1>5, WakingOne
<1>7. CpuSound'
  BY <1>1, <1>2 DEF CpuSound
<1>8. KernelInv'
  BY <1>1, <1>2, <1>4, <1>6, <1>7 DEF KernelInv, KernelTypeOK, TasksTyped
<1>9. SemTyped' /\ SemSound'
  BY <1>1, <1>6 DEF IInv, SemTyped, SemSound
<1>10. TokensConserved'
  BY <1>1, <1>6, TokensMove
<1>. QED
  BY <1>1, <1>6, <1>8, <1>9, <1>10 DEF IInv

\* The call of the scheduler, and the handlers of SysTick and PendSV.
LEMMA Scheduling ==
    ASSUME SliceAlone, IInv,
           \/ \E c \in Task : CallScheduler(c)
           \/ Handler,
           UNCHANGED semVars
    PROVE  /\ IInv' /\ Waiters' = Waiters /\ Granted' = Granted
           /\ UNCHANGED <<alive, count, max>>
<1>1. /\ UNCHANGED <<alive, count, max, balance>>
      /\ KernelTypeOK /\ Task \subseteq Thread
  BY Basics DEF semVars
<1>2. /\ KernelInv' /\ Waiters' = Waiters /\ Granted' = Granted
      /\ object' = object /\ (inside # NULL => inside' # NULL)
      /\ (inside = NULL => inside' = NULL)
  <2>1. ASSUME NEW c \in Task, CallScheduler(c)
        PROVE  /\ KernelInv' /\ Waiters' = Waiters /\ Granted' = Granted
               /\ object' = object /\ inside' = inside
    <3>1. KernelInv'
      BY <2>1, CallsScheduler DEF IInv
    <3>2. /\ \/ pc[c] = "schedule" /\ pc' = [pc EXCEPT ![c] = "user"]
             \/ pc[c] = "wait" /\ pc' = [pc EXCEPT ![c] = "return"]
          /\ UNCHANGED <<state, object, err, inside>>
      BY <2>1 DEF CallScheduler, Goto, taskVars
    <3>3. /\ \A u \in Thread : u # c => pc'[u] = pc[u]
          /\ pc'[c] \in {"wait", "return"} <=> pc[c] \in {"wait", "return"}
      BY <1>1, <3>2 DEF KernelTypeOK
    <3>4. \A u \in Task : pc'[u] \in {"wait", "return"} <=> pc[u] \in {"wait", "return"}
      BY <1>1, <3>3
    <3>5. Granted' = Granted
      BY <3>2, <3>4 DEF Granted
    <3>. QED
      BY <3>1, <3>2, <3>5 DEF Waiters
  <2>2. CASE Handler
    <3>1. KernelInv' /\ UNCHANGED <<state, prio, object, err, pc>>
      BY <2>2, SlicesAreApart, HandlersKeep DEF IInv
    <3>2. inside' = inside
      BY <2>2 DEF Handler, SysTick, SysTickSlice, SysTickEnd, ContextSwitch
    <3>. QED
      BY <3>1, <3>2, SameHolders
  <2>. QED
    BY <2>1, <2>2
<1>3. SemTyped' /\ SemSound'
  BY <1>1, <1>2 DEF IInv, SemTyped, SemSound
<1>4. TokensConserved'
  BY <1>1, <1>2, TokensMove
<1>. QED
  BY <1>1, <1>2, <1>3, <1>4 DEF IInv


-----------------------------------------------------------------------------
(* The theorems                                                            *)

\* No call has been made and no token exists when the kernel starts.
LEMMA Starting ==
    ASSUME Init
    PROVE  IInv /\ Waiters = {} /\ Granted = {}
<1>1. KernelInv
  BY KernelStarts DEF Init
<1>2. /\ object = [t \in Thread |-> NULL] /\ pc = [t \in Thread |-> "user"]
      /\ inside = NULL /\ ~alive /\ alive \in BOOLEAN /\ count = 0 /\ max = 0 /\ balance = 0
  BY DEF Init, KernelInit
<1>3. Waiters = {} /\ Granted = {}
  BY <1>2 DEF Waiters, Granted, Thread
<1>4. Cardinality(Granted) = 0
  BY <1>3, FS_EmptySet
<1>5. SemTyped /\ SemSound
  BY <1>2, SemaphoreAssumption DEF SemTyped, SemSound
<1>6. TokensConserved
  BY <1>2, <1>4 DEF TokensConserved
<1>. QED
  BY <1>1, <1>3, <1>5, <1>6 DEF IInv

\* Every step keeps the invariant and does to the tokens and to the tasks that
\* wait for them what CountingSemaphore allows.
LEMMA Stepping ==
    ASSUME SliceAlone, IInv, [Next]_vars
    PROVE  IInv' /\ [Abstract!Next]_(Abstract!vars)
<1>1. /\ count \in Nat /\ max \in Nat /\ MAX_COUNT \in Nat /\ alive \in BOOLEAN
      /\ Waiters = {t \in Task : object[t] # NULL}
      /\ Waiters' = {t \in Task : object'[t] # NULL}
  BY Basics DEF Waiters
<1>2. ASSUME UNCHANGED <<alive, count, max>>, Waiters' = Waiters, Granted' = Granted
      PROVE  UNCHANGED Abstract!vars
  BY <1>1, <1>2 DEF Abstract!vars
<1>3. ASSUME UNCHANGED <<alive, count, max>>, Granted' = Granted,
             \E t \in Waiters : Waiters' = Waiters \ {t}
      PROVE  Abstract!GiveUp
  BY <1>1, <1>3 DEF Abstract!GiveUp
<1>4. ASSUME alive, UNCHANGED <<alive, max>>, Posted
      PROVE  [Abstract!Next]_(Abstract!vars)
  <2>1. CASE \E t \in Waiters :
                /\ \A u \in Waiters : Priority[t] <= Priority[u]
                /\ Waiters' = Waiters \ {t} /\ Granted' = Granted \cup {t}
                /\ UNCHANGED count
    BY <1>1, <1>4, <2>1 DEF Abstract!Next, Abstract!Grant
  <2>2. CASE /\ Waiters = {} /\ count < max /\ count' = count + 1
             /\ Waiters' = Waiters /\ Granted' = Granted
    BY <1>1, <1>4, <2>2 DEF Abstract!Next, Abstract!Store
  <2>3. CASE UNCHANGED <<Waiters, Granted, count>>
    BY <1>2, <1>4, <2>3
  <2>. QED
    BY <1>4, <2>1, <2>2, <2>3 DEF Posted
<1>5. ASSUME NEW c \in Task, Call(c)
      PROVE  IInv' /\ [Abstract!Next]_(Abstract!vars)
  <2>1. ASSUME NEW limit \in 1..MAX_COUNT, NEW init \in 0..limit, Create(c, init, limit)
        PROVE  IInv' /\ Abstract!Open
    <3>1. init \in 0..MAX_COUNT
      BY <1>1
    <3>2. IInv' /\ Waiters = {} /\ Waiters' = Waiters /\ Granted' = Granted
      BY <2>1, <3>1, Creating
    <3>3. ~alive /\ alive' = TRUE /\ count' = init /\ max' = limit
      BY <2>1 DEF Create
    <3>4. limit \in Nat \ {0} /\ init \in 0..limit
      BY <1>1
    <3>. QED
      BY <1>1, <3>2, <3>3, <3>4 DEF Abstract!Open
  <2>2. CASE WaitTake(c)
    <3>1. IInv' /\ Waiters' = Waiters /\ Granted' = Granted
      BY <2>2, Taking
    <3>2. alive /\ count > 0 /\ count' = count - 1 /\ UNCHANGED <<alive, max>>
      BY <2>2 DEF WaitTake
    <3>. QED
      BY <1>1, <3>1, <3>2 DEF Abstract!Next, Abstract!Take
  <2>3. ASSUME NEW timeout \in Timeouts, WaitBlock(c, timeout)
        PROVE  IInv' /\ Abstract!Join
    <3>1. /\ IInv' /\ Granted' = Granted /\ Waiters' = Waiters \cup {c}
          /\ c \notin Waiters /\ c \notin Granted /\ alive /\ count = 0
          /\ UNCHANGED <<alive, count, max>>
      BY <2>3, Blocking
    <3>. QED
      BY <1>1, <3>1 DEF Abstract!Join
  <2>4. CASE Signal(c)
    BY <1>4, <2>4, Signalling
  <2>5. CASE DeleteBegin(c)
    <3>1. /\ IInv' /\ Waiters' = Waiters /\ Granted' = Granted
          /\ ~alive' /\ UNCHANGED max
      BY <2>5, DeletingBegins
    <3>. QED
      BY <1>1, <3>1 DEF Abstract!Next, Abstract!Close
  <2>. QED
    BY <1>5, <2>1, <2>2, <2>3, <2>4, <2>5 DEF Call, Abstract!Next
<1>6. ASSUME NEW c \in Task, Continue(c)
      PROVE  IInv' /\ [Abstract!Next]_(Abstract!vars)
  <2>1. CASE CallScheduler(c) /\ UNCHANGED semVars
    BY <1>2, <2>1, Scheduling
  <2>2. CASE WaitReturn(c)
    <3>1. /\ IInv' /\ Waiters' = Waiters
          /\ \/ Granted' = Granted
             \/ c \in Granted /\ Granted' = Granted \ {c}
          /\ UNCHANGED <<alive, count, max>>
      BY <2>2, Returning
    <3>2. CASE Granted' = Granted
      BY <1>2, <3>1, <3>2
    <3>3. CASE c \in Granted /\ Granted' = Granted \ {c}
      BY <1>1, <3>1, <3>3 DEF Abstract!Next, Abstract!Collect
    <3>. QED
      BY <3>1, <3>2, <3>3
  <2>3. CASE DeleteWake(c)
    BY <1>3, <2>3, DeletingWakes DEF Abstract!Next
  <2>4. CASE DeleteEnd(c)
    BY <1>2, <2>4, DeletingEnds
  <2>. QED
    BY <1>6, <2>1, <2>2, <2>3, <2>4 DEF Continue
<1>7. CASE SignalFromIsr
  BY <1>4, <1>7, SignallingFromIsr
<1>8. CASE Expire
  BY <1>3, <1>8, Expiring DEF Abstract!Next
<1>9. CASE Handler /\ UNCHANGED semVars
  BY <1>2, <1>9, Scheduling
<1>10. CASE UNCHANGED vars
  <2>1. /\ UNCHANGED kernelVars /\ UNCHANGED <<state, object, err, pc, inside>>
        /\ UNCHANGED <<alive, count, max, balance>>
    BY <1>10 DEF vars, semVars, kernelVars, taskVars, cpuVars
  <2>2. Waiters' = Waiters /\ Granted' = Granted
    BY <2>1, SameHolders
  <2>3. KernelInv'
    BY <2>1, SameKernel DEF IInv
  <2>4. SemTyped' /\ SemSound' /\ TokensConserved'
    BY <2>1, <2>2 DEF IInv, SemTyped, SemSound, TokensConserved
  <2>. QED
    BY <1>2, <2>1, <2>2, <2>3, <2>4 DEF IInv
<1>. QED
  BY <1>5, <1>6, <1>7, <1>8, <1>9, <1>10 DEF Next

\* The invariant that the theorems rest on.
THEOREM Invariance == ASSUME SliceAlone PROVE Spec => []IInv
<1>1. Init => IInv
  BY Starting
<1>2. IInv /\ [Next]_vars => IInv'
  BY Stepping
<1>. QED
  BY <1>1, <1>2, PTL DEF Spec

\* Every variable has its type; the count of a semaphore is no more than MAX_COUNT.
THEOREM TypesCorrect == ASSUME SliceAlone PROVE Spec => []TypeOK
<1>1. IInv => TypeOK
  BY DEF IInv, KernelInv, SemTyped, TypeOK
<1>. QED
  BY <1>1, Invariance, PTL

\* A task is linked into the ready ring of its priority, or into the list of the
\* queue it waits in, and the bitmaps agree (flyos_ipc.c 52-250, flyos_kernel.c
\* 355-480), whatever waits, signals, time-outs and deletions come in between.
THEOREM LinksStaySound == ASSUME SliceAlone PROVE Spec => []LinksSound
<1>1. IInv => LinksSound
  BY KernelLinks DEF IInv
<1>. QED
  BY <1>1, Invariance, PTL

\* No token is lost or comes from nowhere (flyos_ipc.c 451-571).
THEOREM TokensStayConserved == ASSUME SliceAlone PROVE Spec => []TokensConserved
<1>1. IInv => TokensConserved
  BY DEF IInv
<1>. QED
  BY <1>1, Invariance, PTL

\* Whoever wakes a more urgent task also asks for the switch.
THEOREM SwitchesArePrompt == ASSUME SliceAlone PROVE Spec => []PromptSwitch
<1>1. IInv => PromptSwitch
  BY KernelPrompt DEF IInv
<1>. QED
  BY <1>1, Invariance, PTL

\* The semaphore keeps the promise of flyos_ipc.h 200-290: it implements
\* CountingSemaphore.
THEOREM SemaphoreImplements == ASSUME SliceAlone PROVE Spec => SemaphoreSpec
<1>1. Init => Abstract!Init
  <2>1. SUFFICES ASSUME Init PROVE Abstract!Init
    OBVIOUS
  <2>2. Waiters = {} /\ Granted = {}
    BY <2>1, Starting
  <2>. QED
    BY <2>1, <2>2 DEF Init, Abstract!Init, Waiters
<1>2. IInv /\ [Next]_vars => [Abstract!Next]_(Abstract!vars)
  BY Stepping
<1>. QED
  BY <1>1, <1>2, Invariance, PTL DEF Spec, SemaphoreSpec, Abstract!Spec

-----------------------------------------------------------------------------
(* What the promise is worth                                               *)

\* The tokens that CountingSemaphore sees.
Value == IF alive THEN count ELSE 0

\* There are no more tokens than the limit, and while there is one nobody waits.
TokensServe ==
    /\ Value \in Nat
    /\ max \in Nat
    /\ Value <= max
    /\ Waiters # {} => Value = 0

\* Whatever implements CountingSemaphore keeps no task waiting for a semaphore
\* that has a token, and no semaphore holds too many: the promise of flyos_ipc.h
\* 227.
THEOREM TokensNeverStrand == SemaphoreSpec => []TokensServe
<1>1. Abstract!Init => TokensServe
  BY DEF Abstract!Init, TokensServe, Value, Waiters
<1>2. TokensServe /\ [Abstract!Next]_(Abstract!vars) => TokensServe'
  <2>. SUFFICES ASSUME TokensServe, [Abstract!Next]_(Abstract!vars)
                PROVE  TokensServe'
    OBVIOUS
  <2>. USE DEF TokensServe, Value, Waiters
  <2>1. CASE Abstract!Open
    BY <2>1 DEF Abstract!Open
  <2>2. CASE Abstract!Close
    BY <2>2 DEF Abstract!Close
  <2>3. CASE Abstract!Take
    BY <2>3 DEF Abstract!Take
  <2>4. CASE Abstract!Join
    BY <2>4 DEF Abstract!Join
  <2>5. CASE Abstract!Grant
    BY <2>5 DEF Abstract!Grant
  <2>6. CASE Abstract!Store
    BY <2>6 DEF Abstract!Store
  <2>7. CASE Abstract!GiveUp
    BY <2>7 DEF Abstract!GiveUp
  <2>8. CASE Abstract!Collect
    BY <2>8 DEF Abstract!Collect
  <2>9. CASE UNCHANGED Abstract!vars
    BY <2>9 DEF Abstract!vars
  <2>. QED
    BY <2>1, <2>2, <2>3, <2>4, <2>5, <2>6, <2>7, <2>8, <2>9 DEF Abstract!Next
<1>. QED
  BY <1>1, <1>2, PTL DEF SemaphoreSpec, Abstract!Spec
=============================================================================
