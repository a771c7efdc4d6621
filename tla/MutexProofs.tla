---------------------------- MODULE MutexProofs ------------------------------
(***************************************************************************)
(* Proofs about Mutex, for any number of tasks, priorities and mutexes, as *)
(* long as a task owns one mutex at a time: one task has the lock at a     *)
(* time, its priority is that of the most urgent task that waits for it,   *)
(* and it loses what it has inherited with the lock.                       *)
(***************************************************************************)
EXTENDS Mutex, IpcTasksProofs

\* No task owns two mutexes: restoring a priority looks at one of them only.
OneAtATime == MAX_HELD = 1

\* A task whose time slice may run out shares its priority with no other task
\* that may wait for a mutex.
SliceAlone ==
    \A t \in Sliced \cap Calls["lock"] : \A u \in Calls["lock"] \ {t} :
        Priority[t] # Priority[u]

\* Nobody is more urgent than t, so that t inherits nothing.
Unboosted(t) == \A u \in Calls["lock"] : Priority[t] <= Priority[u]

\* No mutex is deleted while its owner sleeps with an inherited priority.
SleepersKeep ==
    \A t \in Calls["delay"] : Calls["delete"] \subseteq {t} \/ Unboosted(t)

-----------------------------------------------------------------------------
(* The invariant                                                           *)

\* A task is blocked while it waits or sleeps.
SleepSound ==
    /\ \A t \in Thread : state[t] = "BLOCK" <=> object[t] # NULL \/ t \in ToSet(dq)
    /\ GoodQueue(dq, left)
    /\ isr # "deal" => \A t \in ToSet(dq) : left[t] > 0

\* A blocked task is in the middle of a call, which is about the mutex that it
\* waits for.
InCalls ==
    /\ pc[Idle] = "user" /\ state[Idle] = "READY"
    /\ \A t \in Task :
        /\ state[t] = "BLOCK" => pc[t] \in {"wait", "return"}
        /\ arg[t] # NULL      => pc[t] \in {"wait", "return"} \/ inside = t
        /\ object[t] # NULL   => arg[t] = object[t] /\ t \in Calls["lock"]
        /\ state[t] = "BLOCK" /\ object[t] = NULL
                              => arg[t] = NULL /\ t \in Calls["delay"]

\* Only the task that deletes a mutex has a long critical section.  The running
\* task is READY, or about to give up the processor.
Running ==
    /\ inside # NULL => /\ inside = current /\ inside \in Task
                        /\ isr = "none" /\ ~pend /\ pc[inside] = "section"
                        /\ arg[inside] \in Mutexes \ alive
    /\ state[current] = "BLOCK" => pc[current] = "wait" \/ pend

\* Nobody owns a mutex that does not exist, and only the task that deletes it
\* still finds somebody who waits for it.
DeadFree ==
    \A m \in Mutexes \ alive :
        /\ owner[m] = NULL
        /\ \A t \in Thread : object[t] = m => inside # NULL /\ arg[inside] = m

\* An owner waits for nothing, and either its calls have told it that it owns the
\* mutex or its call is about to.
OwnersKnow ==
    \A m \in Mutexes, t \in Task :
        /\ owner[m] = t => /\ m \in alive /\ object[t] = NULL
                           /\ original[m] = Priority[t]
                           /\ \/ held[m][t] = nest[m] /\ nest[m] > 0 /\ arg[t] # m
                              \/ held[m][t] = 0 /\ nest[m] = 1 /\ Granted(t, m)
        /\ owner[m] # t => held[m][t] = 0 /\ ~(m \in alive /\ Granted(t, m))

\* A task owns one mutex at most.
OwnersApart ==
    \A m, n \in Mutexes : owner[m] = owner[n] /\ owner[m] # NULL => m = n

\* Whoever owns nothing has the priority it was created with, and so has a task
\* that is among the most urgent ones.
Unraised ==
    /\ prio[Idle] = IDLE_PRIORITY
    /\ \A t \in Task :
          (\A m \in Mutexes : owner[m] # t) \/ Unboosted(t) => prio[t] = Priority[t]

IInv ==
    /\ TypeOK
    /\ ListsSound
    /\ SleepSound
    /\ InCalls
    /\ Running
    /\ DeadFree
    /\ OwnersKnow
    /\ OwnersApart
    /\ Unraised
    /\ NoInversion

-----------------------------------------------------------------------------
(* Priorities and lists                                                    *)

\* The priority of a task that is in no list matters to no list.
LEMMA PriorityFree ==
    ASSUME NEW m, NEW R, NEW W, NEW P, Linked(m, R, W, P),
           NEW t \in Thread \ R, W[t] = NULL, NEW p \in Prio
    PROVE  Linked(m, R, W, [P EXCEPT ![t] = p])
<1> DEFINE Q == [P EXCEPT ![t] = p]
<1>1. PICK rank : Placed(m, R, W, P, rank)
  BY DEF Linked
<1>2. /\ R \subseteq Thread /\ P \in [Thread -> Prio]
      /\ Rings(m.next, m.prev, m.ready, R, P, rank)
      /\ Lines(m.next, m.prev, m.wait, W, P, rank)
      /\ NULL \notin Thread /\ NULL \notin Queue
      /\ m.next \in [Thread -> Link] /\ m.prev \in [Thread -> Link]
      /\ m.ready \in [Prio -> Link] /\ m.wait \in [Queue -> [Prio -> Link]]
  BY <1>1, PlacedMeans
<1>3. /\ Q \in [Thread -> Prio]
      /\ \A u \in Thread : u # t => Q[u] = P[u]
      /\ \A u \in R : Q[u] = P[u]
      /\ \A u \in Thread : W[u] # NULL => Q[u] = P[u]
  BY <1>2
<1> HIDE DEF Q
<1>4. Rings(m.next, m.prev, m.ready, R, Q, rank)
  BY <1>2, <1>3 DEF Rings
<1>5. Lines(m.next, m.prev, m.wait, W, Q, rank)
  <2>1. \A x \in Link : x # NULL => x \in Thread
    BY DEF Link
  <2>2. ASSUME NEW u \in Thread, W[u] # NULL
        PROVE  /\ m.next[u] # NULL => /\ W[m.next[u]] = W[u] /\ Q[m.next[u]] = Q[u]
                                      /\ m.prev[m.next[u]] = u
                                      /\ rank[u] < rank[m.next[u]]
               /\ m.prev[u] # NULL => /\ W[m.prev[u]] = W[u] /\ Q[m.prev[u]] = Q[u]
                                      /\ m.next[m.prev[u]] = u
               /\ m.prev[u] = NULL <=> m.wait[W[u]][Q[u]] = u
               /\ \A v \in Thread : W[v] = W[u] /\ Q[v] = Q[u] =>
                     IF m.next[u] = NULL THEN rank[v] <= rank[u]
                     ELSE rank[v] <= rank[u] \/ rank[m.next[u]] <= rank[v]
    <3>1. m.next[u] \in Link /\ m.prev[u] \in Link
      BY <1>2
    <3>2. m.next[u] # NULL => m.next[u] \in Thread /\ W[m.next[u]] # NULL
      BY <1>2, <2>1, <2>2, <3>1 DEF Lines
    <3>3. m.prev[u] # NULL => m.prev[u] \in Thread /\ W[m.prev[u]] # NULL
      BY <1>2, <2>1, <2>2, <3>1 DEF Lines
    <3>. QED
      BY <1>2, <1>3, <2>2, <3>2, <3>3 DEF Lines
  <2>3. ASSUME NEW q \in Queue, NEW x \in Prio
        PROVE  /\ m.wait[q][x] # NULL => W[m.wait[q][x]] = q /\ Q[m.wait[q][x]] = x
               /\ \A u \in Thread : W[u] = q /\ Q[u] = x =>
                     m.wait[q][x] # NULL /\ rank[m.wait[q][x]] <= rank[u]
    <3>1. m.wait[q][x] \in Link /\ q # NULL
      BY <1>2
    <3>2. m.wait[q][x] # NULL => m.wait[q][x] \in Thread /\ W[m.wait[q][x]] # NULL
      BY <1>2, <2>1, <3>1 DEF Lines
    <3>. QED
      BY <1>2, <1>3, <3>1, <3>2 DEF Lines
  <2>4. \A u, v \in Thread :
            W[u] # NULL /\ W[u] = W[v] /\ Q[u] = Q[v] /\ rank[u] = rank[v] => u = v
    BY <1>2, <1>3 DEF Lines
  <2>. QED
    BY <2>2, <2>3, <2>4 DEF Lines
<1>6. Placed(m, R, W, Q, rank)
  BY <1>1, <1>3, <1>4, <1>5 DEF Placed
<1>. QED
  BY <1>6 DEF Linked, Q

\* mutex_priority_inherit_chain and mutex_priority_restore move a READY task to
\* the ring of its new priority.
LEMMA Moves ==
    ASSUME NEW m, NEW R, NEW W, NEW P, Linked(m, R, W, P), NEW t \in R, NEW p \in Prio
    PROVE  Linked(Reposition(m, t, P[t], p), R, W, [P EXCEPT ![t] = p])
<1> DEFINE out == RemoveReady(m, t, P[t])
           Q   == [P EXCEPT ![t] = p]
<1>1. Linked(out, R \ {t}, W, P)
  BY LeavesRing
<1>2. PICK rank : Placed(m, R, W, P, rank)
  BY DEF Linked
<1>3. t \in Thread /\ W[t] = NULL /\ Q[t] = p
  BY <1>2 DEF Placed
<1> HIDE DEF out
<1>4. Linked(out, R \ {t}, W, Q)
  BY <1>1, <1>3, PriorityFree
<1> HIDE DEF Q
<1>5. Linked(InsertReady(out, t, Q[t]), (R \ {t}) \cup {t}, W, Q)
  BY <1>3, <1>4, EntersRing
<1>6. (R \ {t}) \cup {t} = R
  OBVIOUS
<1>. QED
  BY <1>3, <1>5, <1>6 DEF out, Q, Reposition

\* The walk along the chain ends when an iteration changes nothing.
LEMMA ChainEnds ==
    ASSUME NEW m, NEW p, NEW first, NEW last,
           first = [lists |-> lists, prio |-> prio, mutex |-> m],
           Inherit(first, p) = last, Inherit(last, p) = last
    PROVE  InheritChain(m, p) = last
<1> DEFINE D == 1..MAX_DEPTH
           Step(f, T) == IF T = {} THEN first ELSE Inherit(f[T \ {Max(T)}], p)
           chain == CHOOSE f : f = [T \in SUBSET D |-> Step(f, T)]
           known == [T \in SUBSET D |-> IF T = {} THEN first ELSE last]
<1>1. InheritChain(m, p) = chain[D]
  BY DEF InheritChain, FoldLeft, MapThenFoldSet
<1>2. known = [T \in SUBSET D |-> Step(known, T)]
  OBVIOUS
<1>3. chain = [T \in SUBSET D |-> Step(chain, T)]
  BY <1>2
<1>4. \A T \in SUBSET D : chain[T] = IF T = {} THEN first ELSE Inherit(chain[T \ {Max(T)}], p)
  BY <1>3
<1> HIDE DEF chain, Step, known
<1> DEFINE Bad == {k \in 1..MAX_DEPTH : chain[1..k] # last}
<1>5. Bad = {}
  <2>1. SUFFICES ASSUME Bad # {} PROVE FALSE
    OBVIOUS
  <2>2. PICK k \in Bad : \A i \in Bad : k <= i
    <3>1. Bad \subseteq Nat
      OBVIOUS
    <3> HIDE DEF Bad
    <3>. QED
      BY <2>1, <3>1, Smallest
  <2>3. k \in 1..MAX_DEPTH /\ MAX_DEPTH \in Nat /\ chain[1..k] # last
    BY <2>2, MutexAssumption
  <2>4. 1..k # {} /\ 1..k \in SUBSET D /\ (1..k) \ {k} = 1..(k - 1)
    BY <2>3
  <2>5. Max(1..k) = k
    <3>1. \A x \in 1..k : (\A y \in 1..k : x >= y) <=> x = k
      BY <2>3
    <3>. QED
      BY <2>3, <3>1 DEF Max
  <2>6. chain[1..k] = Inherit(chain[1..(k - 1)], p)
    BY <1>4, <2>4, <2>5
  <2>7. CASE k = 1
    <3>1. 1..(k - 1) = {} /\ {} \in SUBSET D
      BY <2>7
    <3>2. chain[1..(k - 1)] = first
      BY <1>4, <3>1
    <3>. QED
      BY <2>3, <2>6, <3>2
  <2>8. CASE k # 1
    <3>1. k - 1 \in 1..MAX_DEPTH /\ k - 1 < k
      BY <2>3, <2>8
    <3>2. chain[1..(k - 1)] = last
      BY <2>2, <2>3, <3>1
    <3>. QED
      BY <2>3, <2>6, <3>2
  <2>. QED
    BY <2>7, <2>8
<1>6. chain[D] = last
  BY <1>5, MutexAssumption
<1>. QED
  BY <1>1, <1>6

\* What the invariant says of one mutex and its owner.
LEMMA OwnerFacts ==
    ASSUME IInv, NEW m \in Mutexes
    PROVE  /\ m # NULL /\ owner[m] \in Task \cup {NULL}
           /\ owner[m] # NULL => /\ owner[m] \in Task /\ owner[m] \in Thread
                                 /\ object[owner[m]] = NULL /\ m \in alive
                                 /\ original[m] = Priority[owner[m]]
                                 /\ original[m] \in Prio
           /\ prio \in [Thread -> Prio]
           /\ Linked(lists, ReadyTasks, object, prio)
BY IpcAssumption DEF IInv, TypeOK, KernelTypeOK, OwnersKnow, ListsSound, Thread, Mutexes

\* mutex_priority_inherit_chain raises the owner and goes no further, since an
\* owner waits for no other mutex.
LEMMA Boosts ==
    ASSUME IInv, NEW m \in Mutexes, NEW c \in Task, owner[m] \notin {NULL, c},
           NEW o, o = owner[m], NEW b, b = Boost(c, m)
    PROVE  /\ Linked(b.lists, ReadyTasks, object, b.prio)
           /\ b.prio = [prio EXCEPT ![o] = IF prio[c] < prio[o] THEN prio[c] ELSE prio[o]]
<1>1. /\ m # NULL /\ o # NULL /\ o \in Task /\ o \in Thread /\ object[o] = NULL
      /\ prio \in [Thread -> Prio] /\ Linked(lists, ReadyTasks, object, prio)
  BY OwnerFacts
<1>2. c \in Thread /\ prio[c] \in Prio
  BY <1>1 DEF Thread
<1>3. CASE ~(prio[c] < prio[o])
  <2>1. b = [lists |-> lists, prio |-> prio]
    BY <1>3 DEF Boost
  <2>2. prio = [prio EXCEPT ![o] = prio[o]]
    BY <1>1
  <2>. QED
    BY <1>1, <1>3, <2>1, <2>2
<1>4. CASE prio[c] < prio[o]
  <2> DEFINE first == [lists |-> lists, prio |-> prio, mutex |-> m]
             moved == IF state[o] = "READY"
                      THEN Reposition(lists, o, prio[o], prio[c]) ELSE lists
             last  == [lists |-> moved, prio |-> [prio EXCEPT ![o] = prio[c]],
                       mutex |-> NULL]
  <2> HIDE DEF moved
  <2>1. ~(prio[c] >= prio[o])
    BY <1>1, <1>2, <1>4 DEF Prio
  <2>2. Inherit(first, prio[c]) = last
    <3>1. (IF state[o] = "BLOCK" THEN object[o] ELSE NULL) = NULL
      BY <1>1
    <3>. QED
      BY <1>1, <2>1, <3>1 DEF Inherit, moved
  <2>3. Inherit(last, prio[c]) = last
    BY DEF Inherit
  <2> HIDE DEF last
  <2>4. InheritChain(m, prio[c]) = last
    BY <2>2, <2>3, ChainEnds
  <2>5. b.lists = moved /\ b.prio = [prio EXCEPT ![o] = prio[c]]
    BY <1>4, <2>4 DEF Boost, last
  <2>6. Linked(moved, ReadyTasks, object, [prio EXCEPT ![o] = prio[c]])
    <3>1. CASE state[o] = "READY"
      BY <1>1, <1>2, <3>1, Moves DEF ReadyTasks, moved
    <3>2. CASE state[o] # "READY"
      BY <1>1, <1>2, <3>2, PriorityFree DEF ReadyTasks, moved
    <3>. QED
      BY <3>1, <3>2
  <2>. QED
    BY <1>4, <2>5, <2>6
<1>. QED
  BY <1>3, <1>4

\* mutex_priority_restore gives an owner that is READY its own priority.
LEMMA Restores ==
    ASSUME IInv, NEW m \in Mutexes, NEW o, o = owner[m], NEW r, r = Restore(m),
           o # NULL => state[o] = "READY" \/ prio[o] = Priority[o]
    PROVE  /\ Linked(r.lists, ReadyTasks, object, r.prio)
           /\ r.prio \in [Thread -> Prio]
           /\ \A t \in Thread : r.prio[t] = IF t = o THEN Priority[t] ELSE prio[t]
<1>1. /\ o \in Task \cup {NULL}
      /\ o # NULL => /\ o \in Task /\ o \in Thread
                     /\ original[m] = Priority[o] /\ original[m] \in Prio
      /\ prio \in [Thread -> Prio] /\ Linked(lists, ReadyTasks, object, prio)
      /\ NULL \notin Thread
  BY OwnerFacts, IpcAssumption
<1>2. CASE o = NULL \/ prio[o] = original[m]
  BY <1>1, <1>2 DEF Restore
<1>3. CASE o # NULL /\ prio[o] # original[m]
  <2>1. /\ r.lists = Reposition(lists, o, prio[o], original[m])
        /\ r.prio = [prio EXCEPT ![o] = original[m]]
    BY <1>3 DEF Restore
  <2>2. o \in ReadyTasks /\ original[m] \in Prio
    BY <1>1, <1>3 DEF ReadyTasks
  <2>3. Linked(Reposition(lists, o, prio[o], original[m]), ReadyTasks, object,
               [prio EXCEPT ![o] = original[m]])
    BY <1>1, <2>2, Moves
  <2>. QED
    BY <1>1, <1>3, <2>1, <2>3
<1>. QED
  BY <1>2, <1>3

-----------------------------------------------------------------------------
(* Blocking and waking                                                     *)

\* A task that waits with a time-out, or sleeps, enters the delta queue.
LEMMA Armed ==
    ASSUME IInv, isr' = isr, NEW c \in Thread, c \notin ToSet(dq), NEW n \in Nat \ {0},
           dq' = InsertAt(dq, DelayPlace(n), c), left' = [left EXCEPT ![c] = n]
    PROVE  /\ GoodQueue(dq', left') /\ left' \in [Thread -> Nat]
           /\ ToSet(dq') = ToSet(dq) \cup {c}
           /\ isr' # "deal" => \A t \in ToSet(dq') : left'[t] > 0
<1>1. /\ GoodQueue(dq, left) /\ left \in [Thread -> Nat]
      /\ \A t \in ToSet(dq) : t \in Thread
      /\ isr # "deal" => \A t \in ToSet(dq) : left[t] > 0
  BY ToSetMembers DEF IInv, SleepSound, TypeOK, KernelTypeOK
<1>2. n \in Nat /\ n > 0
  OBVIOUS
<1>3. /\ GoodQueue(InsertAt(dq, DelayPlace(n), c), [left EXCEPT ![c] = n])
      /\ ToSet(InsertAt(dq, DelayPlace(n), c)) = ToSet(dq) \cup {c}
  BY <1>1, <1>2, Arming
<1>. QED
  BY <1>1, <1>2, <1>3

\* ipc_block_current_task, once the priorities are P and the lists L.
LEMMA FallsAsleep ==
    ASSUME IInv, isr' = isr, NEW P, prio' = P,
           NEW L, Linked(L, ReadyTasks, object, P),
           NEW c \in Task, state[c] = "READY", P[c] = prio[c],
           NEW q \in Queue, NEW n \in Nat \ {0}, Block(c, L, q, n)
    PROVE  /\ TasksTyped' /\ ListsSound' /\ SleepSound'
           /\ state' = [state EXCEPT ![c] = "BLOCK"]
           /\ object' = [object EXCEPT ![c] = q]
           /\ err' = [err EXCEPT ![c] = "OK"]
           /\ \A t \in ToSet(dq') : t \in ToSet(dq) \cup {c}
<1>1. /\ lists' = WaitInsert(RemoveReady(L, c, P[c]), q, c, P[c])
      /\ state' = [state EXCEPT ![c] = "BLOCK"]
      /\ object' = [object EXCEPT ![c] = q]
      /\ err' = [err EXCEPT ![c] = "OK"]
      /\ \/ dq' = dq /\ left' = left
         \/ dq' = InsertAt(dq, DelayPlace(n), c) /\ left' = [left EXCEPT ![c] = n]
  BY DEF Block
<1>2. /\ KernelTypeOK /\ SleepSound /\ c \in Thread /\ q # NULL
  BY IpcAssumption DEF IInv, TypeOK, Thread
<1>3. object[c] = NULL /\ c \in ReadyTasks /\ c \notin ToSet(dq)
  BY <1>2 DEF SleepSound, ReadyTasks
<1>4. ReadyTasks' = ReadyTasks \ {c}
  BY <1>1, <1>2 DEF ReadyTasks, KernelTypeOK
<1>5. ListsSound'
  <2> DEFINE m == RemoveReady(L, c, P[c])
             S == ReadyTasks \ {c}
  <2>1. Linked(m, S, object, P)
    BY <1>3, LeavesRing
  <2>2. c \in Thread \ S
    BY <1>2
  <2> HIDE DEF m, S
  <2>3. Linked(WaitInsert(m, q, c, P[c]), S, [object EXCEPT ![c] = q], P)
    BY <1>3, <2>1, <2>2, EntersQueue
  <2>. QED
    BY <1>1, <1>4, <2>3 DEF ListsSound, m, S
<1>6. /\ GoodQueue(dq', left') /\ left' \in [Thread -> Nat]
      /\ ToSet(dq') = ToSet(dq) \/ ToSet(dq') = ToSet(dq) \cup {c}
      /\ isr' # "deal" => \A t \in ToSet(dq') : left'[t] > 0
  <2>1. CASE dq' = dq /\ left' = left
    BY <1>2, <2>1 DEF SleepSound, KernelTypeOK
  <2>2. CASE dq' = InsertAt(dq, DelayPlace(n), c) /\ left' = [left EXCEPT ![c] = n]
    BY <1>2, <1>3, <2>2, Armed
  <2>. QED
    BY <1>1, <2>1, <2>2
<1>7. lists' \in Lists /\ P \in [Thread -> Prio]
  BY <1>5 DEF ListsSound, Linked, Placed
<1>8. TasksTyped'
  BY <1>1, <1>2, <1>6, <1>7 DEF TasksTyped, KernelTypeOK, GoodQueue
<1>9. SleepSound'
  <2>1. \A t \in Thread : state'[t] = "BLOCK" <=> object'[t] # NULL \/ t \in ToSet(dq')
    BY <1>1, <1>2, <1>6 DEF SleepSound, KernelTypeOK
  <2>. QED
    BY <1>6, <2>1 DEF SleepSound
<1>. QED
  BY <1>1, <1>5, <1>6, <1>8, <1>9

\* flyos_task_delay
LEMMA Dozes ==
    ASSUME IInv, NEW c \in Task, state[c] = "READY", NEW n \in Nat \ {0}, Delay(c, n)
    PROVE  /\ TasksTyped' /\ ListsSound' /\ SleepSound'
           /\ state' = [state EXCEPT ![c] = "BLOCK"]
<1>1. /\ lists' = RemoveReady(lists, c, prio[c])
      /\ state' = [state EXCEPT ![c] = "BLOCK"]
      /\ dq' = InsertAt(dq, DelayPlace(n), c) /\ left' = [left EXCEPT ![c] = n]
      /\ prio' = prio /\ object' = object /\ err' = err /\ isr' = isr
  BY DEF Delay, cpuVars
<1>2. /\ KernelTypeOK /\ ListsSound /\ SleepSound /\ c \in Thread
  BY DEF IInv, TypeOK, Thread
<1>3. c \in ReadyTasks /\ c \notin ToSet(dq)
  BY <1>2 DEF SleepSound, ReadyTasks
<1>4. ReadyTasks' = ReadyTasks \ {c}
  BY <1>1, <1>2 DEF ReadyTasks, KernelTypeOK
<1>5. ListsSound' /\ lists' \in Lists
  <2>1. Linked(lists', ReadyTasks', object', prio')
    BY <1>1, <1>2, <1>3, <1>4, LeavesRing DEF ListsSound
  <2>. QED
    BY <2>1 DEF ListsSound, Linked, Placed
<1>6. /\ GoodQueue(dq', left') /\ left' \in [Thread -> Nat]
      /\ ToSet(dq') = ToSet(dq) \cup {c}
      /\ isr' # "deal" => \A t \in ToSet(dq') : left'[t] > 0
  BY <1>1, <1>2, <1>3, Armed
<1>7. TasksTyped'
  BY <1>1, <1>2, <1>5, <1>6 DEF TasksTyped, KernelTypeOK, GoodQueue
<1>8. SleepSound'
  <2>1. \A t \in Thread : state'[t] = "BLOCK" <=> object'[t] # NULL \/ t \in ToSet(dq')
    BY <1>1, <1>2, <1>6 DEF SleepSound, KernelTypeOK
  <2>. QED
    BY <1>6, <2>1 DEF SleepSound
<1>. QED
  BY <1>1, <1>5, <1>7, <1>8

\* A task that waits or sleeps becomes READY, once the priorities are P and the
\* lists L.
LEMMA Rouses ==
    ASSUME IInv, isr' = isr, NEW P, prio' = P,
           NEW L, Linked(L, ReadyTasks, object, P),
           NEW t \in Thread, state[t] = "BLOCK", NEW e \in {"OK", "TIMEOUT", "ERROR"},
           NEW m, m = IF object[t] = NULL THEN L ELSE WaitRemove(L, object[t], t, P[t]),
           Unblock(t, m, e, P[t])
    PROVE  /\ TasksTyped' /\ ListsSound' /\ SleepSound'
           /\ state' = [state EXCEPT ![t] = "READY"]
           /\ object' = [object EXCEPT ![t] = NULL]
           /\ err' = [err EXCEPT ![t] = e]
<1>1. /\ lists' = InsertReady(m, t, P[t])
      /\ state' = [state EXCEPT ![t] = "READY"]
      /\ object' = [object EXCEPT ![t] = NULL]
      /\ err' = [err EXCEPT ![t] = e]
      /\ dq' = QueueWithout(t)
      /\ left' = [left EXCEPT ![t] = 0]
  BY DEF Unblock
<1>2. /\ KernelTypeOK /\ SleepSound
  BY DEF IInv, TypeOK
<1>3. t \in Thread \ ReadyTasks
  BY DEF ReadyTasks
<1>4. ReadyTasks' = ReadyTasks \cup {t}
  BY <1>1, <1>2 DEF ReadyTasks, KernelTypeOK
<1>5. ListsSound'
  <2> DEFINE V == [object EXCEPT ![t] = NULL]
  <2>1. Linked(m, ReadyTasks, V, P)
    <3>1. CASE object[t] = NULL
      <4>1. V = object
        BY <1>2, <3>1 DEF KernelTypeOK
      <4>. QED
        BY <3>1, <4>1
    <3>2. CASE object[t] # NULL
      <4>1. object[t] \in Queue
        BY <1>2, <3>2 DEF KernelTypeOK
      <4>. QED
        BY <3>2, <4>1, LeavesQueue
    <3>. QED
      BY <3>1, <3>2
  <2>2. V[t] = NULL
    BY <1>2 DEF KernelTypeOK
  <2> HIDE DEF V
  <2>3. Linked(InsertReady(m, t, P[t]), ReadyTasks \cup {t}, V, P)
    BY <1>3, <2>1, <2>2, EntersRing
  <2>. QED
    BY <1>1, <1>4, <2>3 DEF ListsSound, V
<1>6. /\ GoodQueue(dq', left) /\ left' \in [Thread -> Nat]
      /\ \A u : u \in ToSet(dq') <=> u \in ToSet(dq) /\ u # t
      /\ \A u \in Thread : u # t => left'[u] = left[u]
      /\ \A u \in ToSet(dq) : u \in Thread
  <2>1. GoodQueue(dq, left) /\ left \in [Thread -> Nat] /\ ToSet(dq) \subseteq Thread
    BY <1>2, ToSetMembers DEF SleepSound, KernelTypeOK
  <2>2. /\ GoodQueue(QueueWithout(t), left)
        /\ \A u : u \in ToSet(QueueWithout(t)) <=> u \in ToSet(dq) /\ u # t
    BY <2>1, Waking
  <2>. QED
    BY <1>1, <2>1, <2>2
<1>7. GoodQueue(dq', left')
  <2>1. \A u \in ToSet(dq') : left'[u] = left[u]
    BY <1>6
  <2>. QED
    BY <1>6, <2>1, SameTicks
<1>8. lists' \in Lists /\ P \in [Thread -> Prio]
  BY <1>5 DEF ListsSound, Linked, Placed
<1>9. TasksTyped'
  BY <1>1, <1>2, <1>6, <1>8 DEF TasksTyped, KernelTypeOK, GoodQueue
<1>10. SleepSound'
  <2>1. \A u \in Thread : state'[u] = "BLOCK" <=> object'[u] # NULL \/ u \in ToSet(dq')
    BY <1>1, <1>2, <1>6 DEF SleepSound, KernelTypeOK
  <2>2. isr' # "deal" => \A u \in ToSet(dq') : left'[u] > 0
    BY <1>2, <1>6 DEF SleepSound
  <2>. QED
    BY <1>7, <2>1, <2>2 DEF SleepSound
<1>. QED
  BY <1>1, <1>5, <1>9, <1>10

-----------------------------------------------------------------------------
(* The scheduler and the handlers                                          *)

MutexTyped ==
    /\ alive    \subseteq Mutexes
    /\ owner    \in [Mutexes -> Task \cup {NULL}]
    /\ nest     \in [Mutexes -> 0..MAX_NEST]
    /\ original \in [Mutexes -> Prio]
    /\ arg      \in [Task -> Mutexes \cup {NULL}]
    /\ held     \in [Mutexes -> [Task -> 0..MAX_NEST]]

CpuTyped ==
    /\ current \in Thread
    /\ pend    \in BOOLEAN
    /\ isr     \in {"none", "deal", "schedule"}
    /\ inside  \in Link
    /\ pc      \in [Thread -> {"user", "schedule", "wait", "return", "finish", "section"}]

\* What the invariant says of mutexes, their owners and those who wait.
LocksSound ==
    /\ MutexTyped
    /\ DeadFree
    /\ OwnersKnow
    /\ OwnersApart
    /\ Unraised
    /\ NoInversion

LEMMA InvariantParts ==
    IInv <=> /\ TasksTyped /\ CpuTyped
             /\ ListsSound /\ SleepSound
             /\ InCalls /\ Running
             /\ LocksSound
BY DEF IInv, TypeOK, KernelTypeOK, TasksTyped, CpuTyped, LocksSound, MutexTyped

LEMMA InvariantNext ==
    IInv' <=> /\ TasksTyped' /\ CpuTyped'
              /\ ListsSound' /\ SleepSound'
              /\ InCalls' /\ Running'
              /\ LocksSound'
BY DEF IInv, TypeOK, KernelTypeOK, TasksTyped, CpuTyped, LocksSound, MutexTyped

\* A step that leaves the tasks alone.
LEMMA TasksStay ==
    ASSUME IInv, UNCHANGED taskVars, isr = "deal" => isr' = "deal"
    PROVE  TasksTyped' /\ ListsSound' /\ SleepSound'
<1>1. /\ lists' = lists /\ state' = state /\ prio' = prio /\ object' = object
      /\ err' = err /\ dq' = dq /\ left' = left
  BY DEF taskVars
<1>2. TasksTyped /\ ListsSound /\ SleepSound
  BY InvariantParts
<1>3. ReadyTasks' = ReadyTasks
  BY <1>1 DEF ReadyTasks
<1>4. ListsSound'
  BY <1>1, <1>2, <1>3 DEF ListsSound
<1>5. SleepSound'
  BY <1>1, <1>2 DEF SleepSound
<1>. QED
  BY <1>1, <1>2, <1>4, <1>5 DEF TasksTyped

\* A step that leaves the mutexes alone and wakes nobody.
LEMMA LocksStay ==
    ASSUME IInv, UNCHANGED <<state, prio, object, err, mutexVars, arg, held>>,
           inside = NULL \/ inside' = inside,
           \A t \in Task : pc'[t] \in {"wait", "return"} <=> pc[t] \in {"wait", "return"}
    PROVE  LocksSound'
<1>1. /\ state' = state /\ prio' = prio /\ object' = object /\ err' = err
      /\ alive' = alive /\ owner' = owner /\ nest' = nest /\ original' = original
      /\ arg' = arg /\ held' = held
  BY DEF mutexVars
<1>2. LocksSound
  BY InvariantParts
<1>3. MutexTyped' /\ OwnersApart' /\ Unraised' /\ NoInversion'
  BY <1>1, <1>2 DEF LocksSound, MutexTyped, OwnersApart, Unraised, NoInversion
<1>4. DeadFree'
  BY <1>1, <1>2 DEF LocksSound, DeadFree
<1>5. \A t \in Task : \A m : Granted(t, m)' <=> Granted(t, m)
  BY <1>1 DEF Granted
<1>6. OwnersKnow'
  BY <1>1, <1>2, <1>5 DEF LocksSound, OwnersKnow
<1>. QED
  BY <1>3, <1>4, <1>6 DEF LocksSound

\* A task that executes its call is READY, and its call is about no mutex before
\* it has begun.
LEMMA RunningOwner ==
    ASSUME IInv, NEW c \in Task, Runs(c), pc[c] # "wait"
    PROVE  /\ c = current /\ c \in Thread /\ c # Idle /\ c # NULL
           /\ isr = "none" /\ inside = NULL /\ ~pend
           /\ state[c] = "READY" /\ object[c] = NULL
           /\ pc[c] = "user" => arg[c] = NULL
<1>1. c = current /\ isr = "none" /\ inside = NULL /\ ~pend
  BY DEF Runs
<1>2. c \in Thread /\ c # NULL /\ c # Idle
  BY IpcAssumption DEF Thread
<1>3. state[c] = "READY"
  BY <1>1, <1>2, InvariantParts DEF Running, TasksTyped
<1>4. object[c] = NULL
  BY <1>2, <1>3, InvariantParts DEF SleepSound
<1>5. pc[c] = "user" => arg[c] = NULL
  BY <1>1, <1>2, InvariantParts DEF InCalls
<1>. QED
  BY <1>1, <1>2, <1>3, <1>4, <1>5

\* The scheduler never chooses a task that is blocked.
LEMMA NextReady ==
    ASSUME IInv
    PROVE  /\ NextTask(lists) # NULL => NextTask(lists) \in ReadyTasks
           /\ \A t \in Thread : state[t] = "BLOCK" => NextTask(lists) # t
<1>1. NextTask(lists) # NULL => NextTask(lists) \in ReadyTasks
  BY InvariantParts, NextFacts DEF ListsSound
<1>2. NULL \notin Thread
  BY IpcAssumption
<1>. QED
  BY <1>1, <1>2 DEF ReadyTasks

\* A call ends in flyos_scheduler().
LEMMA CallSchedulerStep ==
    ASSUME IInv, NEW c \in Task, CallScheduler(c), UNCHANGED <<mutexVars, arg, held>>
    PROVE  IInv'
<1>1. /\ current = c /\ isr = "none" /\ inside = NULL /\ ~pend
      /\ \/ pc[c] = "schedule" /\ pc' = [pc EXCEPT ![c] = "user"]
         \/ pc[c] = "wait" /\ pc' = [pc EXCEPT ![c] = "return"]
      /\ pend' = (pend \/ NextTask(lists) # current)
      /\ UNCHANGED taskVars
      /\ current' = current /\ isr' = isr /\ inside' = inside
  BY DEF CallScheduler, Runs, Goto, Reschedule
<1>2. /\ CpuTyped /\ InCalls /\ Running /\ c \in Thread /\ c # Idle
      /\ Idle \in Thread /\ \A t \in Task : t \in Thread
  BY InvariantParts, IpcAssumption DEF Thread
<1>3. TasksTyped' /\ ListsSound' /\ SleepSound'
  BY <1>1, TasksStay
<1>4. state' = state /\ object' = object /\ prio' = prio /\ err' = err /\ arg' = arg
  BY <1>1 DEF taskVars
<1>5. /\ \A t \in Thread : t # c => pc'[t] = pc[t]
      /\ (pc[c] = "schedule" /\ pc'[c] = "user") \/ (pc[c] = "wait" /\ pc'[c] = "return")
      /\ pc' \in [Thread -> {"user", "schedule", "wait", "return", "finish", "section"}]
  BY <1>1, <1>2 DEF CpuTyped
<1>6. LocksSound'
  BY <1>1, <1>2, <1>4, <1>5, LocksStay
<1>7. CpuTyped'
  BY <1>1, <1>2, <1>5 DEF CpuTyped
<1>8. InCalls'
  BY <1>1, <1>2, <1>4, <1>5 DEF InCalls
<1>9. Running'
  BY <1>1, <1>2, <1>4, NextReady DEF Running
<1>. QED
  BY <1>3, <1>6, <1>7, <1>8, <1>9, InvariantNext

\* A tick counts for every task in the delta queue.
LEMMA TickStep ==
    ASSUME IInv, SysTick, UNCHANGED <<mutexVars, arg, held>>
    PROVE  IInv'
<1>1. /\ isr = "none" /\ inside = NULL /\ ~pend /\ isr' = "deal"
      /\ left' = [t \in Thread |-> IF t \in ToSet(dq) THEN left[t] - 1 ELSE left[t]]
      /\ UNCHANGED <<lists, state, prio, object, err, dq, current, pend, inside, pc>>
      /\ alive' = alive /\ arg' = arg
  BY DEF SysTick, Runs, LeftAfterTick, mutexVars
<1>2. /\ TasksTyped /\ ListsSound /\ SleepSound /\ InCalls /\ Running /\ CpuTyped
  BY InvariantParts
<1>3. /\ GoodQueue(dq, left) /\ left \in [Thread -> Nat]
      /\ \A t \in ToSet(dq) : t \in Thread /\ left[t] > 0
  BY <1>1, <1>2, ToSetMembers DEF SleepSound, TasksTyped
<1>4. left' \in [Thread -> Nat] /\ \A t \in ToSet(dq) : left'[t] = left[t] - 1
  BY <1>1, <1>3
<1>5. GoodQueue(dq, left')
  <2>1. \A i \in 1..Len(dq) : dq[i] \in ToSet(dq) /\ left[dq[i]] \in Nat
    BY <1>3, ListFacts DEF GoodQueue
  <2>. QED
    BY <1>3, <1>4, <2>1 DEF GoodQueue
<1>6. SleepSound'
  BY <1>1, <1>2, <1>5 DEF SleepSound
<1>7. ReadyTasks' = ReadyTasks
  BY <1>1 DEF ReadyTasks
<1>8. ListsSound'
  BY <1>1, <1>2, <1>7 DEF ListsSound
<1>9. InCalls' /\ Running' /\ CpuTyped' /\ TasksTyped'
  BY <1>1, <1>2, <1>4 DEF InCalls, Running, CpuTyped, TasksTyped
<1>10. LocksSound'
  BY <1>1, LocksStay
<1>. QED
  BY <1>6, <1>8, <1>9, <1>10, InvariantNext

\* The end of a slice turns a ring, and nothing else: a task that waits has no
\* neighbour, and one that sleeps is in no list.
LEMMA SliceStep ==
    ASSUME IInv, SliceAlone, SysTickSlice, UNCHANGED <<mutexVars, arg, held>>
    PROVE  IInv'
<1>1. /\ isr = "deal" /\ isr' = "schedule" /\ ~Due
      /\ (current \in Sliced /\ lists' = Rotated(lists, current)) \/ lists' = lists
      /\ UNCHANGED <<state, prio, object, err, dq, left, current, pend, inside, pc>>
      /\ alive' = alive /\ arg' = arg
  BY DEF SysTickSlice, mutexVars
<1>2. /\ TasksTyped /\ ListsSound /\ SleepSound /\ InCalls /\ Running /\ CpuTyped
      /\ OwnersKnow /\ Unraised
      /\ current \in Thread
  BY InvariantParts DEF CpuTyped, LocksSound
<1>3. ReadyTasks' = ReadyTasks
  BY <1>1 DEF ReadyTasks
<1>4. Linked(lists', ReadyTasks, object, prio)
  <2>1. CASE lists' = lists
    BY <1>2, <2>1 DEF ListsSound
  <2>2. CASE lists' = Rotated(lists, current) /\ current \in ReadyTasks
    BY <1>2, <2>2, RingTurns DEF ListsSound
  <2>3. CASE /\ lists' = Rotated(lists, current) /\ current \in Sliced
             /\ current \notin ReadyTasks
    <3>1. PICK rank : Placed(lists, ReadyTasks, object, prio, rank)
      BY <1>2 DEF ListsSound, Linked
    <3>2. /\ Lines(lists.next, lists.prev, lists.wait, object, prio, rank)
          /\ lists.next \in [Thread -> Link] /\ rank \in [Thread -> Int]
          /\ object[current] = NULL => lists.next[current] = NULL
      BY <1>2, <2>3, <3>1, PlacedMeans
    <3> DEFINE n == lists.next[current]
    <3>3. object[current] # NULL =>
             (n # NULL => /\ n \in Thread /\ object[n] = object[current]
                          /\ prio[n] = prio[current] /\ rank[current] < rank[n])
      BY <1>2, <3>2 DEF Lines, Link
    <3>4. ASSUME NEW t \in Thread, object[t] # NULL
          PROVE  t \in Calls["lock"] /\ prio[t] = Priority[t]
      <4>1. state[t] = "BLOCK"
        BY <1>2, <3>4 DEF SleepSound
      <4>2. t \in Task
        BY <1>2, <4>1 DEF InCalls, Thread
      <4>3. t \in Calls["lock"]
        BY <1>2, <3>4, <4>2 DEF InCalls
      <4>4. \A m \in Mutexes : owner[m] # t
        BY <1>2, <3>4, <4>2 DEF OwnersKnow
      <4>. QED
        BY <1>2, <4>2, <4>3, <4>4 DEF Unraised
    <3>5. object[current] # NULL => n = NULL
      <4>1. SUFFICES ASSUME object[current] # NULL, n # NULL PROVE FALSE
        OBVIOUS
      <4>2. /\ n \in Thread /\ n # current /\ object[n] # NULL
            /\ prio[n] = prio[current]
        BY <1>2, <3>2, <3>3, <4>1
      <4>. QED
        BY <1>2, <2>3, <3>4, <4>1, <4>2 DEF SliceAlone
    <3>6. n = NULL
      BY <3>2, <3>5
    <3>. QED
      BY <1>2, <2>3, <3>6 DEF Rotated, ListsSound
  <2>. QED
    BY <1>1, <2>1, <2>2, <2>3
<1>5. ListsSound' /\ lists' \in Lists
  BY <1>1, <1>3, <1>4 DEF ListsSound, Linked, Placed
<1>6. SleepSound'
  <2>1. \A t \in ToSet(dq) : left[t] > 0
    <3>1. /\ dq \in Seq(Thread) /\ left \in [Thread -> Nat]
          /\ \A i, j \in 1..Len(dq) : i < j => left[dq[i]] <= left[dq[j]]
      BY <1>2 DEF TasksTyped, SleepSound, GoodQueue
    <3>2. SUFFICES ASSUME NEW t \in ToSet(dq) PROVE left[t] > 0
      OBVIOUS
    <3>3. /\ dq # <<>> /\ 1 \in 1..Len(dq) /\ Len(dq) \in Nat
          /\ \A i \in 1..Len(dq) : dq[i] \in Thread
      BY <3>1, <3>2, ListFacts
    <3>4. PICK i \in 1..Len(dq) : dq[i] = t
      BY <3>1, <3>2, ListFacts
    <3>5. Head(dq) = dq[1]
      BY <3>1, <3>3, HeadTailProperties
    <3>6. left[dq[1]] # 0 /\ left[dq[1]] \in Nat
      BY <1>1, <3>1, <3>3, <3>5 DEF Due
    <3>7. i = 1 \/ left[dq[1]] <= left[dq[i]]
      BY <3>1, <3>3
    <3>8. left[dq[i]] \in Nat
      BY <3>1, <3>3
    <3>. QED
      BY <3>4, <3>6, <3>7, <3>8
  <2>. QED
    BY <1>1, <1>2, <2>1 DEF SleepSound
<1>7. InCalls' /\ Running' /\ CpuTyped' /\ TasksTyped'
  BY <1>1, <1>2, <1>5 DEF InCalls, Running, CpuTyped, TasksTyped
<1>8. LocksSound'
  BY <1>1, LocksStay
<1>. QED
  BY <1>5, <1>6, <1>7, <1>8, InvariantNext

\* The handler ends with flyos_scheduler().
LEMMA TickEndStep ==
    ASSUME IInv, SysTickEnd, UNCHANGED <<mutexVars, arg, held>>
    PROVE  IInv'
<1>1. /\ isr = "schedule" /\ isr' = "none"
      /\ pend' = (pend \/ NextTask(lists) # current)
      /\ UNCHANGED taskVars /\ UNCHANGED <<current, inside, pc>>
      /\ alive' = alive /\ arg' = arg
  BY DEF SysTickEnd, Reschedule, mutexVars
<1>2. InCalls /\ Running /\ CpuTyped
  BY InvariantParts
<1>3. TasksTyped' /\ ListsSound' /\ SleepSound'
  BY <1>1, TasksStay
<1>4. state' = state /\ object' = object /\ prio' = prio /\ err' = err
  BY <1>1 DEF taskVars
<1>5. InCalls' /\ Running' /\ CpuTyped'
  BY <1>1, <1>2, <1>4 DEF InCalls, Running, CpuTyped
<1>6. LocksSound'
  BY <1>1, <1>4, LocksStay
<1>. QED
  BY <1>3, <1>5, <1>6, InvariantNext

\* PendSV runs a READY task.
LEMMA SwitchStep ==
    ASSUME IInv, ContextSwitch, UNCHANGED <<mutexVars, arg, held>>
    PROVE  IInv'
<1>1. /\ pend /\ isr = "none" /\ inside = NULL /\ NextTask(lists) # NULL
      /\ current' = NextTask(lists) /\ pend' = FALSE
      /\ state' = [state EXCEPT ![NextTask(lists)] = "READY"]
      /\ UNCHANGED <<lists, prio, object, err, dq, left, isr, inside, pc>>
      /\ alive' = alive /\ arg' = arg
  BY DEF ContextSwitch, mutexVars
<1>2. InCalls /\ CpuTyped /\ TasksTyped
  BY InvariantParts
<1>3. /\ NextTask(lists) \in Thread /\ state[NextTask(lists)] = "READY"
  BY <1>1, NextReady DEF ReadyTasks
<1>4. state' = state
  BY <1>1, <1>2, <1>3 DEF TasksTyped
<1>5. UNCHANGED taskVars
  BY <1>1, <1>4 DEF taskVars
<1>6. TasksTyped' /\ ListsSound' /\ SleepSound'
  BY <1>1, <1>5, TasksStay
<1>7. InCalls' /\ Running' /\ CpuTyped'
  BY <1>1, <1>2, <1>3, <1>4 DEF InCalls, Running, CpuTyped
<1>8. LocksSound'
  BY <1>1, <1>4, LocksStay
<1>. QED
  BY <1>6, <1>7, <1>8, InvariantNext

-----------------------------------------------------------------------------
(* Calls that do not block                                                 *)

\* A task that locks m owns no other mutex.
LEMMA OwnsNoOther ==
    ASSUME IInv, OneAtATime, NEW c \in Task, NEW m \in Mutexes, MayLock(c, m)
    PROVE  \A n \in Mutexes : owner[n] = c => n = m
<1>1. SUFFICES ASSUME NEW n \in Mutexes, owner[n] = c, n # m PROVE FALSE
  OBVIOUS
<1>2. /\ Runs(c) /\ pc[c] = "user" /\ Cardinality(Held(c) \cup {m}) <= 1
  BY DEF MayLock, MayCall, OneAtATime
<1>3. OwnersKnow /\ OwnersApart /\ MutexTyped /\ c # NULL
  BY InvariantParts, IpcAssumption DEF LocksSound, Thread
<1>4. Held(c) = {n}
  <2>1. \A k \in Mutexes : held[k][c] > 0 => k = n
    <3>1. \A k \in Mutexes : held[k][c] > 0 => owner[k] = c
      BY <1>3 DEF OwnersKnow
    <3>. QED
      BY <1>1, <1>3, <3>1 DEF OwnersApart
  <2>2. ~Granted(c, n)
    BY <1>2 DEF Granted
  <2>3. held[n][c] > 0
    BY <1>1, <1>3, <2>2 DEF OwnersKnow
  <2>. QED
    BY <2>1, <2>3 DEF Held
<1>5. Cardinality({n, m}) = 2
  <2>1. IsFiniteSet({n}) /\ Cardinality({n}) = 1
    BY FS_Singleton
  <2>2. Cardinality({n} \cup {m}) = Cardinality({n}) + 1
    BY <1>1, <2>1, FS_AddElement
  <2>3. {n} \cup {m} = {n, m}
    OBVIOUS
  <2>. QED
    BY <2>1, <2>2, <2>3
<1>6. Held(c) \cup {m} = {n, m}
  BY <1>4
<1>. QED
  BY <1>2, <1>5, <1>6

\* A step that leaves the kernel alone.
LEMMA KernelStays ==
    ASSUME IInv, UNCHANGED kernelVars
    PROVE  /\ TasksTyped' /\ ListsSound' /\ SleepSound' /\ CpuTyped'
           /\ state' = state /\ object' = object /\ prio' = prio /\ err' = err
           /\ pc' = pc /\ inside' = inside /\ current' = current /\ isr' = isr
           /\ pend' = pend
<1>1. UNCHANGED taskVars /\ UNCHANGED <<current, pend, isr, inside, pc>>
  BY DEF kernelVars, cpuVars
<1>2. TasksTyped' /\ ListsSound' /\ SleepSound'
  BY <1>1, TasksStay
<1>. QED
  BY <1>1, <1>2, InvariantParts DEF CpuTyped, taskVars

\* flyos_mutex_create makes an empty wait queue.
LEMMA CreateStep ==
    ASSUME IInv, NEW c \in Task, NEW m \in Mutexes, Create(c, m)
    PROVE  IInv'
<1>1. /\ Runs(c) /\ pc[c] = "user" /\ m \notin alive
      /\ \A t \in Task : arg[t] # m
      /\ alive' = alive \cup {m} /\ lists' = WaitInit(lists, m)
      /\ owner' = [owner EXCEPT ![m] = NULL] /\ nest' = [nest EXCEPT ![m] = 0]
      /\ original' = [original EXCEPT ![m] = 0]
      /\ UNCHANGED <<state, prio, object, err, dq, left, current, pend, isr, inside,
                     pc, arg, held>>
  BY DEF Create, MayCall, cpuVars
<1>2. /\ TasksTyped /\ CpuTyped /\ ListsSound /\ SleepSound /\ InCalls /\ Running
      /\ MutexTyped /\ DeadFree /\ OwnersKnow /\ OwnersApart /\ Unraised /\ NoInversion
      /\ inside = NULL /\ owner[m] = NULL /\ m # NULL
  BY <1>1, InvariantParts, RunningOwner, IpcAssumption DEF LocksSound, DeadFree, Mutexes
<1>3. \A t \in Thread : object[t] # m
  BY <1>1, <1>2 DEF DeadFree
<1>4. ReadyTasks' = ReadyTasks
  BY <1>1 DEF ReadyTasks
<1>5. ListsSound' /\ lists' \in Lists
  <2>1. Linked(lists', ReadyTasks', object', prio')
    BY <1>1, <1>2, <1>3, <1>4, NewQueue DEF ListsSound, Mutexes
  <2>. QED
    BY <2>1 DEF ListsSound, Linked, Placed
<1>6. TasksTyped' /\ CpuTyped' /\ SleepSound' /\ InCalls' /\ Running'
  BY <1>1, <1>2, <1>5 DEF TasksTyped, CpuTyped, SleepSound, InCalls, Running
<1>7. owner' = owner /\ \A n \in Mutexes : n # m => nest'[n] = nest[n] /\ original'[n] = original[n]
  BY <1>1, <1>2 DEF MutexTyped
<1>8. MutexTyped'
  BY <1>1, <1>2 , MutexAssumption, IpcAssumption DEF MutexTyped, Prio
<1>9. \A t \in Task, n \in Mutexes : Granted(t, n)' <=> Granted(t, n)
  BY <1>1 DEF Granted
<1>10. DeadFree' /\ OwnersApart' /\ Unraised' /\ NoInversion'
  <2>1. DeadFree' /\ OwnersApart' /\ Unraised'
    BY <1>1, <1>2, <1>7 DEF DeadFree, OwnersApart, Unraised
  <2>2. ASSUME NEW n \in alive', NEW t \in Task, object'[t] = n
        PROVE  owner'[n] # NULL /\ prio'[owner'[n]] <= prio'[t]
    <3>1. n # m /\ object[t] = n
      BY <1>1, <1>3, <2>2 DEF Thread
    <3>. QED
      BY <1>1, <1>2, <1>7, <3>1 DEF NoInversion
  <2>. QED
    BY <2>1, <2>2 DEF NoInversion
<1>11. OwnersKnow'
  <2>1. SUFFICES ASSUME NEW n \in Mutexes, NEW t \in Task PROVE OwnersKnow!(n, t)'
    BY DEF OwnersKnow
  <2>2. n = m => ~Granted(t, n) /\ owner[n] # t
    BY <1>1, <1>2, IpcAssumption DEF Granted, Thread
  <2>. QED
    BY <1>1, <1>2, <1>7, <1>9, <2>2 DEF OwnersKnow
<1>. QED
  BY <1>5, <1>6, <1>8, <1>10, <1>11, InvariantNext DEF LocksSound

\* flyos_mutex_lock of a mutex that nobody owns.
LEMMA LockFreeStep ==
    ASSUME IInv, OneAtATime, NEW c \in Task, NEW m \in Mutexes, LockFree(c, m)
    PROVE  IInv'
<1>1. /\ MayLock(c, m) /\ Runs(c) /\ pc[c] = "user" /\ m \in alive
      /\ owner[m] = NULL
      /\ owner' = [owner EXCEPT ![m] = c] /\ nest' = [nest EXCEPT ![m] = 1]
      /\ original' = [original EXCEPT ![m] = prio[c]]
      /\ held' = [held EXCEPT ![m][c] = 1]
      /\ UNCHANGED kernelVars /\ alive' = alive /\ arg' = arg
  BY DEF LockFree, MayLock, MayCall, Own
<1>2. /\ TasksTyped /\ InCalls /\ Running
      /\ MutexTyped /\ DeadFree /\ OwnersKnow /\ OwnersApart /\ Unraised /\ NoInversion
      /\ c # NULL /\ c \in Thread /\ object[c] = NULL /\ arg[c] = NULL /\ m # NULL
  BY <1>1, InvariantParts, RunningOwner, IpcAssumption DEF LocksSound, Mutexes
<1>3. \A n \in Mutexes : owner[n] # c
  BY <1>1, <1>2, OwnsNoOther
<1>4. prio[c] = Priority[c]
  BY <1>2, <1>3 DEF Unraised
<1>5. /\ TasksTyped' /\ ListsSound' /\ SleepSound' /\ CpuTyped'
      /\ state' = state /\ object' = object /\ prio' = prio /\ err' = err
      /\ pc' = pc /\ inside' = inside /\ current' = current /\ isr' = isr /\ pend' = pend
  BY <1>1, KernelStays
<1>6. InCalls' /\ Running'
  BY <1>1, <1>2, <1>5 DEF InCalls, Running
<1>7. /\ owner'[m] = c /\ nest'[m] = 1 /\ original'[m] = Priority[c] /\ held'[m][c] = 1
      /\ \A n \in Mutexes : n # m => /\ owner'[n] = owner[n] /\ nest'[n] = nest[n]
                                     /\ original'[n] = original[n] /\ held'[n] = held[n]
      /\ \A t \in Task : t # c => held'[m][t] = held[m][t]
  BY <1>1, <1>2, <1>4 DEF MutexTyped
<1>8. MutexTyped'
  BY <1>1, <1>2, MutexAssumption DEF MutexTyped, TasksTyped
<1>9. \A t \in Task, n \in Mutexes : Granted(t, n)' <=> Granted(t, n)
  BY <1>1, <1>5 DEF Granted
<1>10. OwnersKnow'
  <2>1. SUFFICES ASSUME NEW n \in Mutexes, NEW t \in Task PROVE OwnersKnow!(n, t)'
    BY DEF OwnersKnow
  <2>2. CASE n = m /\ t = c
    BY <1>1, <1>2, <1>5, <1>7, <2>2
  <2>3. CASE n = m /\ t # c
    <3>1. owner[n] # t
      BY <1>1, <2>3, IpcAssumption DEF Thread
    <3>. QED
      BY <1>1, <1>2, <1>7, <1>9, <2>3, <3>1 DEF OwnersKnow
  <2>4. CASE n # m
    BY <1>1, <1>2, <1>5, <1>7, <1>9, <2>4 DEF OwnersKnow
  <2>. QED
    BY <2>2, <2>3, <2>4
<1>11. OwnersApart'
  BY <1>2, <1>3, <1>7 DEF OwnersApart
<1>12. DeadFree' /\ Unraised' /\ NoInversion'
  <2>1. DeadFree'
    BY <1>1, <1>2, <1>5, <1>7 DEF DeadFree
  <2>2. \A t \in Task : t # c => ((\A n \in Mutexes : owner'[n] # t) => \A n \in Mutexes : owner[n] # t)
    BY <1>1, <1>7, IpcAssumption DEF Thread
  <2>3. Unraised'
    BY <1>2, <1>4, <1>5, <2>2 DEF Unraised
  <2>4. NoInversion'
    BY <1>1, <1>2, <1>5, <1>7, IpcAssumption DEF NoInversion, Thread
  <2>. QED
    BY <2>1, <2>3, <2>4
<1>. QED
  BY <1>5, <1>6, <1>8, <1>10, <1>11, <1>12, InvariantNext DEF LocksSound

\* A mutex is locked again, or unlocked and not for the last time.
LEMMA NestStep ==
    ASSUME IInv, NEW c \in Task, NEW m \in Mutexes, LockAgain(c, m) \/ UnlockInner(c, m)
    PROVE  IInv'
<1>1. /\ Runs(c) /\ pc[c] = "user" /\ m \in alive /\ owner[m] = c
      /\ UNCHANGED kernelVars /\ alive' = alive /\ arg' = arg
      /\ owner' = owner /\ original' = original
      /\ \/ /\ nest[m] < MAX_NEST
            /\ nest' = [nest EXCEPT ![m] = nest[m] + 1]
            /\ held' = [held EXCEPT ![m][c] = held[m][c] + 1]
         \/ /\ nest[m] > 1
            /\ nest' = [nest EXCEPT ![m] = nest[m] - 1]
            /\ held' = [held EXCEPT ![m][c] = held[m][c] - 1]
  BY DEF LockAgain, UnlockInner, MayLock, MayCall
<1>2. /\ TasksTyped /\ InCalls /\ Running
      /\ MutexTyped /\ DeadFree /\ OwnersKnow /\ OwnersApart /\ Unraised /\ NoInversion
      /\ arg[c] = NULL /\ m # NULL
  BY <1>1, InvariantParts, RunningOwner, IpcAssumption DEF LocksSound, Mutexes
<1>3. held[m][c] = nest[m] /\ nest[m] > 0
  BY <1>1, <1>2 DEF OwnersKnow, Granted
<1>4. /\ TasksTyped' /\ ListsSound' /\ SleepSound' /\ CpuTyped'
      /\ state' = state /\ object' = object /\ prio' = prio /\ err' = err
      /\ pc' = pc /\ inside' = inside /\ current' = current /\ isr' = isr /\ pend' = pend
  BY <1>1, KernelStays
<1>5. InCalls' /\ Running'
  BY <1>1, <1>2, <1>4 DEF InCalls, Running
<1>6. /\ nest[m] \in 0..MAX_NEST /\ MAX_NEST \in Nat
      /\ nest \in [Mutexes -> 0..MAX_NEST] /\ held \in [Mutexes -> [Task -> 0..MAX_NEST]]
  BY <1>2, MutexAssumption DEF MutexTyped
<1>7. PICK k \in 1..MAX_NEST : /\ nest' = [nest EXCEPT ![m] = k]
                               /\ held' = [held EXCEPT ![m][c] = k]
  <2>1. CASE nest[m] < MAX_NEST /\ nest' = [nest EXCEPT ![m] = nest[m] + 1]
             /\ held' = [held EXCEPT ![m][c] = held[m][c] + 1]
    <3>1. nest[m] + 1 \in 1..MAX_NEST
      BY <1>6, <2>1
    <3>. QED
      BY <1>3, <2>1, <3>1
  <2>2. CASE nest[m] > 1 /\ nest' = [nest EXCEPT ![m] = nest[m] - 1]
             /\ held' = [held EXCEPT ![m][c] = held[m][c] - 1]
    <3>1. nest[m] - 1 \in 1..MAX_NEST
      BY <1>6, <2>2
    <3>. QED
      BY <1>3, <2>2, <3>1
  <2>. QED
    BY <1>1, <2>1, <2>2
<1>8. /\ nest'[m] = k /\ held'[m][c] = k /\ k > 0
      /\ \A n \in Mutexes : n # m => nest'[n] = nest[n] /\ held'[n] = held[n]
      /\ \A t \in Task : t # c => held'[m][t] = held[m][t]
  BY <1>6, <1>7
<1>9. MutexTyped'
  BY <1>1, <1>2, <1>6, <1>7 DEF MutexTyped
<1>10. \A t \in Task, n \in Mutexes : Granted(t, n)' <=> Granted(t, n)
  BY <1>1, <1>4 DEF Granted
<1>11. OwnersKnow'
  <2>1. SUFFICES ASSUME NEW n \in Mutexes, NEW t \in Task PROVE OwnersKnow!(n, t)'
    BY DEF OwnersKnow
  <2>2. CASE n = m /\ t = c
    BY <1>1, <1>2, <1>4, <1>8, <2>2 DEF OwnersKnow
  <2>3. CASE n = m /\ t # c
    BY <1>1, <1>2, <1>8, <1>10, <2>3 DEF OwnersKnow
  <2>4. CASE n # m
    BY <1>1, <1>2, <1>4, <1>8, <1>10, <2>4 DEF OwnersKnow
  <2>. QED
    BY <2>2, <2>3, <2>4
<1>12. DeadFree'
  <2>1. \A n \in Mutexes \ alive : n # m
    BY <1>1
  <2>. QED
    BY <1>1, <1>2, <1>4, <2>1 DEF DeadFree
<1>13. OwnersApart' /\ Unraised' /\ NoInversion'
  BY <1>1, <1>2, <1>4 DEF OwnersApart, Unraised, NoInversion
<1>. QED
  BY <1>4, <1>5, <1>9, <1>11, <1>12, <1>13, InvariantNext DEF LocksSound

\* A call that has blocked tells its task whether it owns the mutex.
LEMMA ReturnStep ==
    ASSUME IInv, NEW c \in Task, Return(c)
    PROVE  IInv'
<1>1. /\ Runs(c) /\ pc[c] = "return"
      /\ held' = IF arg[c] \in alive /\ err[c] = "OK"
                 THEN [held EXCEPT ![arg[c]][c] = held[arg[c]][c] + 1] ELSE held
      /\ arg' = [arg EXCEPT ![c] = NULL] /\ pc' = [pc EXCEPT ![c] = "user"]
      /\ UNCHANGED taskVars /\ current' = current /\ pend' = pend
      /\ isr' = isr /\ inside' = inside
      /\ alive' = alive /\ owner' = owner /\ nest' = nest /\ original' = original
  BY DEF Return, Goto, cpuVars, mutexVars
<1>2. /\ TasksTyped /\ CpuTyped /\ InCalls /\ Running
      /\ MutexTyped /\ DeadFree /\ OwnersKnow /\ OwnersApart /\ Unraised /\ NoInversion
      /\ c \in Thread /\ c # NULL /\ c # Idle /\ state[c] = "READY" /\ object[c] = NULL
      /\ inside = NULL /\ Idle \in Thread /\ NULL \notin Mutexes
  BY <1>1, InvariantParts, RunningOwner, IpcAssumption DEF LocksSound, Thread, Mutexes
<1>3. /\ TasksTyped' /\ ListsSound' /\ SleepSound'
      /\ state' = state /\ object' = object /\ prio' = prio /\ err' = err
  BY <1>1, TasksStay DEF taskVars
<1>4. /\ \A t \in Task : t # c => pc'[t] = pc[t] /\ arg'[t] = arg[t]
      /\ pc'[c] = "user" /\ arg'[c] = NULL /\ pc'[Idle] = pc[Idle]
      /\ CpuTyped'
  BY <1>1, <1>2 DEF CpuTyped, MutexTyped, Thread
<1>5. InCalls' /\ Running'
  BY <1>1, <1>2, <1>3, <1>4 DEF InCalls, Running
<1>6. \A t \in Task, n \in Mutexes : Granted(t, n)' <=> t # c /\ Granted(t, n)
  BY <1>3, <1>4 DEF Granted
<1>7. CASE arg[c] \in alive /\ err[c] = "OK"
  <2> DEFINE m == arg[c]
  <2>1. m \in Mutexes /\ Granted(c, m) /\ m \in alive
    BY <1>1, <1>2, <1>7 DEF Granted, MutexTyped
  <2>2. owner[m] = c /\ held[m][c] = 0 /\ nest[m] = 1
    BY <1>2, <2>1 DEF OwnersKnow
  <2>3. held' = [held EXCEPT ![m][c] = 1]
    BY <1>1, <1>7, <2>2
  <2>4. \A n \in Mutexes : n # m => owner[n] # c
    BY <1>2, <2>1, <2>2 DEF OwnersApart
  <2> HIDE DEF m
  <2>5. /\ held'[m][c] = 1
        /\ \A n \in Mutexes : n # m => held'[n] = held[n]
        /\ \A t \in Task : t # c => held'[m][t] = held[m][t]
    BY <1>2, <2>1, <2>3 DEF MutexTyped
  <2>6. MutexTyped'
    BY <1>1, <1>2, <2>1, <2>3, MutexAssumption DEF MutexTyped
  <2>7. OwnersKnow'
    <3>1. SUFFICES ASSUME NEW n \in Mutexes, NEW t \in Task PROVE OwnersKnow!(n, t)'
      BY DEF OwnersKnow
    <3>2. CASE n = m /\ t = c
      BY <1>1, <1>2, <1>3, <1>4, <2>1, <2>2, <2>5, <3>2 DEF OwnersKnow
    <3>3. CASE n = m /\ t # c
      BY <1>1, <1>2, <1>6, <2>2, <2>5, <3>3 DEF OwnersKnow
    <3>4. CASE n # m /\ t = c
      BY <1>1, <1>2, <1>6, <2>4, <2>5, <3>4 DEF OwnersKnow
    <3>5. CASE n # m /\ t # c
      BY <1>1, <1>2, <1>3, <1>4, <1>6, <2>5, <3>5 DEF OwnersKnow
    <3>. QED
      BY <3>2, <3>3, <3>4, <3>5
  <2>8. DeadFree'
    <3>1. \A n \in Mutexes \ alive : n # m
      BY <2>1
    <3>. QED
      BY <1>1, <1>2, <1>3, <2>5, <3>1 DEF DeadFree
  <2>9. OwnersApart' /\ Unraised' /\ NoInversion'
    BY <1>1, <1>2, <1>3 DEF OwnersApart, Unraised, NoInversion
  <2>. QED
    BY <1>3, <1>4, <1>5, <2>6, <2>7, <2>8, <2>9, InvariantNext DEF LocksSound
<1>8. CASE ~(arg[c] \in alive /\ err[c] = "OK")
  <2>1. held' = held
    BY <1>1, <1>8
  <2>2. \A n \in Mutexes : owner[n] = c => held[n][c] = nest[n] /\ nest[n] > 0
    BY <1>2, <1>8 DEF OwnersKnow, Granted
  <2>3. MutexTyped'
    BY <1>1, <1>2, <2>1 DEF MutexTyped
  <2>4. OwnersKnow'
    <3>1. SUFFICES ASSUME NEW n \in Mutexes, NEW t \in Task PROVE OwnersKnow!(n, t)'
      BY DEF OwnersKnow
    <3>2. CASE t = c
      BY <1>1, <1>2, <1>3, <1>4, <1>6, <2>1, <2>2, <3>2 DEF OwnersKnow
    <3>3. CASE t # c
      BY <1>1, <1>2, <1>3, <1>4, <1>6, <2>1, <3>3 DEF OwnersKnow
    <3>. QED
      BY <3>2, <3>3
  <2>5. DeadFree' /\ OwnersApart' /\ Unraised' /\ NoInversion'
    BY <1>1, <1>2, <1>3, <2>1 DEF DeadFree, OwnersApart, Unraised, NoInversion
  <2>. QED
    BY <1>3, <1>4, <1>5, <2>3, <2>4, <2>5, InvariantNext DEF LocksSound
<1>. QED
  BY <1>7, <1>8

-----------------------------------------------------------------------------
(* Waiting and sleeping                                                    *)

\* A task that waits owns nothing and has its own priority.
LEMMA WaiterOwnsNothing ==
    ASSUME IInv, NEW t \in Thread, object[t] # NULL
    PROVE  /\ t \in Task /\ t # Idle /\ state[t] = "BLOCK"
           /\ pc[t] \in {"wait", "return"}
           /\ arg[t] = object[t] /\ object[t] \in Mutexes
           /\ \A n \in Mutexes : owner[n] # t /\ held[n][t] = 0
           /\ prio[t] = Priority[t]
<1>1. /\ TasksTyped /\ SleepSound /\ InCalls /\ OwnersKnow /\ Unraised
  BY InvariantParts DEF LocksSound
<1>2. state[t] = "BLOCK" /\ object[t] \in Mutexes
  BY <1>1 DEF SleepSound, TasksTyped, Mutexes
<1>3. t \in Task /\ t # Idle
  BY <1>1, <1>2, IpcAssumption DEF InCalls, Thread
<1>4. pc[t] \in {"wait", "return"} /\ arg[t] = object[t]
  BY <1>1, <1>2, <1>3 DEF InCalls
<1>5. \A n \in Mutexes : owner[n] # t /\ held[n][t] = 0
  BY <1>1, <1>3 DEF OwnersKnow
<1>. QED
  BY <1>1, <1>2, <1>3, <1>4, <1>5 DEF Unraised

\* flyos_mutex_lock waits for the owner, which inherits the caller's priority.
LEMMA LockBlockStep ==
    ASSUME IInv, OneAtATime, NEW c \in Task, NEW m \in Mutexes,
           NEW timeout \in Timeouts, LockBlock(c, m, timeout)
    PROVE  IInv'
<1> DEFINE o == owner[m]
           b == Boost(c, m)
<1>1. /\ MayLock(c, m) /\ Runs(c) /\ pc[c] = "user" /\ c \in Calls["lock"]
      /\ m \in alive /\ o \notin {NULL, c}
      /\ Block(c, b.lists, m, timeout) /\ prio' = b.prio
      /\ arg' = [arg EXCEPT ![c] = m] /\ pc' = [pc EXCEPT ![c] = "wait"]
      /\ current' = current /\ pend' = pend /\ isr' = isr /\ inside' = inside
      /\ alive' = alive /\ owner' = owner /\ nest' = nest /\ original' = original
      /\ held' = held
  BY DEF LockBlock, MayLock, MayCall, Goto, cpuVars, mutexVars
<1>2. /\ TasksTyped /\ CpuTyped /\ InCalls /\ Running
      /\ MutexTyped /\ DeadFree /\ OwnersKnow /\ OwnersApart /\ Unraised /\ NoInversion
      /\ c \in Thread /\ c # NULL /\ c # Idle /\ c = current /\ inside = NULL
      /\ state[c] = "READY" /\ object[c] = NULL /\ Idle \in Thread
      /\ m \in Queue /\ m # NULL /\ \A t \in Task : t \in Thread /\ t # Idle
  BY <1>1, InvariantParts, RunningOwner, IpcAssumption DEF LocksSound, Thread, Mutexes
<1>3. /\ o \in Task /\ o \in Thread /\ object[o] = NULL /\ prio \in [Thread -> Prio]
  BY <1>1, OwnerFacts
<1>4. \A n \in Mutexes : owner[n] # c
  BY <1>1, OwnsNoOther
<1>5. prio[c] = Priority[c]
  BY <1>2, <1>4 DEF Unraised
<1>6. /\ Linked(b.lists, ReadyTasks, object, b.prio)
      /\ b.prio = [prio EXCEPT ![o] = IF prio[c] < prio[o] THEN prio[c] ELSE prio[o]]
  BY <1>1, Boosts
<1> HIDE DEF b
<1>7. b.prio[c] = prio[c] /\ timeout \in Nat \ {0}
  BY <1>1, <1>2, <1>3, <1>6, MutexAssumption DEF NO_WAIT
<1>8. /\ TasksTyped' /\ ListsSound' /\ SleepSound'
      /\ state' = [state EXCEPT ![c] = "BLOCK"]
      /\ object' = [object EXCEPT ![c] = m]
      /\ err' = [err EXCEPT ![c] = "OK"]
  <2> DEFINE L == b.lists
             P == b.prio
  <2>1. /\ isr' = isr /\ prio' = P /\ Linked(L, ReadyTasks, object, P)
        /\ state[c] = "READY" /\ P[c] = prio[c] /\ m \in Queue
        /\ timeout \in Nat \ {0} /\ Block(c, L, m, timeout)
    BY <1>1, <1>2, <1>6, <1>7
  <2> HIDE DEF L, P
  <2>. QED
    BY <2>1, FallsAsleep
<1>9. /\ state'[c] = "BLOCK" /\ object'[c] = m /\ arg'[c] = m /\ pc'[c] = "wait"
      /\ pc'[Idle] = pc[Idle] /\ state'[Idle] = state[Idle]
      /\ \A t \in Thread : t # c => /\ state'[t] = state[t] /\ object'[t] = object[t]
                                    /\ pc'[t] = pc[t] /\ err'[t] = err[t]
      /\ \A t \in Task : t # c => arg'[t] = arg[t]
  BY <1>1, <1>2, <1>8 DEF TasksTyped, CpuTyped, MutexTyped
<1>10. CpuTyped' /\ MutexTyped'
  BY <1>1, <1>2 DEF CpuTyped, MutexTyped, Mutexes
<1>11. InCalls'
  BY <1>1, <1>2, <1>9 DEF InCalls
<1>12. Running'
  BY <1>1, <1>2, <1>9 DEF Running
<1>13. DeadFree'
  BY <1>1, <1>2, <1>9 DEF DeadFree
<1>14. \A t \in Task, n \in Mutexes : Granted(t, n)' <=> t # c /\ Granted(t, n)
  BY <1>2, <1>9 DEF Granted
<1>15. OwnersKnow'
  <2>1. SUFFICES ASSUME NEW n \in Mutexes, NEW t \in Task PROVE OwnersKnow!(n, t)'
    BY DEF OwnersKnow
  <2>2. CASE t = c
    BY <1>1, <1>2, <1>4, <1>14, <2>2 DEF OwnersKnow
  <2>3. CASE t # c
    BY <1>1, <1>2, <1>9, <1>14, <2>3 DEF OwnersKnow
  <2>. QED
    BY <2>2, <2>3
<1>16. OwnersApart'
  BY <1>1, <1>2 DEF OwnersApart
<1>17. /\ \A t \in Thread : t # o => prio'[t] = prio[t]
       /\ prio'[o] = IF prio[c] < prio[o] THEN prio[c] ELSE prio[o]
       /\ prio'[o] <= prio[c] /\ prio'[o] <= prio[o]
       /\ \A t \in Thread : prio[t] \in Nat /\ prio'[t] \in Nat
  <2>1. /\ \A t \in Thread : t # o => prio'[t] = prio[t]
        /\ prio'[o] = IF prio[c] < prio[o] THEN prio[c] ELSE prio[o]
    BY <1>1, <1>3, <1>6
  <2>2. \A t \in Thread : prio[t] \in Nat
    BY <1>3, IpcAssumption DEF Prio
  <2>. QED
    BY <1>2, <1>3, <2>1, <2>2
<1>18. Unraised'
  <2>1. SUFFICES ASSUME NEW t \in Task,
                        (\A n \in Mutexes : owner'[n] # t) \/ Unboosted(t)
                 PROVE  prio'[t] = Priority[t]
    BY <1>2, <1>3, <1>17 DEF Unraised, Unboosted
  <2>2. prio[t] = Priority[t]
    BY <1>1, <1>2, <2>1 DEF Unraised
  <2>3. t = o => Priority[t] <= Priority[c]
    BY <1>1, <2>1 DEF Unboosted, Mutexes
  <2>. QED
    BY <1>2, <1>5, <1>17, <2>2, <2>3
<1>19. NoInversion'
  <2>1. SUFFICES ASSUME NEW n \in alive', NEW t \in Task, object'[t] = n
                 PROVE  owner'[n] # NULL /\ prio'[owner'[n]] <= prio'[t]
    BY DEF NoInversion
  <2>2. CASE t = c
    BY <1>1, <1>2, <1>3, <1>9, <1>17, <2>1, <2>2
  <2>3. CASE t # c
    <3>1. object[t] = n /\ n \in alive /\ n \in Mutexes /\ t # o /\ n # NULL
      BY <1>1, <1>2, <1>3, <1>9, <2>1, <2>3, IpcAssumption DEF MutexTyped, Mutexes
    <3>2. owner[n] # NULL /\ prio[owner[n]] <= prio[t]
      BY <1>2, <3>1 DEF NoInversion
    <3>3. owner[n] \in Thread
      BY <3>1, <3>2, OwnerFacts
    <3>4. prio'[owner[n]] <= prio[owner[n]] /\ prio'[t] = prio[t]
      BY <1>2, <1>17, <3>1, <3>3
    <3>. QED
      BY <1>1, <1>2, <1>17, <3>2, <3>3, <3>4
  <2>. QED
    BY <2>2, <2>3
<1>. QED
  BY <1>8, <1>10, <1>11, <1>12, <1>13, <1>15, <1>16, <1>18, <1>19, InvariantNext DEF LocksSound

\* A task sleeps; it may own a mutex.
LEMMA DelayStep ==
    ASSUME IInv, NEW c \in Task, NEW n \in Timeouts, Delay(c, n)
    PROVE  IInv'
<1>1. /\ Runs(c) /\ pc[c] = "user" /\ c \in Calls["delay"]
      /\ pc' = [pc EXCEPT ![c] = "wait"]
      /\ prio' = prio /\ object' = object /\ err' = err
      /\ current' = current /\ pend' = pend /\ isr' = isr /\ inside' = inside
      /\ alive' = alive /\ owner' = owner /\ nest' = nest /\ original' = original
      /\ held' = held /\ arg' = arg
  BY DEF Delay, MayCall, Goto, cpuVars, mutexVars
<1>2. /\ TasksTyped /\ CpuTyped /\ InCalls /\ Running
      /\ MutexTyped /\ DeadFree /\ OwnersKnow /\ OwnersApart /\ Unraised /\ NoInversion
      /\ c \in Thread /\ c # NULL /\ c # Idle /\ c = current /\ inside = NULL
      /\ state[c] = "READY" /\ object[c] = NULL /\ arg[c] = NULL /\ Idle \in Thread
      /\ NULL \notin Mutexes /\ \A t \in Task : t \in Thread /\ t # Idle
  BY <1>1, InvariantParts, RunningOwner, IpcAssumption DEF LocksSound, Thread, Mutexes
<1>3. n \in Nat \ {0}
  BY MutexAssumption DEF NO_WAIT
<1>4. /\ TasksTyped' /\ ListsSound' /\ SleepSound'
      /\ state' = [state EXCEPT ![c] = "BLOCK"]
  BY <1>2, <1>3, Dozes
<1>5. /\ state'[c] = "BLOCK" /\ pc'[c] = "wait"
      /\ pc'[Idle] = pc[Idle] /\ state'[Idle] = state[Idle]
      /\ \A t \in Thread : t # c => state'[t] = state[t] /\ pc'[t] = pc[t]
  BY <1>1, <1>2, <1>4 DEF TasksTyped, CpuTyped
<1>6. CpuTyped' /\ MutexTyped'
  BY <1>1, <1>2 DEF CpuTyped, MutexTyped
<1>7. InCalls' /\ Running'
  BY <1>1, <1>2, <1>5 DEF InCalls, Running
<1>8. \A t \in Task, m \in Mutexes : Granted(t, m)' <=> Granted(t, m)
  BY <1>1, <1>2, <1>5 DEF Granted
<1>9. OwnersKnow'
  <2>1. SUFFICES ASSUME NEW m \in Mutexes, NEW t \in Task PROVE OwnersKnow!(m, t)'
    BY DEF OwnersKnow
  <2>. QED
    BY <1>1, <1>2, <1>8 DEF OwnersKnow
<1>10. DeadFree' /\ OwnersApart' /\ Unraised' /\ NoInversion'
  BY <1>1, <1>2 DEF DeadFree, OwnersApart, Unraised, NoInversion
<1>. QED
  BY <1>4, <1>6, <1>7, <1>9, <1>10, InvariantNext DEF LocksSound

\* A time-out, the end of a delay, or the loop of flyos_mutex_delete wakes a task
\* that does not become an owner.
LEMMA WokenStep ==
    ASSUME IInv, NEW t \in Thread, state[t] = "BLOCK",
           NEW e \in {"OK", "TIMEOUT", "ERROR"}, object[t] # NULL => e # "OK",
           NEW m, m = IF object[t] = NULL THEN lists
                      ELSE WaitRemove(lists, object[t], t, prio[t]),
           MakeReady(t, m, e), UNCHANGED <<cpuVars, pc, mutexVars, arg, held>>
    PROVE  IInv'
<1>1. /\ Unblock(t, m, e, prio[t]) /\ prio' = prio
      /\ current' = current /\ pend' = pend /\ isr' = isr /\ inside' = inside /\ pc' = pc
      /\ alive' = alive /\ owner' = owner /\ nest' = nest /\ original' = original
      /\ held' = held /\ arg' = arg
  BY DEF MakeReady, cpuVars, mutexVars
<1>2. /\ TasksTyped /\ CpuTyped /\ ListsSound /\ InCalls /\ Running
      /\ MutexTyped /\ DeadFree /\ OwnersKnow /\ OwnersApart /\ Unraised /\ NoInversion
      /\ Idle \in Thread /\ NULL \notin Mutexes /\ \A u \in Task : u \in Thread /\ u # Idle
  BY InvariantParts, IpcAssumption DEF LocksSound, Thread, Mutexes
<1>3. /\ TasksTyped' /\ ListsSound' /\ SleepSound'
      /\ state' = [state EXCEPT ![t] = "READY"]
      /\ object' = [object EXCEPT ![t] = NULL]
      /\ err' = [err EXCEPT ![t] = e]
  BY <1>1, <1>2, Rouses DEF ListsSound
<1>4. /\ state'[t] = "READY" /\ object'[t] = NULL /\ err'[t] = e
      /\ \A u \in Thread : u # t => /\ state'[u] = state[u] /\ object'[u] = object[u]
                                    /\ err'[u] = err[u]
  BY <1>2, <1>3 DEF TasksTyped
<1>5. CpuTyped' /\ MutexTyped' /\ InCalls' /\ Running'
  <2>1. CpuTyped' /\ MutexTyped'
    BY <1>1, <1>2 DEF CpuTyped, MutexTyped
  <2>2. \A u \in Thread : state'[u] = "BLOCK" => u # t /\ state[u] = "BLOCK"
    BY <1>4
  <2>3. InCalls'
    BY <1>1, <1>2, <1>4, <2>2 DEF InCalls
  <2>4. Running'
    BY <1>1, <1>2, <2>2 DEF Running, CpuTyped
  <2>. QED
    BY <2>1, <2>3, <2>4
<1>6. t \in Task
  BY <1>2 DEF InCalls, Thread
<1>7. \A n \in Mutexes : ~Granted(t, n)' /\ ~Granted(t, n)
  BY <1>1, <1>2, <1>4, <1>6 DEF Granted, InCalls
<1>8. \A u \in Task, n \in Mutexes : Granted(u, n)' <=> Granted(u, n)
  BY <1>1, <1>2, <1>4, <1>7 DEF Granted
<1>9. \A u \in Thread : object'[u] # NULL => object'[u] = object[u]
  BY <1>4
<1>10. DeadFree'
  BY <1>1, <1>2, <1>4, <1>9 DEF DeadFree
<1>11. OwnersKnow'
  <2>1. SUFFICES ASSUME NEW n \in Mutexes, NEW u \in Task PROVE OwnersKnow!(n, u)'
    BY DEF OwnersKnow
  <2>2. object[u] = NULL => object'[u] = NULL
    BY <1>2, <1>9
  <2>. QED
    BY <1>1, <1>2, <1>8, <2>2 DEF OwnersKnow
<1>12. OwnersApart' /\ Unraised'
  BY <1>1, <1>2 DEF OwnersApart, Unraised
<1>13. NoInversion'
  <2>1. \A n \in alive : n # NULL
    BY <1>2 DEF MutexTyped
  <2>. QED
    BY <1>1, <1>2, <1>9, <2>1 DEF NoInversion
<1>. QED
  BY <1>3, <1>5, <1>10, <1>11, <1>12, <1>13, InvariantNext DEF LocksSound

\* delta_queue_wake_task
LEMMA ExpireStep ==
    ASSUME IInv, Expire
    PROVE  IInv'
<1> DEFINE t == Head(dq)
<1>1. /\ dq # <<>>
      /\ \/ object[t] = NULL /\ MakeReady(t, lists, "OK")
         \/ object[t] # NULL /\ MakeReady(t, WaitRemove(lists, object[t], t, prio[t]), "TIMEOUT")
      /\ UNCHANGED <<cpuVars, pc, mutexVars, arg, held>>
  BY DEF Expire, Due
<1>2. t \in Thread /\ state[t] = "BLOCK"
  <2>1. dq \in Seq(Thread) /\ SleepSound
    BY InvariantParts DEF TasksTyped
  <2>2. t \in Thread /\ t = dq[1] /\ 1 \in 1..Len(dq)
    BY <1>1, <2>1, HeadTailProperties, ListFacts
  <2>3. t \in ToSet(dq)
    BY <2>1, <2>2, ListFacts
  <2>. QED
    BY <2>1, <2>2, <2>3 DEF SleepSound
<1> HIDE DEF t
<1>. QED
  BY <1>1, <1>2, WokenStep

\* An iteration of the loop of flyos_mutex_delete.
LEMMA DeleteWakeStep ==
    ASSUME IInv, NEW c \in Task, DeleteWake(c)
    PROVE  IInv'
<1> DEFINE q == arg[c]
           t == HighestWaiter(q)
<1>1. /\ inside = c /\ HasWaiter(q)
      /\ MakeReady(t, WaitRemove(lists, q, t, prio[t]), "ERROR")
      /\ UNCHANGED <<cpuVars, pc, mutexVars, arg, held>>
  BY DEF DeleteWake, WakeHighest
<1>2. q \in Queue /\ q # NULL
  <2>1. c # NULL /\ Running
    BY InvariantParts, IpcAssumption DEF Thread
  <2>. QED
    BY <1>1, <2>1, IpcAssumption DEF Running, Mutexes
<1> HIDE DEF q, t
<1>3. t \in Thread /\ object[t] = q
  BY <1>1, <1>2, WaiterFacts, InvariantParts DEF ListsSound, t
<1>4. state[t] = "BLOCK"
  BY <1>2, <1>3, InvariantParts DEF SleepSound
<1>. QED
  BY <1>1, <1>2, <1>3, <1>4, WokenStep

-----------------------------------------------------------------------------
(* Unlocking and deleting                                                  *)

\* flyos_mutex_delete takes the mutex from its owner, which is READY or has
\* inherited nothing.
LEMMA DeleteBeginStep ==
    ASSUME IInv, SleepersKeep, NEW c \in Task, NEW m \in Mutexes, DeleteBegin(c, m)
    PROVE  IInv'
<1> DEFINE o == owner[m]
           r == Restore(m)
<1>1. /\ Runs(c) /\ pc[c] = "user" /\ c \in Calls["delete"] /\ m \in alive
      /\ alive' = alive \ {m} /\ prio' = r.prio /\ lists' = r.lists
      /\ owner' = [owner EXCEPT ![m] = NULL] /\ nest' = [nest EXCEPT ![m] = 0]
      /\ held' = [held EXCEPT ![m] = [t \in Task |-> 0]]
      /\ arg' = [arg EXCEPT ![c] = m] /\ pc' = [pc EXCEPT ![c] = "section"]
      /\ inside' = c
      /\ state' = state /\ object' = object /\ err' = err /\ dq' = dq /\ left' = left
      /\ current' = current /\ pend' = pend /\ isr' = isr /\ original' = original
  BY DEF DeleteBegin, MayCall, Goto
<1>2. /\ TasksTyped /\ CpuTyped /\ ListsSound /\ SleepSound /\ InCalls /\ Running
      /\ MutexTyped /\ DeadFree /\ OwnersKnow /\ OwnersApart /\ Unraised /\ NoInversion
      /\ c \in Thread /\ c # NULL /\ c # Idle /\ c = current /\ inside = NULL
      /\ isr = "none" /\ ~pend
      /\ state[c] = "READY" /\ object[c] = NULL /\ arg[c] = NULL /\ Idle \in Thread
      /\ NULL \notin Mutexes /\ \A t \in Task : t \in Thread /\ t # Idle /\ t # NULL
  BY <1>1, InvariantParts, RunningOwner, IpcAssumption DEF LocksSound, Thread, Mutexes
<1>3. o # NULL => state[o] = "READY" \/ prio[o] = Priority[o]
  <2>1. SUFFICES ASSUME o # NULL, state[o] # "READY" PROVE prio[o] = Priority[o]
    OBVIOUS
  <2>2. o \in Task /\ object[o] = NULL /\ o # c /\ state[o] = "BLOCK"
    BY <1>2, <2>1, OwnerFacts DEF TasksTyped
  <2>3. o \in Calls["delay"]
    BY <1>2, <2>2 DEF InCalls
  <2>4. Unboosted(o)
    BY <1>1, <2>2, <2>3 DEF SleepersKeep
  <2>. QED
    BY <1>2, <2>2, <2>4 DEF Unraised
<1>4. /\ Linked(r.lists, ReadyTasks, object, r.prio)
      /\ r.prio \in [Thread -> Prio]
      /\ \A t \in Thread : r.prio[t] = IF t = o THEN Priority[t] ELSE prio[t]
  BY <1>3, Restores
<1> HIDE DEF r
<1>5. ListsSound' /\ lists' \in Lists
  <2>1. ReadyTasks' = ReadyTasks
    BY <1>1 DEF ReadyTasks
  <2>. QED
    BY <1>1, <1>4, <2>1 DEF ListsSound, Linked, Placed
<1>6. TasksTyped' /\ SleepSound'
  BY <1>1, <1>2, <1>4, <1>5 DEF TasksTyped, SleepSound
<1>7. CpuTyped' /\ MutexTyped'
  BY <1>1, <1>2, MutexAssumption DEF CpuTyped, MutexTyped, Link
<1>8. /\ arg'[c] = m /\ pc'[c] = "section" /\ pc'[Idle] = pc[Idle]
      /\ \A t \in Thread : t # c => pc'[t] = pc[t]
      /\ \A t \in Task : t # c => arg'[t] = arg[t]
      /\ owner'[m] = NULL /\ nest'[m] = 0 /\ \A t \in Task : held'[m][t] = 0
      /\ \A n \in Mutexes : n # m => /\ owner'[n] = owner[n] /\ nest'[n] = nest[n]
                                     /\ held'[n] = held[n]
  BY <1>1, <1>2 DEF CpuTyped, MutexTyped
<1>9. InCalls'
  BY <1>1, <1>2, <1>8 DEF InCalls
<1>10. Running'
  BY <1>1, <1>2, <1>8 DEF Running
<1>11. DeadFree'
  BY <1>1, <1>2, <1>8 DEF DeadFree
<1>12. \A t \in Task, n \in Mutexes : Granted(t, n)' <=> Granted(t, n)
  BY <1>1, <1>2, <1>8 DEF Granted
<1>13. OwnersKnow'
  <2>1. SUFFICES ASSUME NEW n \in Mutexes, NEW t \in Task PROVE OwnersKnow!(n, t)'
    BY DEF OwnersKnow
  <2>2. CASE n = m
    BY <1>1, <1>2, <1>8, <2>2
  <2>3. CASE n # m /\ t = c
    BY <1>1, <1>2, <1>8, <1>12, <2>3 DEF OwnersKnow, Granted
  <2>4. CASE n # m /\ t # c
    BY <1>1, <1>2, <1>8, <1>12, <2>4 DEF OwnersKnow
  <2>. QED
    BY <2>2, <2>3, <2>4
<1>14. OwnersApart'
  BY <1>2, <1>8 DEF OwnersApart
<1>15. Unraised'
  <2>1. prio'[Idle] = IDLE_PRIORITY
    <3>1. o # Idle
      BY <1>2, OwnerFacts, IpcAssumption
    <3>. QED
      BY <1>1, <1>2, <1>4, <3>1 DEF Unraised
  <2>2. SUFFICES ASSUME NEW t \in Task, t # o,
                        (\A n \in Mutexes : owner'[n] # t) \/ Unboosted(t)
                 PROVE  prio[t] = Priority[t]
    BY <1>1, <1>2, <1>4, <2>1 DEF Unraised, Unboosted
  <2>3. (\A n \in Mutexes : owner'[n] # t) => \A n \in Mutexes : owner[n] # t
    BY <1>8, <2>2
  <2>. QED
    BY <1>2, <2>2, <2>3 DEF Unraised
<1>16. NoInversion'
  <2>1. SUFFICES ASSUME NEW n \in alive', NEW t \in Task, object'[t] = n
                 PROVE  owner'[n] # NULL /\ prio'[owner'[n]] <= prio'[t]
    BY DEF NoInversion
  <2>2. /\ n \in alive /\ n \in Mutexes /\ n # m /\ n # NULL /\ object[t] = n
    BY <1>1, <1>2, <2>1 DEF MutexTyped
  <2>3. owner[n] # NULL /\ prio[owner[n]] <= prio[t]
    BY <1>2, <2>2 DEF NoInversion
  <2>4. owner[n] # o /\ owner[n] \in Thread
    BY <1>2, <2>2, <2>3, OwnerFacts DEF OwnersApart
  <2>5. t # o
    BY <1>2, <2>2 DEF OwnersKnow
  <2>. QED
    BY <1>1, <1>2, <1>4, <1>8, <2>2, <2>3, <2>4, <2>5
<1>. QED
  BY <1>5, <1>6, <1>7, <1>9, <1>10, <1>11, <1>13, <1>14, <1>15, <1>16, InvariantNext
  DEF LocksSound

\* flyos_mutex_delete ends when nobody waits any more.
LEMMA DeleteEndStep ==
    ASSUME IInv, NEW c \in Task, DeleteEnd(c)
    PROVE  IInv'
<1>1. /\ inside = c /\ ~HasWaiter(arg[c]) /\ inside' = NULL
      /\ arg' = [arg EXCEPT ![c] = NULL] /\ pc' = [pc EXCEPT ![c] = "schedule"]
      /\ UNCHANGED taskVars /\ current' = current /\ pend' = pend /\ isr' = isr
      /\ alive' = alive /\ owner' = owner /\ nest' = nest /\ original' = original
      /\ held' = held
  BY DEF DeleteEnd, Goto, mutexVars
<1>2. /\ TasksTyped /\ CpuTyped /\ ListsSound /\ SleepSound /\ InCalls /\ Running
      /\ MutexTyped /\ DeadFree /\ OwnersKnow /\ OwnersApart /\ Unraised /\ NoInversion
      /\ c \in Thread /\ c # NULL /\ c # Idle /\ Idle \in Thread
      /\ NULL \notin Mutexes /\ \A t \in Task : t \in Thread /\ t # Idle /\ t # NULL
  BY InvariantParts, IpcAssumption DEF LocksSound, Thread, Mutexes
<1>3. /\ c = current /\ pc[c] = "section" /\ ~pend /\ isr = "none"
      /\ arg[c] \in Mutexes \ alive
      /\ state[c] = "READY" /\ object[c] = NULL
  <2>1. /\ c = current /\ pc[c] = "section" /\ ~pend /\ isr = "none"
        /\ arg[c] \in Mutexes \ alive
    BY <1>1, <1>2 DEF Running
  <2>2. state[c] = "READY"
    BY <1>2, <2>1 DEF InCalls, TasksTyped
  <2>. QED
    BY <1>2, <2>1, <2>2 DEF SleepSound
<1>4. \A t \in Thread : object[t] # arg[c]
  BY <1>1, <1>2, <1>3, WaiterFacts DEF ListsSound, Mutexes
<1>5. /\ TasksTyped' /\ ListsSound' /\ SleepSound'
      /\ state' = state /\ object' = object /\ prio' = prio /\ err' = err
  BY <1>1, TasksStay DEF taskVars
<1>6. /\ arg'[c] = NULL /\ pc'[c] = "schedule" /\ pc'[Idle] = pc[Idle]
      /\ \A t \in Task : t # c => pc'[t] = pc[t] /\ arg'[t] = arg[t]
      /\ CpuTyped' /\ MutexTyped'
  BY <1>1, <1>2 DEF CpuTyped, MutexTyped, Link
<1>7. InCalls' /\ Running'
  BY <1>1, <1>2, <1>3, <1>5, <1>6 DEF InCalls, Running
<1>8. DeadFree'
  BY <1>1, <1>2, <1>4, <1>5 DEF DeadFree
<1>9. \A t \in Task, n \in Mutexes : Granted(t, n)' <=> Granted(t, n)
  BY <1>2, <1>3, <1>5, <1>6 DEF Granted
<1>10. OwnersKnow'
  <2>1. SUFFICES ASSUME NEW n \in Mutexes, NEW t \in Task PROVE OwnersKnow!(n, t)'
    BY DEF OwnersKnow
  <2>2. CASE t = c
    BY <1>1, <1>2, <1>3, <1>5, <1>6, <1>9, <2>2 DEF OwnersKnow
  <2>3. CASE t # c
    BY <1>1, <1>2, <1>5, <1>6, <1>9, <2>3 DEF OwnersKnow
  <2>. QED
    BY <2>2, <2>3
<1>11. OwnersApart' /\ Unraised' /\ NoInversion'
  BY <1>1, <1>2, <1>5 DEF OwnersApart, Unraised, NoInversion
<1>. QED
  BY <1>5, <1>6, <1>7, <1>8, <1>10, <1>11, InvariantNext DEF LocksSound

\* The last flyos_mutex_unlock restores the owner's priority and passes the mutex
\* to the most urgent task that waits.
LEMMA UnlockStep ==
    ASSUME IInv, NEW c \in Task, NEW m \in Mutexes, Unlock(c, m)
    PROVE  IInv'
<1> DEFINE r == Restore(m)
           t == HighestWaiter(m)
           P == r.prio
           L == r.lists
<1>1. /\ Runs(c) /\ pc[c] = "user" /\ m \in alive /\ owner[m] = c /\ nest[m] = 1
      /\ held' = [held EXCEPT ![m][c] = held[m][c] - 1]
      /\ prio' = P
      /\ IF HasWaiter(m) /\ t # NULL
         THEN /\ Unblock(t, WaitRemove(L, m, t, P[t]), "OK", P[t])
              /\ owner' = [owner EXCEPT ![m] = t]
              /\ original' = [original EXCEPT ![m] = P[t]]
              /\ nest' = [nest EXCEPT ![m] = 1]
              /\ pc' = [pc EXCEPT ![c] = "schedule"]
         ELSE /\ lists' = L
              /\ owner' = [owner EXCEPT ![m] = NULL] /\ nest' = [nest EXCEPT ![m] = 0]
              /\ state' = state /\ object' = object /\ err' = err /\ dq' = dq
              /\ left' = left /\ original' = original /\ pc' = pc
      /\ current' = current /\ pend' = pend /\ isr' = isr /\ inside' = inside
      /\ alive' = alive /\ arg' = arg
  BY DEF Unlock, MayCall, Own, Goto, cpuVars
<1>2. /\ TasksTyped /\ CpuTyped /\ ListsSound /\ SleepSound /\ InCalls /\ Running
      /\ MutexTyped /\ DeadFree /\ OwnersKnow /\ OwnersApart /\ Unraised /\ NoInversion
      /\ c \in Thread /\ c # NULL /\ c # Idle /\ c = current /\ inside = NULL
      /\ isr = "none" /\ ~pend
      /\ state[c] = "READY" /\ object[c] = NULL /\ arg[c] = NULL /\ Idle \in Thread
      /\ m \in Queue /\ NULL \notin Mutexes
      /\ \A u \in Task : u \in Thread /\ u # Idle /\ u # NULL
  BY <1>1, InvariantParts, RunningOwner, IpcAssumption DEF LocksSound, Thread, Mutexes
<1>3. held[m][c] = 1
  BY <1>1, <1>2 DEF OwnersKnow, Granted
<1>4. /\ Linked(L, ReadyTasks, object, P)
      /\ P \in [Thread -> Prio]
      /\ \A u \in Thread : P[u] = IF u = c THEN Priority[u] ELSE prio[u]
  BY <1>1, <1>2, Restores
<1> HIDE DEF P, L, t
<1>5. held' = [held EXCEPT ![m][c] = 0]
  BY <1>1, <1>3
<1>6. /\ held'[m][c] = 0
      /\ \A u \in Task : u # c => held'[m][u] = held[m][u] /\ held[m][u] = 0
      /\ \A n \in Mutexes : n # m => held'[n] = held[n] /\ owner[n] # c
  BY <1>1, <1>2, <1>5 DEF MutexTyped, OwnersKnow, OwnersApart
<1>7. held' \in [Mutexes -> [Task -> 0..MAX_NEST]]
  BY <1>2, <1>5, MutexAssumption DEF MutexTyped
<1>8. /\ HasWaiter(m) <=> \E u \in Thread : object[u] = m
      /\ HasWaiter(m) => /\ t \in Thread /\ object[t] = m
                         /\ \A u \in Thread : object[u] = m => prio[t] <= prio[u]
  BY <1>2, WaiterFacts DEF ListsSound, t
<1>9. \A u \in Task : (\A n \in Mutexes : owner[n] # u) \/ Unboosted(u) \/ u = c
                          => P[u] = Priority[u]
  BY <1>2, <1>4 DEF Unraised
<1>10. P[Idle] = IDLE_PRIORITY
  BY <1>2, <1>4 DEF Unraised
<1>11. CASE HasWaiter(m)
  <2>1. /\ t \in Task /\ t # Idle /\ t # NULL /\ t # c /\ t \in Thread
        /\ state[t] = "BLOCK" /\ object[t] = m /\ arg[t] = m
        /\ pc[t] \in {"wait", "return"}
        /\ \A n \in Mutexes : owner[n] # t /\ held[n][t] = 0
        /\ P[t] = Priority[t] /\ P[t] = prio[t] /\ P[t] \in Prio
    BY <1>2, <1>4, <1>8, <1>11, WaiterOwnsNothing
  <2>2. /\ Unblock(t, WaitRemove(L, m, t, P[t]), "OK", P[t])
        /\ owner' = [owner EXCEPT ![m] = t]
        /\ original' = [original EXCEPT ![m] = P[t]]
        /\ nest' = [nest EXCEPT ![m] = 1]
        /\ pc' = [pc EXCEPT ![c] = "schedule"]
    BY <1>1, <1>11, <2>1
  <2>3. /\ TasksTyped' /\ ListsSound' /\ SleepSound'
        /\ state' = [state EXCEPT ![t] = "READY"]
        /\ object' = [object EXCEPT ![t] = NULL]
        /\ err' = [err EXCEPT ![t] = "OK"]
    <3> DEFINE w == WaitRemove(L, m, t, P[t])
    <3>1. w = IF object[t] = NULL THEN L ELSE WaitRemove(L, object[t], t, P[t])
      BY <1>2, <2>1
    <3> HIDE DEF w
    <3>2. /\ isr' = isr /\ prio' = P /\ Linked(L, ReadyTasks, object, P)
          /\ t \in Thread /\ state[t] = "BLOCK" /\ Unblock(t, w, "OK", P[t])
      BY <1>1, <1>4, <2>1, <2>2 DEF w
    <3>. QED
      BY <3>1, <3>2, Rouses
  <2>4. /\ state'[t] = "READY" /\ object'[t] = NULL /\ err'[t] = "OK"
        /\ \A u \in Thread : u # t => /\ state'[u] = state[u] /\ object'[u] = object[u]
                                      /\ err'[u] = err[u]
        /\ pc'[c] = "schedule" /\ \A u \in Thread : u # c => pc'[u] = pc[u]
        /\ owner'[m] = t /\ nest'[m] = 1 /\ original'[m] = Priority[t]
        /\ \A n \in Mutexes : n # m => /\ owner'[n] = owner[n] /\ nest'[n] = nest[n]
                                       /\ original'[n] = original[n]
    BY <1>2, <2>1, <2>2, <2>3 DEF TasksTyped, CpuTyped, MutexTyped
  <2>5. CpuTyped' /\ MutexTyped'
    BY <1>1, <1>2, <1>7, <2>1, <2>2, MutexAssumption DEF CpuTyped, MutexTyped
  <2>6. \A u \in Thread : state'[u] = "BLOCK" => u # t /\ u # c /\ state[u] = "BLOCK"
    BY <1>2, <2>1, <2>4
  <2>7. InCalls'
    BY <1>1, <1>2, <2>1, <2>4, <2>6 DEF InCalls
  <2>8. Running'
    BY <1>1, <1>2, <2>6 DEF Running
  <2>9. DeadFree'
    BY <1>1, <1>2, <2>4 DEF DeadFree
  <2>10. \A u \in Task, n \in Mutexes : Granted(u, n)' <=> Granted(u, n) \/ (u = t /\ n = m)
    <3> SUFFICES ASSUME NEW u \in Task, NEW n \in Mutexes
                 PROVE  Granted(u, n)' <=> Granted(u, n) \/ (u = t /\ n = m)
      OBVIOUS
    <3>1. CASE u = t
      <4>1. pc'[t] = pc[t] /\ arg'[t] = m /\ state'[t] = "READY" /\ err'[t] = "OK"
        BY <1>1, <2>1, <2>4
      <4>2. state[t] # "READY"
        BY <2>1
      <4>. QED
        BY <2>1, <3>1, <4>1, <4>2 DEF Granted
    <3>2. CASE u = c
      <4>1. pc'[c] = "schedule" /\ pc[c] = "user" /\ u # t
        BY <1>1, <2>1, <2>4, <3>2
      <4>. QED
        BY <3>2, <4>1 DEF Granted
    <3>3. CASE u \notin {t, c}
      <4>1. /\ pc'[u] = pc[u] /\ arg'[u] = arg[u] /\ state'[u] = state[u]
            /\ err'[u] = err[u] /\ u # t
        BY <1>1, <1>2, <2>4, <3>3
      <4>. QED
        BY <4>1 DEF Granted
    <3>. QED
      BY <3>1, <3>2, <3>3
  <2>11. OwnersKnow'
    <3>1. SUFFICES ASSUME NEW n \in Mutexes, NEW u \in Task PROVE OwnersKnow!(n, u)'
      BY DEF OwnersKnow
    <3>2. CASE n = m /\ u = t
      BY <1>1, <1>2, <1>6, <2>1, <2>4, <2>10, <3>2
    <3>3. CASE n = m /\ u = c
      BY <1>1, <1>2, <1>6, <2>1, <2>4, <2>10, <3>3 DEF OwnersKnow, Granted
    <3>4. CASE n = m /\ u # t /\ u # c
      BY <1>1, <1>2, <1>6, <2>1, <2>4, <2>10, <3>4 DEF OwnersKnow
    <3>5. CASE n # m
      <4>1. CASE u = t
        BY <1>1, <1>2, <1>6, <2>1, <2>4, <2>10, <3>5, <4>1 DEF OwnersKnow
      <4>2. CASE u # t
        <5>1. /\ owner'[n] = owner[n] /\ nest'[n] = nest[n] /\ held'[n] = held[n]
              /\ original'[n] = original[n] /\ object'[u] = object[u]
              /\ arg' = arg /\ alive' = alive
          BY <1>1, <1>2, <1>6, <2>4, <3>5, <4>2
        <5>2. Granted(u, n)' <=> Granted(u, n)
          BY <2>10, <3>5
        <5>. QED
          BY <1>2, <5>1, <5>2 DEF OwnersKnow
      <4>. QED
        BY <4>1, <4>2
    <3>. QED
      BY <3>2, <3>3, <3>4, <3>5
  <2>12. OwnersApart'
    BY <1>2, <2>1, <2>4 DEF OwnersApart
  <2>13. Unraised'
    <3>1. SUFFICES ASSUME NEW u \in Task,
                          (\A n \in Mutexes : owner'[n] # u) \/ Unboosted(u)
                   PROVE  P[u] = Priority[u]
      BY <1>1, <1>10 DEF Unraised, Unboosted
    <3>2. u # c => ((\A n \in Mutexes : owner'[n] # u) => \A n \in Mutexes : owner[n] # u)
      BY <1>1, <2>4
    <3>. QED
      BY <1>9, <3>1, <3>2
  <2>14. NoInversion'
    <3>1. SUFFICES ASSUME NEW n \in alive', NEW u \in Task, object'[u] = n
                   PROVE  owner'[n] # NULL /\ prio'[owner'[n]] <= prio'[u]
      BY DEF NoInversion
    <3>2. /\ n \in alive /\ n \in Mutexes /\ n # NULL /\ u # t /\ object[u] = n
          /\ u # c /\ P[u] = prio[u]
      BY <1>1, <1>2, <1>4, <2>4, <3>1 DEF MutexTyped
    <3>3. CASE n = m
      BY <1>1, <1>2, <1>8, <1>11, <2>1, <2>4, <3>2, <3>3
    <3>4. CASE n # m
      <4>1. owner[n] # NULL /\ prio[owner[n]] <= prio[u]
        BY <1>2, <3>2 DEF NoInversion
      <4>2. owner[n] # c /\ owner[n] \in Thread
        BY <1>6, <3>2, <3>4, <4>1, OwnerFacts
      <4>. QED
        BY <1>1, <1>4, <2>4, <3>2, <3>4, <4>1, <4>2
    <3>. QED
      BY <3>3, <3>4
  <2>. QED
    BY <2>3, <2>5, <2>7, <2>8, <2>9, <2>11, <2>12, <2>13, <2>14, InvariantNext DEF LocksSound
<1>12. CASE ~HasWaiter(m)
  <2>1. /\ lists' = L
        /\ owner' = [owner EXCEPT ![m] = NULL] /\ nest' = [nest EXCEPT ![m] = 0]
        /\ state' = state /\ object' = object /\ err' = err /\ dq' = dq
        /\ left' = left /\ original' = original /\ pc' = pc
    BY <1>1, <1>12
  <2>2. ListsSound' /\ lists' \in Lists
    <3>1. ReadyTasks' = ReadyTasks
      BY <2>1 DEF ReadyTasks
    <3>. QED
      BY <1>1, <1>4, <2>1, <3>1 DEF ListsSound, Linked, Placed
  <2>3. TasksTyped' /\ SleepSound'
    BY <1>1, <1>2, <1>4, <2>1, <2>2 DEF TasksTyped, SleepSound
  <2>4. CpuTyped' /\ MutexTyped'
    BY <1>1, <1>2, <1>7, <2>1, MutexAssumption DEF CpuTyped, MutexTyped
  <2>5. /\ owner'[m] = NULL /\ nest'[m] = 0
        /\ \A n \in Mutexes : n # m => owner'[n] = owner[n] /\ nest'[n] = nest[n]
    BY <1>2, <2>1 DEF MutexTyped
  <2>6. InCalls' /\ Running'
    BY <1>1, <1>2, <2>1 DEF InCalls, Running
  <2>7. DeadFree'
    BY <1>1, <1>2, <2>1, <2>5 DEF DeadFree
  <2>8. \A u \in Task, n \in Mutexes : Granted(u, n)' <=> Granted(u, n)
    BY <1>1, <2>1 DEF Granted
  <2>9. OwnersKnow'
    <3>1. SUFFICES ASSUME NEW n \in Mutexes, NEW u \in Task PROVE OwnersKnow!(n, u)'
      BY DEF OwnersKnow
    <3>2. CASE n = m /\ u = c
      BY <1>1, <1>2, <1>6, <2>5, <2>8, <3>2 DEF Granted
    <3>3. CASE n = m /\ u # c
      BY <1>1, <1>2, <1>6, <2>5, <2>8, <3>3 DEF OwnersKnow
    <3>4. CASE n # m
      BY <1>1, <1>2, <1>6, <2>1, <2>5, <2>8, <3>4 DEF OwnersKnow
    <3>. QED
      BY <3>2, <3>3, <3>4
  <2>10. OwnersApart'
    BY <1>2, <2>5 DEF OwnersApart
  <2>11. Unraised'
    <3>1. SUFFICES ASSUME NEW u \in Task,
                          (\A n \in Mutexes : owner'[n] # u) \/ Unboosted(u)
                   PROVE  P[u] = Priority[u]
      BY <1>1, <1>10 DEF Unraised, Unboosted
    <3>2. u # c => ((\A n \in Mutexes : owner'[n] # u) => \A n \in Mutexes : owner[n] # u)
      BY <1>1, <2>5
    <3>. QED
      BY <1>9, <3>1, <3>2
  <2>12. NoInversion'
    <3>1. SUFFICES ASSUME NEW n \in alive', NEW u \in Task, object'[u] = n
                   PROVE  owner'[n] # NULL /\ prio'[owner'[n]] <= prio'[u]
      BY DEF NoInversion
    <3>2. /\ n \in alive /\ n \in Mutexes /\ n # NULL /\ object[u] = n /\ n # m
          /\ u # c /\ P[u] = prio[u]
      BY <1>1, <1>2, <1>4, <1>8, <1>12, <2>1, <3>1 DEF MutexTyped
    <3>3. owner[n] # NULL /\ prio[owner[n]] <= prio[u]
      BY <1>2, <3>2 DEF NoInversion
    <3>4. owner[n] # c /\ owner[n] \in Thread
      BY <1>6, <3>2, <3>3, OwnerFacts
    <3>. QED
      BY <1>1, <1>4, <2>5, <3>2, <3>3, <3>4
  <2>. QED
    BY <2>2, <2>3, <2>4, <2>6, <2>7, <2>9, <2>10, <2>11, <2>12, InvariantNext DEF LocksSound
<1>. QED
  BY <1>11, <1>12

-----------------------------------------------------------------------------
(* The theorems                                                            *)

\* No mutex exists when the kernel starts, and every task is READY.
LEMMA InitInvariant == Init => IInv
<1> SUFFICES ASSUME Init PROVE IInv
  OBVIOUS
<1>1. KernelInv
  BY KernelStarts DEF Init
<1>2. /\ prio = [t \in Thread |-> IF t = Idle THEN IDLE_PRIORITY ELSE Priority[t]]
      /\ state = [t \in Thread |-> "READY"] /\ object = [t \in Thread |-> NULL]
      /\ dq = <<>> /\ inside = NULL /\ pc = [t \in Thread |-> "user"]
      /\ alive = {} /\ owner = [m \in Mutexes |-> NULL] /\ nest = [m \in Mutexes |-> 0]
      /\ original = [m \in Mutexes |-> 0] /\ arg = [t \in Task |-> NULL]
      /\ held = [m \in Mutexes |-> [t \in Task |-> 0]]
  BY DEF Init, KernelInit
<1>3. KernelTypeOK /\ ListsSound /\ SleepSound
  <2>1. KernelTypeOK /\ ListsSound /\ TasksSound
    BY <1>1 DEF KernelInv
  <2>2. ToSet(dq) = {}
    BY <1>2 DEF ToSet
  <2>. QED
    BY <1>2, <2>1, <2>2 DEF TasksSound, SleepSound
<1>4. TypeOK
  BY <1>2, <1>3, MutexAssumption, IpcAssumption DEF TypeOK, Prio
<1>5. /\ Idle \in Thread /\ NULL \notin Task /\ NULL \notin Mutexes
      /\ \A t \in Task : t \in Thread /\ t # Idle
  BY IpcAssumption DEF Thread, Mutexes
<1>6. InCalls /\ Running
  BY <1>2, <1>3, <1>5 DEF InCalls, Running, KernelTypeOK
<1>7. DeadFree /\ OwnersKnow /\ OwnersApart /\ Unraised /\ NoInversion
  BY <1>2, <1>5 DEF DeadFree, OwnersKnow, OwnersApart, Unraised, NoInversion
<1>. QED
  BY <1>3, <1>4, <1>6, <1>7 DEF IInv

LEMMA NextInvariant ==
    ASSUME OneAtATime, SliceAlone, SleepersKeep, IInv, [Next]_vars
    PROVE  IInv'
<1>1. ASSUME NEW c \in Task, Call(c)
      PROVE  IInv'
  <2>1. ASSUME NEW m \in Mutexes, Create(c, m)
        PROVE  IInv'
    BY <2>1, CreateStep
  <2>2. ASSUME NEW m \in Mutexes, LockFree(c, m)
        PROVE  IInv'
    BY <2>2, LockFreeStep
  <2>3. ASSUME NEW m \in Mutexes, LockAgain(c, m) \/ UnlockInner(c, m)
        PROVE  IInv'
    BY <2>3, NestStep
  <2>4. ASSUME NEW m \in Mutexes, NEW timeout \in Timeouts, LockBlock(c, m, timeout)
        PROVE  IInv'
    BY <2>4, LockBlockStep
  <2>5. ASSUME NEW m \in Mutexes, Unlock(c, m)
        PROVE  IInv'
    BY <2>5, UnlockStep
  <2>6. ASSUME NEW m \in Mutexes, DeleteBegin(c, m)
        PROVE  IInv'
    BY <2>6, DeleteBeginStep
  <2>7. ASSUME NEW ticks \in Timeouts, Delay(c, ticks)
        PROVE  IInv'
    BY <2>7, DelayStep
  <2>. QED
    BY <1>1, <2>1, <2>2, <2>3, <2>4, <2>5, <2>6, <2>7 DEF Call
<1>2. ASSUME NEW c \in Task, Continue(c)
      PROVE  IInv'
  <2>1. CASE CallScheduler(c) /\ UNCHANGED <<mutexVars, arg, held>>
    BY <2>1, CallSchedulerStep
  <2>2. CASE Return(c)
    BY <2>2, ReturnStep
  <2>3. CASE DeleteWake(c)
    BY <2>3, DeleteWakeStep
  <2>4. CASE DeleteEnd(c)
    BY <2>4, DeleteEndStep
  <2>. QED
    BY <1>2, <2>1, <2>2, <2>3, <2>4 DEF Continue
<1>3. CASE Expire
  BY <1>3, ExpireStep
<1>4. CASE Handler /\ UNCHANGED <<mutexVars, arg, held>>
  BY <1>4, TickStep, SliceStep, TickEndStep, SwitchStep DEF Handler
<1>5. CASE UNCHANGED vars
  <2>1. /\ UNCHANGED kernelVars /\ UNCHANGED <<mutexVars, arg, held>>
    BY <1>5 DEF vars
  <2>2. /\ TasksTyped' /\ ListsSound' /\ SleepSound' /\ CpuTyped'
        /\ state' = state /\ object' = object /\ prio' = prio /\ err' = err
        /\ pc' = pc /\ inside' = inside /\ current' = current /\ isr' = isr
        /\ pend' = pend
    BY <2>1, KernelStays
  <2>3. LocksSound'
    BY <2>1, <2>2, LocksStay
  <2>4. InCalls' /\ Running'
    <3>1. arg' = arg /\ alive' = alive
      BY <2>1 DEF mutexVars
    <3>. QED
      BY <2>2, <3>1, InvariantParts DEF InCalls, Running
  <2>. QED
    BY <2>2, <2>3, <2>4, InvariantNext
<1>. QED
  BY <1>1, <1>2, <1>3, <1>4, <1>5 DEF Next

\* The invariant that the theorems rest on.
THEOREM Invariance ==
    ASSUME OneAtATime, SliceAlone, SleepersKeep PROVE Spec => []IInv
<1>1. Init => IInv
  BY InitInvariant
<1>2. IInv /\ [Next]_vars => IInv'
  BY NextInvariant
<1>. QED
  BY <1>1, <1>2, PTL DEF Spec

\* Every variable has its type: the nesting of a mutex stays within its bound.
THEOREM TypesCorrect ==
    ASSUME OneAtATime, SliceAlone, SleepersKeep PROVE Spec => []TypeOK
<1>1. IInv => TypeOK
  BY DEF IInv
<1>. QED
  BY <1>1, Invariance, PTL

\* One task has the lock, and it knows (flyos_mutex_lock and flyos_mutex_unlock).
THEOREM OwnershipHolds ==
    ASSUME OneAtATime, SliceAlone, SleepersKeep PROVE Spec => []Ownership
<1>1. ASSUME IInv PROVE Ownership
  <2>1. MutexTyped /\ OwnersKnow
    BY <1>1, InvariantParts DEF LocksSound
  <2>2. SUFFICES ASSUME NEW m \in alive
                 PROVE  /\ \A t \in Task :
                            /\ held[m][t] > 0 => owner[m] = t /\ nest[m] = held[m][t]
                            /\ Granted(t, m)  => owner[m] = t /\ nest[m] = 1
                        /\ owner[m] # NULL => held[m][owner[m]] > 0 \/ Granted(owner[m], m)
    BY DEF Ownership
  <2>3. m \in Mutexes /\ owner[m] \in Task \cup {NULL}
    BY <2>1 DEF MutexTyped
  <2>4. ASSUME NEW t \in Task
        PROVE  /\ held[m][t] > 0 => owner[m] = t /\ nest[m] = held[m][t]
               /\ Granted(t, m)  => owner[m] = t /\ nest[m] = 1
    <3>1. CASE owner[m] = t
      BY <2>1, <2>3, <3>1 DEF OwnersKnow, Granted
    <3>2. CASE owner[m] # t
      BY <2>1, <2>3, <3>2 DEF OwnersKnow
    <3>. QED
      BY <3>1, <3>2
  <2>5. owner[m] # NULL => held[m][owner[m]] > 0 \/ Granted(owner[m], m)
    BY <2>1, <2>3 DEF OwnersKnow
  <2>. QED
    BY <2>4, <2>5
<1>. QED
  BY <1>1, Invariance, PTL

\* An owner is as urgent as every task that waits for its mutex
\* (mutex_priority_inherit_chain).
THEOREM InversionAvoided ==
    ASSUME OneAtATime, SliceAlone, SleepersKeep PROVE Spec => []NoInversion
<1>1. IInv => NoInversion
  BY DEF IInv
<1>. QED
  BY <1>1, Invariance, PTL

\* What a task has inherited it loses with the mutex (mutex_priority_restore).
THEOREM BoostsEnd ==
    ASSUME OneAtATime, SliceAlone, SleepersKeep PROVE Spec => []BoostEnds
<1>1. ASSUME IInv PROVE BoostEnds
  <2>1. MutexTyped /\ DeadFree /\ Unraised /\ NULL \notin Task
    BY <1>1, InvariantParts, IpcAssumption DEF LocksSound, Thread
  <2>2. ASSUME NEW t \in Task, \A m \in alive : owner[m] # t
        PROVE  \A m \in Mutexes : owner[m] # t
    BY <2>1, <2>2 DEF DeadFree
  <2>. QED
    BY <2>1, <2>2 DEF BoostEnds, Unraised
<1>. QED
  BY <1>1, Invariance, PTL

\* The links of tasks stay sound while priorities change (flyos_ipc.c 660-790).
THEOREM ListsCorrect ==
    ASSUME OneAtATime, SliceAlone, SleepersKeep PROVE Spec => []LinksSound
<1>1. ASSUME IInv PROVE LinksSound
  <2>1. PICK rank : Placed(lists, ReadyTasks, object, prio, rank)
    BY <1>1 DEF IInv, ListsSound, Linked
  <2>2. /\ lists.next \in [Thread -> Link] /\ lists.prev \in [Thread -> Link]
        /\ lists.wait \in [Queue -> [Prio -> Link]]
        /\ ReadyTasks \subseteq Thread
        /\ object \in [Thread -> Queue \cup {NULL}] /\ prio \in [Thread -> Prio]
        /\ rank \in [Thread -> Int]
        /\ Rings(lists.next, lists.prev, lists.ready, ReadyTasks, prio, rank)
        /\ Lines(lists.next, lists.prev, lists.wait, object, prio, rank)
        /\ \A x \in Prio : x \in lists.bits <=> lists.ready[x] # NULL
        /\ \A q \in Queue, x \in Prio : x \in lists.waitBits[q] <=> lists.wait[q][x] # NULL
    BY <2>1, PlacedMeans
  <2>3. IsFiniteSet(Thread) /\ IsFiniteSet(ReadyTasks)
    <3>1. IsFiniteSet(Thread)
      BY IpcAssumption, FS_AddElement DEF Thread
    <3>. QED
      BY <2>2, <3>1, FS_Subset
  <2>4. ASSUME NEW p \in Prio
        PROVE  \E s \in SetToSeqs({t \in Thread : state[t] = "READY" /\ prio[t] = p}) :
                  IsRing(s, lists.ready[p])
    <3>1. {t \in Thread : state[t] = "READY" /\ prio[t] = p} = {t \in ReadyTasks : prio[t] = p}
      BY DEF ReadyTasks
    <3>. QED
      BY <2>2, <2>3, <3>1, RingsAreRings
  <2>5. ASSUME NEW q \in Queue, NEW p \in Prio
        PROVE  \E s \in SetToSeqs({t \in Thread : object[t] = q /\ prio[t] = p}) :
                  IsList(s, lists.wait[q][p])
    BY <2>2, <2>3, LinesAreLists
  <2>6. \A t \in Thread : state[t] = "BLOCK" <=> object[t] # NULL \/ t \in ToSet(dq)
    BY <1>1 DEF IInv, SleepSound
  <2>7. \A t \in ToSet(dq) : t \in Thread
    BY <1>1, ToSetMembers DEF IInv, SleepSound, GoodQueue
  <2>. QED
    BY <2>2, <2>4, <2>5, <2>6, <2>7 DEF LinksSound
<1>. QED
  BY <1>1, Invariance, PTL
=============================================================================
