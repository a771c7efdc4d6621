-------------------------- MODULE EventFlagsProofs --------------------------
(***************************************************************************)
(* What EventFlags says, for any number of tasks, priorities, flags and    *)
(* requests: no task waits for flags that are set, and the code implements *)
(* EventGroup.                                                             *)
(*                                                                         *)
(* The hard part is flyos_event_set.  Its three loops follow an index, and *)
(* cut the list that they walk along; the invariant says of every waiting  *)
(* task that could go on where the loops will still find it.               *)
(***************************************************************************)
EXTENDS EventFlags, IpcTasksProofs

-----------------------------------------------------------------------------
(* The inductive invariant                                                 *)

\* A task whose time slice may run out shares its priority with no other task
\* that waits (see MCSemaphoreSlice.cfg for what happens otherwise).
SliceAlone ==
    \A t \in Sliced \cap Calls["wait"] : \A u \in Calls["wait"] \ {t} :
        Priority[u] # Priority[t]

\* Tasks of one priority wait for different flags.  Without this the theorems
\* do not hold: when one of them is served or times out, the index forgets the
\* others (MCEventLost.cfg).
FlagsApart ==
    \A t \in Task \cap Calls["wait"] : \A u \in (Task \cap Calls["wait"]) \ {t} :
        Priority[u] = Priority[t] =>
            \A r \in Requests[t], s \in Requests[u] : r.flags \cap s.flags = {}

EventTyped ==
    /\ alive \in BOOLEAN
    /\ flags \subseteq Flag
    /\ flag_waiters \in [Flag -> SUBSET Prio]
    /\ want \in [Task -> Request \cup {NULL}]
    /\ set_flags \subseteq Flag
    /\ waiter_prios \subseteq Prio
    /\ at \in Link

\* The task waits as its call says.  The index leads to it.
Indexed(t) ==
    /\ t \in Calls["wait"]
    /\ want[t] \in Requests[t]
    /\ alive \/ inside # NULL
    /\ alive => \A f \in want[t].flags : prio[t] \in flag_waiters[f]

\* Only flyos_event_set uses the variables of its loops.
EventSound ==
    /\ ~Serving => set_flags = {} /\ waiter_prios = {} /\ at = NULL
    /\ at # NULL => object[at] # NULL
    /\ \A t \in Thread : object[t] # NULL => Indexed(t)

\* The tasks from a on in a list that next links.
Onward(next, a) ==
    {t \in Thread : a # NULL /\ \A S \in SUBSET Thread :
        a \in S /\ (\A u \in S : next[u] # NULL => next[u] \in S) => t \in S}

\* The loops of flyos_event_set are still going to look at t.
Ahead(t) ==
    \/ t \in Onward(lists.next, at)
    \/ prio[t] \in waiter_prios
    \/ want[t].flags \cap set_flags # {}

\* They are going to look at everybody whose condition holds.
NobodyOverlooked ==
    alive => \A t \in Task : object[t] # NULL /\ Met(flags, want[t]) => Ahead(t)

IInv ==
    /\ KernelInv
    /\ EventTyped
    /\ EventSound
    /\ NobodyOverlooked


-----------------------------------------------------------------------------
(* Walking along a list                                                    *)

\* A walk goes on from a to the next task of the old list, whether a leaves the
\* list meanwhile or not: nobody after a is passed over.
LEMMA Passing ==
    ASSUME NEW next \in [Thread -> Link], NEW after \in [Thread -> Link],
           NEW M, M \subseteq Thread, NULL \notin Thread,
           \A u \in M : next[u] # NULL => next[u] \in M,
           NEW a \in M,
           \A u \in M \ {a} : after[u] = next[u] \/ next[u] = a,
           NEW t \in Onward(next, a), t # a
    PROVE  t \in Onward(after, next[a])
<1>1. next[a] # NULL
  <2>1. CASE next[a] = NULL
    <3>1. {a} \in SUBSET Thread /\ \A u \in {a} : next[u] # NULL => next[u] \in {a}
      BY <2>1
    <3>. QED
      BY <3>1 DEF Onward
  <2>. QED
    BY <2>1
<1>2. ASSUME NEW S \in SUBSET Thread, next[a] \in S,
             \A u \in S : after[u] # NULL => after[u] \in S
      PROVE  t \in S
  <2> DEFINE T == (S \cap M) \cup {a}
  <2>1. T \in SUBSET Thread /\ a \in T
    OBVIOUS
  <2>2. \A u \in T : next[u] # NULL => next[u] \in T
    BY <1>1, <1>2
  <2>3. t \in T
    BY <2>1, <2>2 DEF Onward
  <2>. QED
    BY <2>3
<1>3. t \in Thread
  BY DEF Onward
<1>. QED
  BY <1>1, <1>2, <1>3 DEF Onward

\* From its head on, a list holds everybody who waits with its priority.
LEMMA HeadReaches ==
    ASSUME NEW m, NEW R, NEW W, NEW P, Linked(m, R, W, P),
           NEW q \in Queue, NEW t \in Thread, W[t] = q
    PROVE  t \in Onward(m.next, m.wait[q][P[t]])
<1> DEFINE p == P[t]
           h == m.wait[q][p]
<1>1. PICK rank : Placed(m, R, W, P, rank)
  BY DEF Linked
<1>2. /\ m.next \in [Thread -> Link] /\ m.prev \in [Thread -> Link]
      /\ m.wait \in [Queue -> [Prio -> Link]]
      /\ W \in [Thread -> Queue \cup {NULL}] /\ P \in [Thread -> Prio]
      /\ rank \in [Thread -> Int] /\ NULL \notin Queue /\ NULL \notin Thread
      /\ Lines(m.next, m.prev, m.wait, W, P, rank)
  BY <1>1, PlacedMeans
<1>3. p \in Prio /\ h \in Link /\ q # NULL
  BY <1>2
<1>4. /\ h # NULL /\ h \in Thread /\ W[h] = q /\ P[h] = p
      /\ \A u \in Thread : W[u] = q /\ P[u] = p => rank[h] <= rank[u]
  <2>1. h # NULL
    BY <1>2, <1>3 DEF Lines
  <2>. QED
    BY <1>2, <1>3, <2>1 DEF Lines, Link
<1>5. \A u \in Thread : W[u] = q /\ P[u] = p /\ u # h =>
          /\ m.prev[u] \in Thread /\ W[m.prev[u]] = q /\ P[m.prev[u]] = p
          /\ m.next[m.prev[u]] = u /\ rank[m.prev[u]] < rank[u]
  <2>. TAKE u \in Thread
  <2>. HAVE W[u] = q /\ P[u] = p /\ u # h
  <2>1. m.prev[u] # NULL
    BY <1>2, <1>3 DEF Lines
  <2>2. m.prev[u] \in Thread
    BY <1>2, <2>1 DEF Link
  <2>3. W[m.prev[u]] = q /\ P[m.prev[u]] = p /\ m.next[m.prev[u]] = u
    BY <1>2, <1>3, <2>1 DEF Lines
  <2>4. rank[m.prev[u]] < rank[m.next[m.prev[u]]]
    BY <1>2, <1>3, <2>2, <2>3 DEF Lines
  <2>. QED
    BY <2>2, <2>3, <2>4
<1>6. ASSUME NEW S \in SUBSET Thread, h \in S,
             \A u \in S : m.next[u] # NULL => m.next[u] \in S
      PROVE  t \in S
  <2> DEFINE T == {rank[u] - rank[h] : u \in {x \in Thread \ S : W[x] = q /\ P[x] = p}}
  <2> HIDE DEF h, p
  <2>1. SUFFICES ASSUME t \notin S PROVE FALSE
    OBVIOUS
  <2>2. T # {}
    BY <2>1 DEF p
  <2>3. T \subseteq Nat
    <3>. SUFFICES ASSUME NEW u \in Thread \ S, W[u] = q, P[u] = p
                  PROVE  rank[u] - rank[h] \in Nat
      OBVIOUS
    <3>. QED
      BY <1>2, <1>4
  <2>4. PICK x \in T : \A y \in T : x <= y
    BY <2>2, <2>3, Smallest
  <2>5. PICK u \in Thread \ S : W[u] = q /\ P[u] = p /\ x = rank[u] - rank[h]
    BY <2>4
  <2> DEFINE v == m.prev[u]
  <2>6. v \in Thread /\ W[v] = q /\ P[v] = p /\ m.next[v] = u /\ rank[v] < rank[u]
    BY <1>5, <1>6, <2>5
  <2>7. v \notin S
    BY <1>2, <1>6, <2>5, <2>6
  <2>8. rank[v] - rank[h] \in T
    BY <2>6, <2>7
  <2> HIDE DEF T, v
  <2>9. rank[u] - rank[h] <= rank[v] - rank[h]
    BY <2>4, <2>5, <2>8
  <2>. QED
    BY <1>2, <1>4, <2>5, <2>6, <2>9
<1>. QED
  BY <1>4, <1>6 DEF Onward

\* Waking t changes the links of no other waiting task but the one before t.
LEMMA OthersLinks ==
    ASSUME NEW m, NEW R, NEW W, NEW P, Linked(m, R, W, P),
           NEW q \in Queue, NEW t \in Thread, W[t] = q,
           NEW n, n = InsertReady(WaitRemove(m, q, t, P[t]), t, P[t]),
           NEW u \in Thread, u # t, W[u] # NULL
    PROVE  n.next[u] = m.next[u] \/ m.next[u] = t
<1> DEFINE p == P[t]
           k == WaitRemove(m, q, t, p)
           V == [W EXCEPT ![t] = NULL]
<1>1. PICK rank : Placed(m, R, W, P, rank)
  BY DEF Linked
<1>2. /\ m.next \in [Thread -> Link] /\ m.prev \in [Thread -> Link]
      /\ m = [next |-> m.next, prev |-> m.prev, ready |-> m.ready,
              bits |-> m.bits, wait |-> m.wait, waitBits |-> m.waitBits]
      /\ W \in [Thread -> Queue \cup {NULL}] /\ P \in [Thread -> Prio]
      /\ NULL \notin Queue /\ NULL \notin Thread
      /\ Lines(m.next, m.prev, m.wait, W, P, rank)
      /\ \A x \in R : W[x] = NULL
  BY <1>1, PlacedMeans
<1>3. k.next[u] = m.next[u] \/ m.next[u] = t
  <2>1. k.next[u] = IF u = m.prev[t] THEN m.next[t] ELSE m.next[u]
    BY <1>2 DEF WaitRemove
  <2>2. u = m.prev[t] => m.next[u] = t
    BY <1>2 DEF Lines
  <2>. QED
    BY <2>1, <2>2
<1>4. Linked(k, R, V, P)
  BY LeavesQueue
<1>5. PICK order : Placed(k, R, V, P, order)
  BY <1>4 DEF Linked
<1> HIDE DEF k
<1>6. /\ k.next \in [Thread -> Link] /\ k.prev \in [Thread -> Link]
      /\ k.ready \in [Prio -> Link]
      /\ k = [next |-> k.next, prev |-> k.prev, ready |-> k.ready,
              bits |-> k.bits, wait |-> k.wait, waitBits |-> k.waitBits]
      /\ R \subseteq Thread
      /\ Rings(k.next, k.prev, k.ready, R, P, order)
      /\ \A x \in R : k.next[x] \in R /\ k.prev[x] \in R
      /\ \A x \in Thread \ R : V[x] = NULL => k.next[x] = NULL /\ k.prev[x] = NULL
  BY <1>5, PlacedMeans
<1>7. t \notin R /\ u \notin R /\ p \in Prio
  BY <1>2
<1>8. k.next[t] = NULL /\ k.prev[t] = NULL
  BY <1>2, <1>6, <1>7
<1>9. n = InsertReady(k, t, p)
  BY DEF k
<1>10. n.next[u] = k.next[u]
  <2> DEFINE h == k.ready[p]
             tail == k.prev[h]
             c == k.bits \cup {p}
  <2>1. CASE h = NULL
    <3> DEFINE a == [k.next EXCEPT ![t] = t]
               b == [k.prev EXCEPT ![t] = t]
               r == [k.ready EXCEPT ![p] = t]
               z == [next |-> a, prev |-> b, ready |-> r, bits |-> c,
                     wait |-> k.wait, waitBits |-> k.waitBits]
    <3>1. InsertReady(k, t, p) = z
      BY <1>6, <1>8, <2>1 DEF InsertReady, Ring
    <3>2. a[u] = k.next[u]
      BY <1>6
    <3> HIDE DEF a, b, r
    <3>. QED
      BY <1>9, <3>1, <3>2
  <2>2. CASE h # NULL
    <3> DEFINE a == [k.next EXCEPT ![tail] = t, ![t] = h]
               b == [k.prev EXCEPT ![t] = tail, ![h] = t]
               z == [next |-> a, prev |-> b, ready |-> k.ready, bits |-> c,
                     wait |-> k.wait, waitBits |-> k.waitBits]
    <3>1. InsertReady(k, t, p) = z
      BY <1>6, <1>8, <2>2 DEF InsertReady, Ring
    <3>2. h \in R /\ tail \in R
      BY <1>6, <1>7, <2>2 DEF Rings
    <3>3. a[u] = k.next[u]
      <4>1. tail # u
        BY <1>7, <3>2
      <4> HIDE DEF h, tail
      <4>. QED
        BY <1>6, <4>1
    <3> HIDE DEF a, b
    <3>. QED
      BY <1>9, <3>1, <3>3
  <2>. QED
    BY <2>1, <2>2
<1>. QED
  BY <1>3, <1>10

\* Who is linked after a waiting task waits as well, and in the same queue.
LEMMA NextWaits ==
    ASSUME NEW m, NEW R, NEW W, NEW P, Linked(m, R, W, P),
           NEW u \in Thread, W[u] # NULL, m.next[u] # NULL
    PROVE  m.next[u] \in Thread /\ m.next[u] # u /\ W[m.next[u]] = W[u]
<1>1. PICK rank : Placed(m, R, W, P, rank)
  BY DEF Linked
<1>2. /\ m.next \in [Thread -> Link] /\ Lines(m.next, m.prev, m.wait, W, P, rank)
      /\ rank \in [Thread -> Int]
  BY <1>1, PlacedMeans
<1>3. m.next[u] \in Thread /\ W[m.next[u]] = W[u] /\ rank[u] < rank[m.next[u]]
  BY <1>2 DEF Lines, Link
<1>4. rank[u] \in Int
  BY <1>2
<1>. QED
  BY <1>3, <1>4

-----------------------------------------------------------------------------
(* Facts that most steps start from                                        *)

LEMMA Basics ==
    ASSUME IInv
    PROVE  /\ KernelTypeOK /\ ListsSound /\ TasksSound /\ CallsSound /\ CpuSound
           /\ Queue = {"wait"} /\ "wait" # NULL
           /\ NULL \notin Thread /\ Task \subseteq Thread
           /\ Idle \in Thread /\ Idle \notin Task
           /\ EventTyped /\ EventSound /\ NobodyOverlooked
           /\ \A t \in Thread : object[t] # NULL =>
                 /\ object[t] = "wait" /\ t \in Task /\ t \in Calls["wait"]
                 /\ want[t] \in Requests[t] /\ want[t] \in Request /\ want[t] # NULL
<1>1. /\ KernelTypeOK /\ ListsSound /\ TasksSound /\ CallsSound /\ CpuSound
      /\ EventTyped /\ EventSound /\ NobodyOverlooked
  BY DEF IInv, KernelInv
<1>2. /\ Queue = {"wait"} /\ "wait" # NULL
      /\ NULL \notin Thread /\ Task \subseteq Thread
      /\ Idle \in Thread /\ Idle \notin Task
  BY IpcAssumption, EventAssumption DEF Thread
<1>3. ASSUME NEW t \in Thread, object[t] # NULL
      PROVE  /\ object[t] = "wait" /\ t \in Task /\ t \in Calls["wait"]
             /\ want[t] \in Requests[t] /\ want[t] \in Request /\ want[t] # NULL
  <2>1. object[t] = "wait" /\ t \in Task
    BY <1>1, <1>2, <1>3 DEF KernelTypeOK, CallsSound
  <2>2. t \in Calls["wait"] /\ want[t] \in Requests[t]
    BY <1>1, <1>3 DEF EventSound, Indexed
  <2>3. Requests[t] \subseteq Request /\ NULL \notin Request
    BY <2>1, EventAssumption
  <2>. QED
    BY <2>1, <2>2, <2>3
<1>. QED
  BY <1>1, <1>2, <1>3

\* The hypothesis about slices in terms of the state.
LEMMA SlicesAreApart ==
    ASSUME SliceAlone, IInv
    PROVE  SlicesApart
<1>1. SUFFICES ASSUME NEW t \in Sliced, NEW u \in Thread \ {t},
                      object[t] # NULL, object[u] = object[t]
               PROVE  prio[u] # prio[t]
  BY DEF SlicesApart
<1>2. t \in Thread
  BY IpcAssumption
<1>3. t \in Calls["wait"] /\ u \in Calls["wait"]
  BY <1>1, <1>2, Basics
<1>4. prio[t] = Priority[t] /\ prio[u] = Priority[u]
  BY <1>1, <1>2, Basics DEF TasksSound
<1>. QED
  BY <1>1, <1>3, <1>4 DEF SliceAlone

\* EventGroup's waiting tasks.
LEMMA WhoWaits ==
    ASSUME IInv
    PROVE  /\ Abstract!Waiters = {t \in Task : object[t] # NULL}
           /\ \A t \in Task : object[t] # NULL => Waits[t] = want[t]
BY Basics DEF Waits, Abstract!Waiters

\* What is met by fewer flags is met by more.
LEMMA MetByMore ==
    ASSUME NEW f, NEW g, f \subseteq g, NEW r, Met(f, r)
    PROVE  Met(g, r)
BY DEF Met

LEMMA LeftIsLess ==
    ASSUME NEW f, NEW r
    PROVE  Left(f, r) \subseteq f
BY DEF Left

\* While no loop of flyos_event_set is at work nobody waits for what is there.
LEMMA Quiet ==
    ASSUME IInv, alive, set_flags = {}, waiter_prios = {}, at = NULL,
           NEW t \in Task, object[t] # NULL
    PROVE  ~Met(flags, want[t])
<1>1. Onward(lists.next, at) = {}
  BY DEF Onward
<1>2. ~Ahead(t)
  BY <1>1 DEF Ahead
<1>. QED
  BY <1>2, Basics DEF NobodyOverlooked

\* That stays so as long as no flag is set and nobody begins to wait.
LEMMA StaysQuiet ==
    ASSUME IInv,
           alive' => alive /\ set_flags = {} /\ waiter_prios = {} /\ at = NULL,
           flags' \subseteq flags,
           \A t \in Task : object'[t] # NULL => object[t] # NULL /\ want'[t] = want[t]
    PROVE  NobodyOverlooked'
<1>1. ASSUME alive', NEW t \in Task, object'[t] # NULL, Met(flags', want'[t])
      PROVE  FALSE
  <2>1. object[t] # NULL /\ want'[t] = want[t]
    BY <1>1
  <2>2. Met(flags, want[t])
    BY <1>1, <2>1, MetByMore
  <2>. QED
    BY <1>1, <2>1, <2>2, Quiet
<1>. QED
  BY <1>1 DEF NobodyOverlooked, Met

\* A step that does not change who waits and what is answered.
LEMMA SameCalls ==
    ASSUME UNCHANGED <<state, object, err>>,
           \A t \in Task : object[t] # NULL => want'[t] = want[t],
           \A t \in Task : pc'[t] \in {"wait", "return"} <=> pc[t] \in {"wait", "return"}
    PROVE  Waits' = Waits /\ Answers' = Answers
BY DEF Waits, Answers, Answered

\* A task that waits is woken with the result e.
LEMMA WakingOne ==
    ASSUME IInv, NEW t \in Thread, object[t] # NULL,
           NEW e \in {"OK", "TIMEOUT", "ERROR"},
           state' = [state EXCEPT ![t] = "READY"],
           object' = [object EXCEPT ![t] = NULL], err' = [err EXCEPT ![t] = e],
           pc' = pc, want' = want
    PROVE  /\ t \in Task /\ t \in Abstract!Waiters
           /\ Waits' = [Waits EXCEPT ![t] = NULL]
           /\ Answers' = [Answers EXCEPT ![t] = IF e = "OK" THEN "OK" ELSE "failed"]
           /\ \A u \in Thread : object'[u] # NULL =>
                 u # t /\ object[u] # NULL /\ object'[u] = object[u]
           /\ CallsSound'
<1>1. /\ KernelTypeOK /\ TasksSound /\ CallsSound /\ Task \subseteq Thread /\ t \in Task
  BY Basics
<1>2. pc[t] \in {"wait", "return"}
  BY <1>1 DEF CallsSound
<1>3. /\ \A u \in Thread : u # t => /\ state'[u] = state[u] /\ object'[u] = object[u]
                                    /\ err'[u] = err[u]
      /\ state'[t] = "READY" /\ object'[t] = NULL /\ err'[t] = e
  BY <1>1 DEF KernelTypeOK
<1>4. t \in Abstract!Waiters
  BY <1>1, WhoWaits
<1>5. Waits' = [Waits EXCEPT ![t] = NULL]
  BY <1>1, <1>3 DEF Waits
<1>6. Answers' = [Answers EXCEPT ![t] = IF e = "OK" THEN "OK" ELSE "failed"]
  <2>1. \A u \in Task : u # t => (Answered(u)' <=> Answered(u)) /\ err'[u] = err[u]
    BY <1>1, <1>3 DEF Answered
  <2>2. Answered(t)' /\ err'[t] = e
    BY <1>2, <1>3 DEF Answered
  <2> HIDE DEF Answered
  <2>. QED
    BY <1>1, <2>1, <2>2 DEF Answers
<1>7. CallsSound'
  BY <1>1, <1>3 DEF CallsSound
<1>. QED
  BY <1>1, <1>3, <1>4, <1>5, <1>6, <1>7

\* When t no longer waits, the index without t's bits still leads to the others:
\* they wait for other flags or with other priorities.
LEMMA Dropping ==
    ASSUME FlagsApart, IInv, NEW t \in Thread, object[t] # NULL,
           flag_waiters' = Dropped(t), UNCHANGED <<alive, want, prio, inside>>
    PROVE  /\ flag_waiters' \in [Flag -> SUBSET Prio]
           /\ \A u \in Thread : u # t /\ object[u] # NULL => Indexed(u)'
<1>1. flag_waiters \in [Flag -> SUBSET Prio]
  BY Basics DEF EventTyped
<1>2. ASSUME NEW u \in Thread, u # t, object[u] # NULL
      PROVE  Indexed(u)'
  <2>1. Indexed(u)
    BY <1>2, Basics DEF EventSound
  <2>2. /\ t \in Task \cap Calls["wait"] /\ u \in (Task \cap Calls["wait"]) \ {t}
        /\ want[t] \in Requests[t] /\ want[u] \in Requests[u] /\ want[u] \in Request
    BY <1>2, Basics
  <2>3. prio[t] = Priority[t] /\ prio[u] = Priority[u]
    BY <1>2, <2>2, Basics DEF TasksSound
  <2>4. prio[u] = prio[t] => want[t].flags \cap want[u].flags = {}
    BY <2>2, <2>3 DEF FlagsApart
  <2>5. ASSUME alive, NEW f \in want[u].flags
        PROVE  prio[u] \in flag_waiters'[f]
    <3>1. f \in Flag
      BY <2>2, <2>5 DEF Request
    <3>2. prio[u] \in flag_waiters[f]
      BY <2>1, <2>5 DEF Indexed
    <3>3. prio[u] = prio[t] => f \notin want[t].flags
      BY <2>4
    <3>. QED
      BY <3>1, <3>2, <3>3 DEF Dropped
  <2>. QED
    BY <2>1, <2>5 DEF Indexed
<1>. QED
  BY <1>1, <1>2 DEF Dropped

-----------------------------------------------------------------------------
(* Every action keeps the invariant and is allowed by EventGroup           *)

\* flyos_event_create
LEMMA Creating ==
    ASSUME IInv, NEW c \in Task, Create(c)
    PROVE  IInv' /\ Abstract!Open
<1>1. /\ Runs(c) /\ pc[c] = "user" /\ ~alive /\ alive' = TRUE /\ flags' = {}
      /\ flag_waiters' = [f \in Flag |-> {}]
      /\ lists' = WaitInit(lists, "wait")
      /\ UNCHANGED <<state, prio, object, err, dq, left, current, pend, isr, inside, pc,
                     want, set_flags, waiter_prios, at>>
  BY DEF Create, MayCall, cpuVars, loopVars
<1>2. /\ KernelTypeOK /\ ListsSound /\ TasksSound /\ CallsSound /\ CpuSound
      /\ Queue = {"wait"} /\ "wait" # NULL /\ Task \subseteq Thread
      /\ EventTyped /\ EventSound
  BY Basics
<1>3. inside = NULL /\ ~Serving /\ Serving' = Serving
  BY <1>1 DEF Runs, Serving
<1>4. \A t \in Thread : object[t] = NULL
  BY <1>1, <1>2, <1>3 DEF EventSound, Indexed
<1>5. Waits' = Waits /\ Answers' = Answers /\ Abstract!Waiters = {}
  <2>1. Abstract!Waiters = {}
    BY <1>2, <1>4, WhoWaits
  <2>. QED
    BY <1>1, <2>1, SameCalls
<1>6. ReadyTasks' = ReadyTasks
  BY <1>1 DEF ReadyTasks
<1>7. Linked(lists', ReadyTasks, object, prio)
  <2>1. "wait" \in Queue /\ \A t \in Thread : object[t] # "wait"
    BY <1>2, <1>4
  <2>. QED
    BY <1>1, <1>2, <2>1, NewQueue DEF ListsSound
<1>8. ListsSound' /\ lists' \in Lists
  BY <1>1, <1>6, <1>7 DEF ListsSound, Linked, Placed
<1>9. NextTask(lists') = NextTask(lists)
  <2>1. lists \in Lists
    BY <1>2 DEF KernelTypeOK
  <2>2. WaitInit(lists, "wait").ready = lists.ready /\ WaitInit(lists, "wait").bits = lists.bits
    BY <2>1 DEF WaitInit, Lists
  <2>. QED
    BY <1>1, <2>2 DEF NextTask
<1>10. TasksSound' /\ CallsSound' /\ CpuSound'
  BY <1>1, <1>2, <1>9 DEF TasksSound, CallsSound, CpuSound
<1>11. KernelInv'
  BY <1>1, <1>2, <1>8, <1>10 DEF KernelInv, KernelTypeOK
<1>12. EventTyped'
  BY <1>1, <1>2 DEF EventTyped
<1>13. EventSound'
  BY <1>1, <1>2, <1>3, <1>4 DEF EventSound
<1>14. NobodyOverlooked'
  BY <1>1, <1>2, <1>4 DEF NobodyOverlooked
<1>15. Abstract!Open
  BY <1>1, <1>3, <1>5 DEF Abstract!Open
<1>. QED
  BY <1>11, <1>12, <1>13, <1>14, <1>15 DEF IInv

\* A step that leaves the kernel, the calls, the index and the loops alone.
LEMMA KeepingCalls ==
    ASSUME IInv, UNCHANGED kernelVars, ~Serving, alive' = alive,
           flags' \subseteq flags, UNCHANGED <<flag_waiters, want, loopVars>>
    PROVE  IInv' /\ Waits' = Waits /\ Answers' = Answers
<1>1. /\ UNCHANGED <<state, prio, object, err, inside, pc>>
      /\ UNCHANGED <<set_flags, waiter_prios, at>>
  BY DEF kernelVars, taskVars, cpuVars, loopVars
<1>2. EventTyped /\ EventSound
  BY Basics
<1>3. KernelInv'
  BY SameKernel DEF IInv
<1>4. EventTyped'
  BY <1>1, <1>2 DEF EventTyped
<1>5. EventSound'
  BY <1>1, <1>2 DEF EventSound, Indexed, Serving
<1>6. NobodyOverlooked'
  BY <1>1, <1>2, StaysQuiet DEF EventSound
<1>7. Waits' = Waits /\ Answers' = Answers
  BY <1>1, SameCalls
<1>. QED
  BY <1>3, <1>4, <1>5, <1>6, <1>7 DEF IInv

\* flyos_event_wait finds its condition met.
LEMMA Taking ==
    ASSUME IInv, NEW c \in Task, NEW r \in Request, WaitTake(c, r)
    PROVE  IInv' /\ Abstract!Take(r)
<1>1. /\ Runs(c) /\ Met(flags, r) /\ flags' = Left(flags, r) /\ UNCHANGED kernelVars
      /\ alive' = alive /\ UNCHANGED <<flag_waiters, want, loopVars>>
  BY DEF WaitTake, MayCall
<1>2. ~Serving /\ inside' = inside
  BY <1>1 DEF Runs, Serving, kernelVars, cpuVars
<1>3. IInv' /\ Waits' = Waits /\ Answers' = Answers
  BY <1>1, <1>2, LeftIsLess, KeepingCalls
<1>4. Serving' = Serving
  BY <1>1, <1>2 DEF Serving
<1>5. Abstract!Met(flags, r) /\ flags' = Abstract!Left(flags, r)
  BY <1>1 DEF Met, Left, Abstract!Met, Abstract!Left
<1>. QED
  BY <1>1, <1>2, <1>3, <1>4, <1>5 DEF Abstract!Take

\* flyos_event_clear
LEMMA Clearing ==
    ASSUME IInv, NEW fs, Clear(fs)
    PROVE  IInv' /\ Abstract!Clear(fs)
<1>1. /\ inside = NULL /\ flags' = flags \ fs /\ UNCHANGED kernelVars
      /\ alive' = alive /\ UNCHANGED <<flag_waiters, want, loopVars>>
  BY DEF Clear, Interrupts
<1>2. ~Serving /\ inside' = inside
  BY <1>1 DEF Serving, kernelVars, cpuVars
<1>3. IInv' /\ Waits' = Waits /\ Answers' = Answers
  BY <1>1, <1>2, KeepingCalls
<1>4. Serving' = Serving
  BY <1>1, <1>2 DEF Serving
<1>. QED
  BY <1>1, <1>2, <1>3, <1>4 DEF Abstract!Clear

\* flyos_event_wait blocks.
LEMMA Blocking ==
    ASSUME IInv, NEW c \in Task, NEW r \in Requests[c], NEW timeout \in Timeouts,
           WaitBlock(c, r, timeout)
    PROVE  IInv' /\ Abstract!Wait(c, r)
<1>1. /\ Runs(c) /\ pc[c] = "user" /\ c \in Calls["wait"] /\ alive /\ ~Met(flags, r)
      /\ BlockOn(c, "wait", timeout) /\ pc' = [pc EXCEPT ![c] = "wait"]
      /\ want' = [want EXCEPT ![c] = r] /\ flag_waiters' = Noted(c, r)
      /\ timeout # NO_WAIT
      /\ UNCHANGED <<current, pend, isr, inside, alive, flags, set_flags, waiter_prios, at>>
      /\ state' = [state EXCEPT ![c] = "BLOCK"]
      /\ object' = [object EXCEPT ![c] = "wait"]
      /\ err' = [err EXCEPT ![c] = "OK"]
      /\ prio' = prio
  BY DEF WaitBlock, MayCall, Goto, cpuVars, loopVars, BlockOn, Block
<1>2. /\ KernelTypeOK /\ CallsSound /\ CpuSound /\ Queue = {"wait"} /\ "wait" # NULL
      /\ Task \subseteq Thread /\ Idle \notin Task /\ EventTyped /\ EventSound
  BY Basics
<1>3. /\ c = current /\ c \in Thread /\ isr = "none" /\ inside = NULL
      /\ state[c] = "READY" /\ object[c] = NULL
  BY <1>1, RunningTask DEF IInv
<1>4. timeout \in Nat \ {0} /\ r \in Request
  BY EventAssumption DEF NO_WAIT
<1>5. TasksTyped' /\ ListsSound' /\ TasksSound'
  BY <1>1, <1>2, <1>3, <1>4, Blocks DEF IInv
<1>6. /\ \A t \in Thread : t # c => /\ pc'[t] = pc[t] /\ state'[t] = state[t]
                                    /\ object'[t] = object[t] /\ err'[t] = err[t]
      /\ \A t \in Task : t # c => want'[t] = want[t]
      /\ pc'[c] = "wait" /\ state'[c] = "BLOCK" /\ object'[c] = "wait" /\ want'[c] = r
  BY <1>1, <1>2, <1>3 DEF KernelTypeOK, EventTyped
<1>7. CallsSound'
  BY <1>2, <1>6 DEF CallsSound, Thread
<1>8. CpuSound'
  BY <1>1, <1>3, <1>6 DEF CpuSound
<1>9. KernelInv'
  BY <1>1, <1>2, <1>5, <1>7, <1>8 DEF KernelInv, KernelTypeOK, TasksTyped
<1>10. ~Serving /\ Serving' = Serving /\ set_flags = {} /\ waiter_prios = {} /\ at = NULL
  BY <1>1, <1>2, <1>3 DEF Serving, EventSound
<1>11. /\ flag_waiters' \in [Flag -> SUBSET Prio]
       /\ \A f \in Flag : flag_waiters[f] \subseteq flag_waiters'[f]
       /\ \A f \in r.flags : prio[c] \in flag_waiters'[f]
  BY <1>1, <1>2, <1>3, <1>4 DEF Noted, EventTyped, KernelTypeOK, Request
<1>12. EventTyped'
  BY <1>1, <1>2, <1>4, <1>11 DEF EventTyped
<1>13. ASSUME NEW t \in Thread, object'[t] # NULL
       PROVE  Indexed(t)'
  <2>1. CASE t = c
    BY <1>1, <1>6, <1>11, <2>1 DEF Indexed
  <2>2. CASE t # c
    <3>1. Indexed(t) /\ t \in Task /\ want[t] \in Request
      BY <1>6, <1>13, <2>2, Basics DEF EventSound
    <3>2. want'[t] = want[t] /\ \A f \in want[t].flags : f \in Flag
      BY <1>6, <2>2, <3>1 DEF Request
    <3>. QED
      BY <1>1, <1>11, <3>1, <3>2 DEF Indexed
  <2>. QED
    BY <2>1, <2>2
<1>14. EventSound'
  BY <1>1, <1>10, <1>13 DEF EventSound
<1>15. NobodyOverlooked'
  <2>1. ASSUME NEW t \in Task, object'[t] # NULL
        PROVE  ~Met(flags', want'[t])
    <3>1. CASE t = c
      BY <1>1, <1>6, <3>1
    <3>2. CASE t # c
      BY <1>1, <1>2, <1>6, <1>10, <2>1, <3>2, Quiet
    <3>. QED
      BY <3>1, <3>2
  <2>. QED
    BY <2>1 DEF NobodyOverlooked, Met
<1>16. Waits' = [Waits EXCEPT ![c] = r]
  BY <1>2, <1>6 DEF Waits
<1>17. Answers' = Answers
  BY <1>1, <1>2, <1>6 DEF Answers, Answered
<1>18. ~Abstract!Met(flags, r) /\ c \notin Abstract!Waiters
  BY <1>1, <1>3, WhoWaits DEF Met, Abstract!Met
<1>19. Abstract!Wait(c, r)
  BY <1>1, <1>10, <1>16, <1>17, <1>18 DEF Abstract!Wait
<1>. QED
  BY <1>9, <1>12, <1>14, <1>15, <1>19 DEF IInv

\* A wait that has blocked returns.
LEMMA Returning ==
    ASSUME IInv, NEW c \in Task, WaitReturn(c)
    PROVE  IInv' /\ Abstract!Collect(c)
<1>1. /\ Runs(c) /\ pc[c] = "return" /\ pc' = [pc EXCEPT ![c] = "user"]
      /\ want' = [want EXCEPT ![c] = NULL] /\ UNCHANGED taskVars
      /\ UNCHANGED <<lists, state, prio, object, err, current, pend, isr, inside, alive,
                     flags, flag_waiters, set_flags, waiter_prios, at>>
  BY DEF WaitReturn, Goto, cpuVars, taskVars, loopVars
<1>2. /\ KernelTypeOK /\ CallsSound /\ CpuSound /\ Task \subseteq Thread
      /\ EventTyped /\ EventSound
  BY Basics
<1>3. /\ c = current /\ c \in Thread /\ c # Idle /\ isr = "none" /\ inside = NULL
      /\ state[c] = "READY" /\ object[c] = NULL
  BY <1>1, RunningTask DEF IInv
<1>4. /\ \A t \in Thread : t # c => pc'[t] = pc[t]
      /\ \A t \in Task : t # c => want'[t] = want[t]
      /\ pc'[c] = "user"
  BY <1>1, <1>2, <1>3 DEF KernelTypeOK, EventTyped
<1>5. TasksTyped' /\ ListsSound' /\ TasksSound'
  BY <1>1, SameTasks DEF IInv
<1>6. CallsSound' /\ CpuSound'
  BY <1>1, <1>2, <1>3, <1>4 DEF CallsSound, CpuSound
<1>7. KernelInv'
  BY <1>1, <1>2, <1>5, <1>6 DEF KernelInv, KernelTypeOK, TasksTyped
<1>8. ~Serving /\ Serving' = Serving /\ set_flags = {} /\ waiter_prios = {} /\ at = NULL
  BY <1>1, <1>2, <1>3 DEF Serving, EventSound
<1>9. EventTyped'
  BY <1>1, <1>2 DEF EventTyped
<1>10. \A t \in Thread : object'[t] # NULL =>
          object[t] # NULL /\ want'[t] = want[t] /\ Indexed(t)'
  <2>1. SUFFICES ASSUME NEW t \in Thread, object'[t] # NULL
                 PROVE  object[t] # NULL /\ want'[t] = want[t] /\ Indexed(t)'
    OBVIOUS
  <2>2. object[t] # NULL /\ t \in Task /\ t # c
    BY <1>1, <1>3, <2>1, Basics
  <2>3. want'[t] = want[t] /\ Indexed(t)
    BY <1>2, <1>4, <2>2 DEF EventSound
  <2>. QED
    BY <1>1, <2>2, <2>3 DEF Indexed
<1>11. EventSound'
  BY <1>1, <1>8, <1>10 DEF EventSound
<1>12. NobodyOverlooked'
  BY <1>1, <1>2, <1>8, <1>10, StaysQuiet
<1>13. Waits' = Waits
  BY <1>1, <1>2, <1>10 DEF Waits
<1>14. Answers' = [Answers EXCEPT ![c] = "none"]
  BY <1>1, <1>2, <1>4 DEF Answers, Answered
<1>15. c \notin Abstract!Waiters
  BY <1>3, WhoWaits
<1>16. Abstract!Collect(c)
  BY <1>1, <1>8, <1>13, <1>14, <1>15 DEF Abstract!Collect
<1>. QED
  BY <1>7, <1>9, <1>11, <1>12, <1>16 DEF IInv

\* flyos_event_set enters its critical section.  Whom the new flags concern waits
\* for one of them, and the outer loop will look at it.
LEMMA SettingBegins ==
    ASSUME IInv, NEW c \in Task, NEW fs \in SUBSET Flag, SetBegin(c, fs)
    PROVE  IInv' /\ Abstract!SetBegin(fs)
<1>1. /\ Runs(c) /\ pc[c] = "user" /\ alive /\ flags' = flags \cup fs
      /\ set_flags' = fs /\ inside' = c /\ pc' = [pc EXCEPT ![c] = "section"]
      /\ UNCHANGED taskVars
      /\ UNCHANGED <<lists, state, prio, object, err, current, pend, isr, alive,
                     flag_waiters, want, waiter_prios, at>>
  BY DEF SetBegin, MayCall, Goto, taskVars
<1>2. /\ KernelTypeOK /\ CallsSound /\ CpuSound /\ Task \subseteq Thread
      /\ EventTyped /\ EventSound /\ NULL \notin Thread
  BY Basics
<1>3. /\ c = current /\ c \in Thread /\ c # Idle /\ isr = "none" /\ inside = NULL
      /\ ~pend /\ object[c] = NULL /\ c # NULL
  BY <1>1, <1>2, RunningTask DEF IInv
<1>4. /\ \A t \in Thread : t # c => pc'[t] = pc[t]
      /\ pc'[c] = "section"
  BY <1>1, <1>2, <1>3 DEF KernelTypeOK
<1>5. TasksTyped' /\ ListsSound' /\ TasksSound'
  BY <1>1, SameTasks DEF IInv
<1>6. CallsSound' /\ CpuSound'
  BY <1>1, <1>2, <1>3, <1>4 DEF CallsSound, CpuSound
<1>7. KernelInv'
  BY <1>1, <1>2, <1>3, <1>5, <1>6 DEF KernelInv, KernelTypeOK, TasksTyped, Link
<1>8. Serving = FALSE /\ Serving' = TRUE
  BY <1>1, <1>3 DEF Serving
<1>9. set_flags = {} /\ waiter_prios = {} /\ at = NULL
  BY <1>2, <1>8 DEF EventSound
<1>10. EventTyped'
  BY <1>1, <1>2 DEF EventTyped
<1>11. EventSound'
  BY <1>1, <1>2, <1>8 DEF EventSound, Indexed
<1>12. NobodyOverlooked'
  <2>1. ASSUME NEW t \in Task, object[t] # NULL, Met(flags', want[t])
        PROVE  want[t].flags \cap fs # {}
    BY <1>1, <1>9, <2>1, Quiet DEF Met
  <2>. QED
    BY <1>1, <2>1 DEF NobodyOverlooked, Ahead, Met
<1>13. Waits' = Waits /\ Answers' = Answers
  <2>1. \A t \in Task : pc'[t] \in {"wait", "return"} <=> pc[t] \in {"wait", "return"}
    BY <1>1, <1>2, <1>4
  <2>. QED
    BY <1>1, <2>1, SameCalls
<1>14. Abstract!SetBegin(fs)
  BY <1>1, <1>8, <1>13 DEF Abstract!SetBegin
<1>. QED
  BY <1>7, <1>10, <1>11, <1>12, <1>14 DEF IInv

\* Numbers have a lowest one.
LEMMA LowestFacts ==
    ASSUME NEW S, S \subseteq Nat, S # {}
    PROVE  Lowest(S) \in S
<1>1. \E n \in S : \A m \in S : n <= m
  BY Smallest
<1>. QED
  BY <1>1 DEF Lowest

\* A step of the loops that leaves the kernel and the object alone.
LEMMA Looping ==
    ASSUME IInv, UNCHANGED kernelVars, UNCHANGED <<alive, flags, flag_waiters, want>>
    PROVE  /\ KernelInv' /\ Waits' = Waits /\ Answers' = Answers /\ Serving' = Serving
           /\ \A t \in Thread : object'[t] # NULL => object[t] # NULL /\ Indexed(t)'
           /\ UNCHANGED <<lists, prio, object>>
<1>1. UNCHANGED <<lists, state, prio, object, err, inside, pc>>
  BY DEF kernelVars, taskVars, cpuVars
<1>2. KernelInv'
  BY SameKernel DEF IInv
<1>3. Waits' = Waits /\ Answers' = Answers /\ Serving' = Serving
  BY <1>1, SameCalls DEF Serving
<1>4. \A t \in Thread : object'[t] # NULL => object[t] # NULL /\ Indexed(t)'
  BY <1>1, Basics DEF EventSound, Indexed
<1>. QED
  BY <1>1, <1>2, <1>3, <1>4

\* The index leads from the next flag to the priorities of all who wait for it.
LEMMA FlagFollows ==
    ASSUME IInv, NEW c \in Task, NextFlag(c)
    PROVE  IInv' /\ UNCHANGED Abstract!vars
<1> DEFINE f == Lowest(set_flags)
<1>1. /\ at = NULL /\ waiter_prios = {} /\ set_flags # {}
      /\ waiter_prios' = flag_waiters[f] /\ set_flags' = set_flags \ {f}
      /\ UNCHANGED kernelVars /\ UNCHANGED <<alive, flags, flag_waiters, want, at>>
  BY DEF NextFlag
<1>2. EventTyped /\ EventSound /\ NobodyOverlooked
  BY Basics
<1>3. /\ KernelInv' /\ Waits' = Waits /\ Answers' = Answers /\ Serving' = Serving
      /\ \A t \in Thread : object'[t] # NULL => object[t] # NULL /\ Indexed(t)'
      /\ UNCHANGED <<lists, prio, object>>
  BY <1>1, Looping
<1>4. Serving /\ alive
  BY <1>1, <1>2 DEF EventSound, Serving
<1>5. f \in set_flags /\ f \in Flag
  <2>1. set_flags \subseteq Nat
    BY <1>2, EventAssumption DEF EventTyped
  <2>. QED
    BY <1>1, <1>2, <2>1, LowestFacts DEF EventTyped
<1> HIDE DEF f
<1>6. EventTyped'
  BY <1>1, <1>2, <1>5 DEF EventTyped
<1>7. EventSound'
  BY <1>1, <1>2, <1>3, <1>4 DEF EventSound
<1>8. NobodyOverlooked'
  <2>1. ASSUME NEW t \in Task, object[t] # NULL, Met(flags, want[t])
        PROVE  prio[t] \in waiter_prios' \/ want[t].flags \cap set_flags' # {}
    <3>1. Onward(lists.next, at) = {}
      BY <1>1 DEF Onward
    <3>2. want[t].flags \cap set_flags # {}
      BY <1>1, <1>2, <1>4, <2>1, <3>1 DEF NobodyOverlooked, Ahead
    <3>3. f \in want[t].flags => prio[t] \in flag_waiters[f]
      BY <1>2, <1>4, <2>1, Basics DEF EventSound, Indexed
    <3>. QED
      BY <1>1, <3>2, <3>3
  <2>. QED
    BY <1>1, <1>3, <2>1 DEF NobodyOverlooked, Ahead, Met
<1>. QED
  BY <1>1, <1>3, <1>6, <1>7, <1>8 DEF IInv, Abstract!vars

\* The head of a list leads to all who wait with its priority.
LEMMA PriorityFollows ==
    ASSUME IInv, NEW c \in Task, NextPriority(c)
    PROVE  IInv' /\ UNCHANGED Abstract!vars
<1> DEFINE p == Lowest(waiter_prios)
<1>1. /\ at = NULL /\ waiter_prios # {}
      /\ at' = lists.wait["wait"][p] /\ waiter_prios' = waiter_prios \ {p}
      /\ UNCHANGED kernelVars /\ UNCHANGED <<alive, flags, flag_waiters, want, set_flags>>
  BY DEF NextPriority
<1>2. /\ EventTyped /\ EventSound /\ NobodyOverlooked /\ Queue = {"wait"}
      /\ KernelTypeOK /\ ListsSound /\ Task \subseteq Thread /\ "wait" # NULL
  BY Basics
<1>3. /\ KernelInv' /\ Waits' = Waits /\ Answers' = Answers /\ Serving' = Serving
      /\ \A t \in Thread : object'[t] # NULL => object[t] # NULL /\ Indexed(t)'
      /\ UNCHANGED <<lists, prio, object>>
  BY <1>1, Looping
<1>4. Serving /\ alive
  BY <1>1, <1>2 DEF EventSound, Serving
<1>5. p \in waiter_prios /\ p \in Prio
  <2>1. waiter_prios \subseteq Nat
    BY <1>2, IpcAssumption DEF EventTyped, Prio
  <2>. QED
    BY <1>1, <1>2, <2>1, LowestFacts DEF EventTyped
<1> HIDE DEF p
<1>6. at' \in Link /\ (at' # NULL => object[at'] # NULL)
  <2>1. PICK rank : Placed(lists, ReadyTasks, object, prio, rank)
    BY <1>2 DEF ListsSound, Linked
  <2>2. /\ lists.wait \in [Queue -> [Prio -> Link]]
        /\ Lines(lists.next, lists.prev, lists.wait, object, prio, rank)
    BY <2>1, PlacedMeans
  <2>. QED
    BY <1>1, <1>2, <1>5, <2>2 DEF Lines
<1>7. EventTyped'
  BY <1>1, <1>2, <1>6 DEF EventTyped
<1>8. EventSound'
  BY <1>1, <1>2, <1>3, <1>4, <1>6 DEF EventSound
<1>9. NobodyOverlooked'
  <2>1. ASSUME NEW t \in Task, object[t] # NULL, Met(flags, want[t])
        PROVE  \/ t \in Onward(lists.next, at')
               \/ prio[t] \in waiter_prios'
               \/ want[t].flags \cap set_flags # {}
    <3>1. Onward(lists.next, at) = {}
      BY <1>1 DEF Onward
    <3>2. prio[t] \in waiter_prios \/ want[t].flags \cap set_flags # {}
      BY <1>2, <1>4, <2>1, <3>1 DEF NobodyOverlooked, Ahead
    <3>3. CASE prio[t] = p
      <4>1. t \in Thread /\ object[t] = "wait" /\ "wait" \in Queue
        BY <1>2, <2>1, Basics
      <4>2. t \in Onward(lists.next, lists.wait["wait"][prio[t]])
        BY <1>2, <4>1, HeadReaches DEF ListsSound
      <4>. QED
        BY <1>1, <3>3, <4>2
    <3>4. CASE prio[t] # p
      BY <1>1, <3>2, <3>4
    <3>. QED
      BY <3>3, <3>4
  <2>. QED
    BY <1>1, <1>3, <2>1 DEF NobodyOverlooked, Ahead, Met
<1>. QED
  BY <1>1, <1>3, <1>7, <1>8, <1>9 DEF IInv, Abstract!vars

\* A task whose condition does not hold is passed by.
LEMMA PassesBy ==
    ASSUME IInv, NEW c \in Task, VisitTask(c), ~Met(flags, want[at])
    PROVE  IInv' /\ UNCHANGED Abstract!vars
<1>1. /\ at # NULL /\ at' = lists.next[at] /\ UNCHANGED kernelVars
      /\ UNCHANGED <<alive, flags, flag_waiters, want, set_flags, waiter_prios>>
  BY DEF VisitTask, kernelVars
<1>2. /\ EventTyped /\ EventSound /\ NobodyOverlooked
      /\ KernelTypeOK /\ ListsSound /\ NULL \notin Thread
  BY Basics
<1>3. /\ KernelInv' /\ Waits' = Waits /\ Answers' = Answers /\ Serving' = Serving
      /\ \A t \in Thread : object'[t] # NULL => object[t] # NULL /\ Indexed(t)'
      /\ UNCHANGED <<lists, prio, object>>
  BY <1>1, Looping
<1>4. Serving /\ alive /\ at \in Thread /\ object[at] # NULL
  BY <1>1, <1>2 DEF EventSound, Serving, EventTyped, Link
<1>5. /\ lists.next \in [Thread -> Link]
      /\ \A u \in Thread : object[u] # NULL /\ lists.next[u] # NULL =>
            lists.next[u] \in Thread /\ object[lists.next[u]] = object[u]
  <2>1. lists.next \in [Thread -> Link]
    BY <1>2 DEF KernelTypeOK, Lists
  <2>. QED
    BY <1>2, <2>1, NextWaits DEF ListsSound
<1>6. EventTyped'
  BY <1>1, <1>2, <1>4, <1>5 DEF EventTyped
<1>7. EventSound'
  BY <1>1, <1>2, <1>3, <1>4, <1>5 DEF EventSound
<1>8. NobodyOverlooked'
  <2>1. ASSUME NEW t \in Task, object[t] # NULL, Met(flags, want[t])
        PROVE  \/ t \in Onward(lists.next, at')
               \/ prio[t] \in waiter_prios
               \/ want[t].flags \cap set_flags # {}
    <3>1. CASE t \in Onward(lists.next, at)
      <4> DEFINE M == {u \in Thread : object[u] # NULL}
      <4>1. /\ M \subseteq Thread /\ at \in M /\ t # at
            /\ \A u \in M : lists.next[u] # NULL => lists.next[u] \in M
        BY <1>4, <1>5, <2>1
      <4> HIDE DEF M
      <4>2. t \in Onward(lists.next, lists.next[at])
        BY <1>2, <1>5, <3>1, <4>1, Passing
      <4>. QED
        BY <1>1, <4>2
    <3>. QED
      BY <1>2, <1>4, <2>1, <3>1 DEF NobodyOverlooked, Ahead
  <2>. QED
    BY <1>1, <1>3, <2>1 DEF NobodyOverlooked, Ahead, Met
<1>. QED
  BY <1>1, <1>3, <1>6, <1>7, <1>8 DEF IInv, Abstract!vars

\* A task whose condition holds is woken.  The walk goes on where its link led
\* before, and who is still ahead there is still found.
LEMMA Serves ==
    ASSUME FlagsApart, IInv, NEW c \in Task, VisitTask(c), Met(flags, want[at])
    PROVE  IInv' /\ at \in Task /\ Abstract!Serve(at)
<1>1. /\ inside = c /\ at # NULL /\ at' = lists.next[at]
      /\ MakeReady(at, WaitRemove(lists, "wait", at, prio[at]), "OK")
      /\ flag_waiters' = Dropped(at) /\ flags' = Left(flags, want[at])
      /\ UNCHANGED <<current, pend, isr, inside, pc, alive, want, set_flags, waiter_prios>>
      /\ lists' = InsertReady(WaitRemove(lists, "wait", at, prio[at]), at, prio[at])
      /\ prio' = prio
  BY DEF VisitTask, Serve, cpuVars, MakeReady, Unblock
<1>2. /\ KernelTypeOK /\ ListsSound /\ CpuSound /\ EventTyped /\ EventSound
      /\ NobodyOverlooked /\ NULL \notin Thread /\ Task \subseteq Thread
      /\ Queue = {"wait"} /\ "wait" # NULL
  BY Basics
<1>3. Serving /\ alive /\ Serving' = Serving /\ at \in Thread /\ object[at] # NULL
  BY <1>1, <1>2 DEF EventSound, Serving, EventTyped, Link
<1>4. object[at] = "wait" /\ at \in Task
  BY <1>3, Basics
<1>5. /\ TasksTyped' /\ ListsSound' /\ TasksSound'
      /\ state' = [state EXCEPT ![at] = "READY"]
      /\ object' = [object EXCEPT ![at] = NULL]
      /\ err' = [err EXCEPT ![at] = "OK"]
  <2>1. KernelInv /\ "wait" \in Queue
    BY <1>2 DEF IInv
  <2>. QED
    BY <1>1, <1>3, <1>4, <2>1, Wakes
<1>6. /\ at \in Abstract!Waiters
      /\ Waits' = [Waits EXCEPT ![at] = NULL]
      /\ Answers' = [Answers EXCEPT ![at] = "OK"]
      /\ \A u \in Thread : object'[u] # NULL =>
            u # at /\ object[u] # NULL /\ object'[u] = object[u]
      /\ CallsSound'
  <2>1. /\ at \in Abstract!Waiters
        /\ Waits' = [Waits EXCEPT ![at] = NULL]
        /\ Answers' = [Answers EXCEPT ![at] = IF "OK" = "OK" THEN "OK" ELSE "failed"]
        /\ \A u \in Thread : object'[u] # NULL =>
              u # at /\ object[u] # NULL /\ object'[u] = object[u]
        /\ CallsSound'
    BY <1>1, <1>3, <1>5, WakingOne
  <2>. QED
    BY <2>1
<1>7. KernelInv'
  <2>1. CpuSound'
    BY <1>1, <1>2, <1>4 DEF CpuSound
  <2>. QED
    BY <1>1, <1>2, <1>5, <1>6, <2>1 DEF KernelInv, KernelTypeOK, TasksTyped
<1>8. /\ flag_waiters' \in [Flag -> SUBSET Prio]
      /\ \A u \in Thread : u # at /\ object[u] # NULL => Indexed(u)'
  BY <1>1, <1>3, Dropping
<1>9. lists.next \in [Thread -> Link] /\ lists'.next \in [Thread -> Link]
  BY <1>2, <1>5 DEF KernelTypeOK, TasksTyped, Lists
<1>10. \A u \in Thread : object[u] # NULL /\ lists.next[u] # NULL =>
          /\ lists.next[u] \in Thread /\ lists.next[u] # u
          /\ object[lists.next[u]] = object[u]
  BY <1>2, <1>9, NextWaits DEF ListsSound
<1>11. flags' \subseteq flags
  BY <1>1, LeftIsLess
<1>12. EventTyped'
  BY <1>1, <1>2, <1>3, <1>8, <1>9, <1>11 DEF EventTyped
<1>13. EventSound'
  <2>1. ASSUME at' # NULL PROVE object'[at'] # NULL
    <3>1. at' \in Thread /\ at' # at /\ object[at'] # NULL
      BY <1>1, <1>3, <1>10, <2>1
    <3>. QED
      BY <1>2, <1>5, <3>1 DEF KernelTypeOK
  <2>2. \A u \in Thread : object'[u] # NULL => Indexed(u)'
    BY <1>6, <1>8
  <2>3. ~Serving' => set_flags' = {} /\ waiter_prios' = {} /\ at' = NULL
    BY <1>3
  <2>. QED
    BY <2>1, <2>2, <2>3 DEF EventSound
<1>14. NobodyOverlooked'
  <2>1. ASSUME NEW t \in Task, object'[t] # NULL, Met(flags', want[t])
        PROVE  \/ t \in Onward(lists'.next, at')
               \/ prio[t] \in waiter_prios
               \/ want[t].flags \cap set_flags # {}
    <3>1. t # at /\ object[t] # NULL /\ t \in Thread /\ Met(flags, want[t])
      BY <1>6, <1>11, <2>1, MetByMore, Basics
    <3>2. CASE t \in Onward(lists.next, at)
      <4> DEFINE M == {u \in Thread : object[u] # NULL}
      <4>1. /\ M \subseteq Thread /\ at \in M
            /\ \A u \in M : lists.next[u] # NULL => lists.next[u] \in M
        BY <1>3, <1>10
      <4>2. \A u \in M \ {at} : lists'.next[u] = lists.next[u] \/ lists.next[u] = at
        <5>1. "wait" \in Queue
          BY <1>2
        <5>. QED
          BY <1>1, <1>2, <1>3, <1>4, <5>1, OthersLinks DEF ListsSound
      <4> HIDE DEF M
      <4>3. t \in Onward(lists'.next, lists.next[at])
        BY <1>2, <1>9, <3>1, <3>2, <4>1, <4>2, Passing
      <4>. QED
        BY <1>1, <4>3
    <3>. QED
      BY <1>2, <1>3, <2>1, <3>1, <3>2 DEF NobodyOverlooked, Ahead
  <2>. QED
    BY <1>1, <2>1 DEF NobodyOverlooked, Ahead
<1>15. Abstract!Serve(at)
  <2>1. Waits[at] = want[at]
    BY <1>3, <1>4, WhoWaits
  <2>2. Abstract!Met(flags, Waits[at]) /\ flags' = Abstract!Left(flags, Waits[at])
    BY <1>1, <2>1 DEF Met, Left, Abstract!Met, Abstract!Left
  <2>. QED
    BY <1>1, <1>3, <1>6, <2>2 DEF Abstract!Serve
<1>. QED
  BY <1>4, <1>7, <1>12, <1>13, <1>14, <1>15 DEF IInv

\* flyos_event_set leaves its critical section: nobody has been overlooked.
LEMMA SettingEnds ==
    ASSUME IInv, NEW c \in Task, SetEnd(c)
    PROVE  IInv' /\ Abstract!SetEnd
<1>1. /\ inside = c /\ alive /\ set_flags = {} /\ waiter_prios = {} /\ at = NULL
      /\ inside' = NULL /\ pc' = [pc EXCEPT ![c] = "schedule"]
      /\ UNCHANGED taskVars
      /\ UNCHANGED <<lists, state, prio, object, err, current, pend, isr, alive, flags,
                     flag_waiters, want, set_flags, waiter_prios, at>>
  BY DEF SetEnd, Goto, taskVars, eventVars, loopVars
<1>2. /\ KernelTypeOK /\ CallsSound /\ CpuSound /\ Task \subseteq Thread
      /\ EventTyped /\ EventSound /\ NULL \notin Thread /\ Idle \notin Task
  BY Basics
<1>3. /\ c = current /\ c \in Thread /\ c # NULL /\ isr = "none" /\ pc[c] = "section"
      /\ \A t \in Thread : t # c => pc'[t] = pc[t]
      /\ pc'[c] = "schedule"
  BY <1>1, <1>2 DEF KernelTypeOK, CpuSound
<1>4. TasksTyped' /\ ListsSound' /\ TasksSound'
  BY <1>1, SameTasks DEF IInv
<1>5. CallsSound'
  <2>1. pc'[Idle] = "user"
    BY <1>2, <1>3 DEF CallsSound, Thread
  <2>2. \A t \in Thread : object[t] # NULL => t # c
    BY <1>2, <1>3 DEF CallsSound
  <2>. QED
    BY <1>1, <1>2, <1>3, <2>1, <2>2 DEF CallsSound
<1>6. CpuSound'
  BY <1>1, <1>3 DEF CpuSound
<1>7. KernelInv'
  BY <1>1, <1>2, <1>4, <1>5, <1>6 DEF KernelInv, KernelTypeOK, TasksTyped, Link
<1>8. Serving = TRUE /\ Serving' = FALSE
  BY <1>1, <1>3 DEF Serving
<1>9. EventTyped' /\ EventSound'
  BY <1>1, <1>2 DEF EventTyped, EventSound, Indexed
<1>10. NobodyOverlooked'
  BY <1>1, StaysQuiet
<1>11. Waits' = Waits /\ Answers' = Answers
  <2>1. \A t \in Task : pc'[t] \in {"wait", "return"} <=> pc[t] \in {"wait", "return"}
    BY <1>1, <1>2, <1>3
  <2>. QED
    BY <1>1, <2>1, SameCalls
<1>12. \A t \in Abstract!Waiters : ~Abstract!Met(flags, Waits[t])
  <2>1. ASSUME NEW t \in Task, object[t] # NULL
        PROVE  Waits[t] = want[t] /\ ~Met(flags, want[t])
    BY <1>1, <2>1, WhoWaits, Quiet
  <2>. QED
    BY <2>1, WhoWaits DEF Met, Abstract!Met
<1>13. Abstract!SetEnd
  BY <1>1, <1>8, <1>11, <1>12 DEF Abstract!SetEnd
<1>. QED
  BY <1>7, <1>9, <1>10, <1>13 DEF IInv

\* flyos_event_delete enters its critical section.
LEMMA DeletingBegins ==
    ASSUME IInv, NEW c \in Task, DeleteBegin(c)
    PROVE  IInv' /\ Abstract!Close
<1>1. /\ Runs(c) /\ pc[c] = "user" /\ alive' = FALSE /\ flags' = {}
      /\ flag_waiters' = [f \in Flag |-> {}] /\ inside' = c
      /\ pc' = [pc EXCEPT ![c] = "section"] /\ UNCHANGED taskVars
      /\ UNCHANGED <<lists, state, prio, object, err, current, pend, isr, want,
                     set_flags, waiter_prios, at>>
  BY DEF DeleteBegin, MayCall, Goto, taskVars, loopVars
<1>2. /\ KernelTypeOK /\ CallsSound /\ CpuSound /\ Task \subseteq Thread
      /\ EventTyped /\ EventSound /\ NULL \notin Thread
  BY Basics
<1>3. /\ c = current /\ c \in Thread /\ c # Idle /\ isr = "none" /\ inside = NULL
      /\ ~pend /\ object[c] = NULL /\ c # NULL
  BY <1>1, <1>2, RunningTask DEF IInv
<1>4. /\ \A t \in Thread : t # c => pc'[t] = pc[t]
      /\ pc'[c] = "section"
  BY <1>1, <1>2, <1>3 DEF KernelTypeOK
<1>5. TasksTyped' /\ ListsSound' /\ TasksSound'
  BY <1>1, SameTasks DEF IInv
<1>6. CallsSound' /\ CpuSound'
  BY <1>1, <1>2, <1>3, <1>4 DEF CallsSound, CpuSound
<1>7. KernelInv'
  BY <1>1, <1>2, <1>3, <1>5, <1>6 DEF KernelInv, KernelTypeOK, TasksTyped, Link
<1>8. ~Serving /\ Serving' = Serving
  BY <1>1, <1>3 DEF Serving
<1>9. EventTyped' /\ EventSound'
  BY <1>1, <1>2, <1>3, <1>8 DEF EventTyped, EventSound, Indexed
<1>10. NobodyOverlooked'
  BY <1>1 DEF NobodyOverlooked
<1>11. Waits' = Waits /\ Answers' = Answers
  <2>1. \A t \in Task : pc'[t] \in {"wait", "return"} <=> pc[t] \in {"wait", "return"}
    BY <1>1, <1>2, <1>4
  <2>. QED
    BY <1>1, <2>1, SameCalls
<1>12. Abstract!Close
  BY <1>1, <1>8, <1>11 DEF Abstract!Close
<1>. QED
  BY <1>7, <1>9, <1>10, <1>12 DEF IInv

\* One iteration of its loop.
LEMMA DeletingWakes ==
    ASSUME IInv, NEW c \in Task, DeleteWake(c)
    PROVE  IInv' /\ \E t \in Task : Abstract!GiveUp(t)
<1> DEFINE t == HighestWaiter("wait")
<1>1. /\ inside = c /\ ~alive /\ HasWaiter("wait") /\ WakeHighest("wait", "ERROR")
      /\ UNCHANGED <<prio, current, pend, isr, inside, pc, alive, flags, flag_waiters, want,
                     set_flags, waiter_prios, at>>
  BY DEF DeleteWake, cpuVars, eventVars, loopVars, WakeHighest, MakeReady
<1>2. /\ KernelTypeOK /\ CpuSound /\ Queue = {"wait"} /\ "wait" # NULL
      /\ EventTyped /\ EventSound /\ Task \subseteq Thread /\ NULL \notin Thread
  BY Basics
<1>3. /\ t \in Thread /\ object[t] = "wait"
      /\ TasksTyped' /\ ListsSound' /\ TasksSound'
      /\ state' = [state EXCEPT ![t] = "READY"]
      /\ object' = [object EXCEPT ![t] = NULL]
      /\ err' = [err EXCEPT ![t] = "ERROR"]
  <2>1. KernelInv /\ "wait" \in Queue
    BY <1>2 DEF IInv
  <2>. QED
    BY <1>1, <2>1, WakesHighest
<1> HIDE DEF t
<1>4. /\ t \in Task /\ t \in Abstract!Waiters
      /\ Waits' = [Waits EXCEPT ![t] = NULL]
      /\ Answers' = [Answers EXCEPT ![t] = "failed"]
      /\ \A u \in Thread : object'[u] # NULL => object[u] # NULL
      /\ CallsSound'
  <2>1. /\ t \in Task /\ t \in Abstract!Waiters
        /\ Waits' = [Waits EXCEPT ![t] = NULL]
        /\ Answers' = [Answers EXCEPT ![t] = IF "ERROR" = "OK" THEN "OK" ELSE "failed"]
        /\ \A u \in Thread : object'[u] # NULL =>
              u # t /\ object[u] # NULL /\ object'[u] = object[u]
        /\ CallsSound'
    BY <1>1, <1>2, <1>3, WakingOne
  <2>. QED
    BY <2>1
<1>5. KernelInv'
  <2>1. CpuSound'
    BY <1>1, <1>2 DEF CpuSound
  <2>. QED
    BY <1>1, <1>2, <1>3, <1>4, <2>1 DEF KernelInv, KernelTypeOK, TasksTyped
<1>6. ~Serving /\ Serving' = Serving
  BY <1>1 DEF Serving
<1>7. EventTyped' /\ EventSound'
  BY <1>1, <1>2, <1>4, <1>6 DEF EventTyped, EventSound, Indexed
<1>8. NobodyOverlooked'
  BY <1>1 DEF NobodyOverlooked
<1>9. Abstract!GiveUp(t)
  BY <1>1, <1>4, <1>6 DEF Abstract!GiveUp
<1>. QED
  BY <1>4, <1>5, <1>7, <1>8, <1>9 DEF IInv

\* Nobody waits any more: it leaves the section.
LEMMA DeletingEnds ==
    ASSUME IInv, NEW c \in Task, DeleteEnd(c)
    PROVE  IInv' /\ UNCHANGED Abstract!vars
<1>1. /\ inside = c /\ ~alive /\ ~HasWaiter("wait")
      /\ inside' = NULL /\ pc' = [pc EXCEPT ![c] = "schedule"]
      /\ UNCHANGED taskVars
      /\ UNCHANGED <<lists, state, prio, object, err, current, pend, isr, alive, flags,
                     flag_waiters, want, set_flags, waiter_prios, at>>
  BY DEF DeleteEnd, Goto, taskVars, eventVars, loopVars
<1>2. /\ KernelTypeOK /\ ListsSound /\ CallsSound /\ CpuSound /\ Task \subseteq Thread
      /\ EventTyped /\ EventSound /\ NULL \notin Thread /\ Idle \notin Task
      /\ Queue = {"wait"}
      /\ \A t \in Thread : object[t] # NULL => object[t] = "wait" /\ t \in Task
  BY Basics
<1>3. /\ c = current /\ c \in Thread /\ c # NULL /\ isr = "none" /\ pc[c] = "section"
      /\ \A t \in Thread : t # c => pc'[t] = pc[t]
      /\ pc'[c] = "schedule"
  BY <1>1, <1>2 DEF KernelTypeOK, CpuSound
<1>4. \A t \in Thread : object[t] = NULL
  <2>1. ~\E t \in Thread : object[t] = "wait"
    BY <1>1, <1>2, WaiterFacts DEF ListsSound
  <2>. QED
    BY <1>2, <2>1
<1>5. TasksTyped' /\ ListsSound' /\ TasksSound'
  BY <1>1, SameTasks DEF IInv
<1>6. CallsSound'
  <2>1. pc'[Idle] = "user"
    BY <1>2, <1>3 DEF CallsSound, Thread
  <2>. QED
    BY <1>1, <1>4, <2>1 DEF CallsSound
<1>7. CpuSound'
  BY <1>1, <1>3 DEF CpuSound
<1>8. KernelInv'
  BY <1>1, <1>2, <1>5, <1>6, <1>7 DEF KernelInv, KernelTypeOK, TasksTyped, Link
<1>9. ~Serving /\ Serving' = Serving
  BY <1>1 DEF Serving
<1>10. EventTyped' /\ EventSound'
  BY <1>1, <1>2, <1>4, <1>9 DEF EventTyped, EventSound
<1>11. NobodyOverlooked'
  BY <1>1 DEF NobodyOverlooked
<1>12. Waits' = Waits /\ Answers' = Answers
  <2>1. \A t \in Task : pc'[t] \in {"wait", "return"} <=> pc[t] \in {"wait", "return"}
    BY <1>1, <1>2, <1>3
  <2>. QED
    BY <1>1, <2>1, SameCalls
<1>. QED
  BY <1>1, <1>8, <1>9, <1>10, <1>11, <1>12 DEF IInv, Abstract!vars

\* A wait times out.
LEMMA Expiring ==
    ASSUME FlagsApart, IInv, Expire
    PROVE  IInv' /\ \E t \in Task : Abstract!GiveUp(t)
<1> DEFINE t == Head(dq)
<1>1. /\ isr = "deal" /\ Due
      /\ MakeReady(t, WaitRemove(lists, "wait", t, prio[t]), "TIMEOUT")
      /\ flag_waiters' = Dropped(t) /\ prio' = prio
      /\ UNCHANGED <<current, pend, isr, inside, pc, alive, flags, want,
                     set_flags, waiter_prios, at>>
  BY DEF Expire, cpuVars, loopVars, MakeReady
<1>2. /\ KernelTypeOK /\ TasksSound /\ CpuSound /\ Queue = {"wait"} /\ "wait" # NULL
      /\ EventTyped /\ EventSound /\ Task \subseteq Thread
      /\ \A u \in Thread : object[u] # NULL => object[u] = "wait" /\ u \in Task
  BY Basics
<1>3. t \in Thread /\ object[t] = "wait"
  <2>1. dq # <<>> /\ dq \in Seq(Thread)
    BY <1>1, <1>2 DEF Due, KernelTypeOK
  <2>2. t = dq[1] /\ 1 \in 1..Len(dq)
    BY <2>1, HeadTailProperties, ListFacts
  <2>3. t \in ToSet(dq) /\ t \in Thread
    BY <2>1, <2>2, ListFacts
  <2>. QED
    BY <1>2, <2>3 DEF TasksSound
<1> HIDE DEF t
<1>4. /\ TasksTyped' /\ ListsSound' /\ TasksSound'
      /\ state' = [state EXCEPT ![t] = "READY"]
      /\ object' = [object EXCEPT ![t] = NULL]
      /\ err' = [err EXCEPT ![t] = "TIMEOUT"]
  <2>1. KernelInv /\ "wait" \in Queue
    BY <1>2 DEF IInv
  <2>. QED
    BY <1>1, <1>3, <2>1, Wakes
<1>5. /\ t \in Task /\ t \in Abstract!Waiters
      /\ Waits' = [Waits EXCEPT ![t] = NULL]
      /\ Answers' = [Answers EXCEPT ![t] = "failed"]
      /\ \A u \in Thread : object'[u] # NULL => u # t /\ object[u] # NULL
      /\ CallsSound'
  <2>1. /\ t \in Task /\ t \in Abstract!Waiters
        /\ Waits' = [Waits EXCEPT ![t] = NULL]
        /\ Answers' = [Answers EXCEPT ![t] = IF "TIMEOUT" = "OK" THEN "OK" ELSE "failed"]
        /\ \A u \in Thread : object'[u] # NULL =>
              u # t /\ object[u] # NULL /\ object'[u] = object[u]
        /\ CallsSound'
    <3>1. object[t] # NULL /\ pc' = pc /\ want' = want
      BY <1>1, <1>2, <1>3
    <3>. QED
      BY <1>3, <1>4, <3>1, WakingOne
  <2>. QED
    BY <2>1
<1>6. KernelInv'
  <2>1. CpuSound'
    BY <1>1, <1>2 DEF CpuSound
  <2>. QED
    BY <1>1, <1>2, <1>4, <1>5, <2>1 DEF KernelInv, KernelTypeOK, TasksTyped
<1>7. inside = NULL /\ ~Serving /\ Serving' = Serving
  BY <1>1, <1>2 DEF CpuSound, Serving
<1>8. /\ flag_waiters' \in [Flag -> SUBSET Prio]
      /\ \A u \in Thread : u # t /\ object[u] # NULL => Indexed(u)'
  BY <1>1, <1>2, <1>3, Dropping
<1>9. EventTyped' /\ EventSound'
  BY <1>1, <1>2, <1>5, <1>7, <1>8 DEF EventTyped, EventSound
<1>10. NobodyOverlooked'
  BY <1>1, <1>2, <1>5, <1>7, StaysQuiet DEF EventSound
<1>11. Abstract!GiveUp(t)
  BY <1>1, <1>5, <1>7 DEF Abstract!GiveUp
<1>. QED
  BY <1>5, <1>6, <1>9, <1>10, <1>11 DEF IInv

\* The call of the scheduler, and the handlers of SysTick and PendSV.
LEMMA Scheduling ==
    ASSUME SliceAlone, IInv,
           \/ \E c \in Task : CallScheduler(c)
           \/ Handler,
           UNCHANGED eventVars
    PROVE  IInv' /\ UNCHANGED Abstract!vars
<1>1. /\ UNCHANGED <<alive, flags, flag_waiters, want, set_flags, waiter_prios, at>>
      /\ KernelTypeOK /\ CpuSound /\ EventTyped /\ EventSound /\ Task \subseteq Thread
  BY Basics DEF eventVars, loopVars
<1>2. /\ KernelInv' /\ inside = NULL /\ inside' = NULL
      /\ UNCHANGED <<state, prio, object, err>>
      /\ \A t \in Task : pc'[t] \in {"wait", "return"} <=> pc[t] \in {"wait", "return"}
  <2>1. ASSUME NEW c \in Task, CallScheduler(c)
        PROVE  /\ KernelInv' /\ inside = NULL /\ inside' = NULL
               /\ UNCHANGED <<state, prio, object, err>>
               /\ \A t \in Task :
                     pc'[t] \in {"wait", "return"} <=> pc[t] \in {"wait", "return"}
    <3>1. KernelInv'
      BY <2>1, CallsScheduler DEF IInv
    <3>2. /\ \/ pc[c] = "schedule" /\ pc' = [pc EXCEPT ![c] = "user"]
             \/ pc[c] = "wait" /\ pc' = [pc EXCEPT ![c] = "return"]
          /\ UNCHANGED <<state, prio, object, err, inside>> /\ inside = NULL
      BY <2>1 DEF CallScheduler, Goto, Runs, taskVars
    <3>3. /\ \A u \in Thread : u # c => pc'[u] = pc[u]
          /\ pc'[c] \in {"wait", "return"} <=> pc[c] \in {"wait", "return"}
      BY <1>1, <3>2 DEF KernelTypeOK
    <3>4. \A t \in Task : pc'[t] \in {"wait", "return"} <=> pc[t] \in {"wait", "return"}
      BY <1>1, <3>3
    <3>. QED
      BY <3>1, <3>2, <3>4
  <2>2. CASE Handler
    <3>1. KernelInv' /\ UNCHANGED <<state, prio, object, err, inside, pc>>
      BY <2>2, SlicesAreApart, HandlersKeep DEF IInv
    <3>2. inside = NULL
      BY <1>1, <2>2
         DEF Handler, SysTick, SysTickSlice, SysTickEnd, ContextSwitch, Runs, CpuSound
    <3>. QED
      BY <3>1, <3>2
  <2>. QED
    BY <2>1, <2>2
<1>3. ~Serving /\ Serving' = Serving
  BY <1>1, <1>2 DEF Serving
<1>4. EventTyped'
  BY <1>1 DEF EventTyped
<1>5. EventSound'
  BY <1>1, <1>2, <1>3 DEF EventSound, Indexed
<1>6. NobodyOverlooked'
  BY <1>1, <1>2, <1>3, StaysQuiet DEF EventSound
<1>7. Waits' = Waits /\ Answers' = Answers
  BY <1>1, <1>2, SameCalls
<1>. QED
  BY <1>1, <1>2, <1>3, <1>4, <1>5, <1>6, <1>7 DEF IInv, Abstract!vars

-----------------------------------------------------------------------------
(* The theorems                                                            *)

\* When the kernel starts nobody waits and no flag is set.
LEMMA Starting ==
    ASSUME Init
    PROVE  IInv /\ Abstract!Init
<1>1. KernelInv
  BY KernelStarts DEF Init
<1>2. /\ object = [t \in Thread |-> NULL] /\ pc = [t \in Thread |-> "user"]
      /\ inside = NULL /\ alive = FALSE /\ flags = {}
      /\ flag_waiters = [f \in Flag |-> {}] /\ want = [t \in Task |-> NULL]
      /\ set_flags = {} /\ waiter_prios = {} /\ at = NULL
  BY DEF Init, KernelInit
<1>3. EventTyped
  BY <1>2 DEF EventTyped, Link
<1>4. EventSound /\ NobodyOverlooked
  BY <1>2 DEF EventSound, NobodyOverlooked
<1>5. Serving = FALSE
  BY <1>2 DEF Serving
<1>6. Waits = [t \in Task |-> NULL] /\ Answers = [t \in Task |-> "none"]
  BY <1>2 DEF Waits, Answers, Answered, Thread
<1>. QED
  BY <1>1, <1>2, <1>3, <1>4, <1>5, <1>6 DEF IInv, Abstract!Init

\* Every step keeps the invariant, and is allowed by EventGroup or not visible to it.
LEMMA Stepping ==
    ASSUME SliceAlone, FlagsApart, IInv, [Next]_vars
    PROVE  IInv' /\ [Abstract!Next]_(Abstract!vars)
<1>1. Request = Abstract!Request
  BY DEF Request, Abstract!Request
<1>2. ASSUME NEW c \in Task, Call(c)
      PROVE  IInv' /\ Abstract!Next
  <2>1. CASE Create(c)
    BY <2>1, Creating DEF Abstract!Next
  <2>2. ASSUME NEW r \in Requests[c], \/ WaitTake(c, r)
                                      \/ \E timeout \in Timeouts : WaitBlock(c, r, timeout)
        PROVE  IInv' /\ Abstract!Next
    <3>1. r \in Request
      BY EventAssumption
    <3>2. CASE WaitTake(c, r)
      BY <1>1, <3>1, <3>2, Taking DEF Abstract!Next
    <3>3. ASSUME NEW timeout \in Timeouts, WaitBlock(c, r, timeout)
          PROVE  IInv' /\ Abstract!Next
      <4>1. IInv' /\ Abstract!Wait(c, r)
        BY <3>3, Blocking
      <4>. QED
        BY <1>1, <3>1, <4>1 DEF Abstract!Next
    <3>. QED
      BY <2>2, <3>2, <3>3
  <2>3. ASSUME NEW fs \in SUBSET Flag, SetBegin(c, fs)
        PROVE  IInv' /\ Abstract!Next
    <3>1. IInv' /\ Abstract!SetBegin(fs)
      BY <2>3, SettingBegins
    <3>. QED
      BY <3>1 DEF Abstract!Next
  <2>4. CASE DeleteBegin(c)
    BY <2>4, DeletingBegins DEF Abstract!Next
  <2>. QED
    BY <1>2, <2>1, <2>2, <2>3, <2>4 DEF Call
<1>3. ASSUME NEW c \in Task, Continue(c)
      PROVE  IInv' /\ [Abstract!Next]_(Abstract!vars)
  <2>1. CASE CallScheduler(c) /\ UNCHANGED eventVars
    BY <2>1, Scheduling
  <2>2. CASE WaitReturn(c)
    BY <2>2, Returning DEF Abstract!Next
  <2>3. CASE NextFlag(c)
    BY <2>3, FlagFollows
  <2>4. CASE NextPriority(c)
    BY <2>4, PriorityFollows
  <2>5. CASE VisitTask(c)
    <3>1. CASE Met(flags, want[at])
      BY <2>5, <3>1, Serves DEF Abstract!Next
    <3>2. CASE ~Met(flags, want[at])
      BY <2>5, <3>2, PassesBy
    <3>. QED
      BY <3>1, <3>2
  <2>6. CASE SetEnd(c)
    BY <2>6, SettingEnds DEF Abstract!Next
  <2>7. CASE DeleteWake(c)
    BY <2>7, DeletingWakes DEF Abstract!Next
  <2>8. CASE DeleteEnd(c)
    BY <2>8, DeletingEnds
  <2>. QED
    BY <1>3, <2>1, <2>2, <2>3, <2>4, <2>5, <2>6, <2>7, <2>8 DEF Continue
<1>4. ASSUME NEW fs \in SUBSET Flag, Clear(fs)
      PROVE  IInv' /\ Abstract!Next
  <2>1. IInv' /\ Abstract!Clear(fs)
    BY <1>4, Clearing
  <2>. QED
    BY <2>1 DEF Abstract!Next
<1>5. CASE Expire
  BY <1>5, Expiring DEF Abstract!Next
<1>6. CASE Handler /\ UNCHANGED eventVars
  BY <1>6, Scheduling
<1>7. CASE UNCHANGED vars
  <2>1. /\ UNCHANGED kernelVars /\ UNCHANGED <<lists, state, prio, object, err, pc, inside>>
        /\ UNCHANGED <<alive, flags, flag_waiters, want, set_flags, waiter_prios, at>>
    BY <1>7 DEF vars, eventVars, loopVars, kernelVars, taskVars, cpuVars
  <2>2. KernelInv' /\ Waits' = Waits /\ Answers' = Answers /\ Serving' = Serving
    BY <2>1, Looping
  <2>3. EventTyped' /\ EventSound'
    BY <2>1, Basics DEF EventTyped, EventSound, Indexed, Serving
  <2>4. NobodyOverlooked'
    BY <2>1, Basics DEF NobodyOverlooked, Ahead, Met
  <2>. QED
    BY <2>1, <2>2, <2>3, <2>4 DEF IInv, Abstract!vars
<1>. QED
  BY <1>2, <1>3, <1>4, <1>5, <1>6, <1>7 DEF Next

\* The invariant that the theorems rest on.
THEOREM Invariance == ASSUME SliceAlone, FlagsApart PROVE Spec => []IInv
<1>1. Init => IInv
  BY Starting
<1>2. IInv /\ [Next]_vars => IInv'
  BY Stepping
<1>. QED
  BY <1>1, <1>2, PTL DEF Spec

\* Every variable has its type.
THEOREM TypesCorrect == ASSUME SliceAlone, FlagsApart PROVE Spec => []TypeOK
<1>1. IInv => TypeOK
  BY DEF IInv, KernelInv, EventTyped, TypeOK
<1>. QED
  BY <1>1, Invariance, PTL

\* The links that flyos_event_set walks along stay sound while it cuts them
\* (flyos_ipc.c 1747-1796).
THEOREM LinksStaySound == ASSUME SliceAlone, FlagsApart PROVE Spec => []LinksSound
<1>1. IInv => LinksSound
  BY KernelLinks DEF IInv
<1>. QED
  BY <1>1, Invariance, PTL

\* No task waits for flags that are set (flyos_ipc.c 1700-1902).
THEOREM NobodyMissesFlags == ASSUME SliceAlone, FlagsApart PROVE Spec => []NoMissedWakeup
<1>1. ASSUME IInv
      PROVE  NoMissedWakeup
  <2>1. SUFFICES ASSUME alive, inside = NULL, NEW t \in Task, object[t] # NULL
                 PROVE  ~Met(flags, want[t])
    BY DEF NoMissedWakeup
  <2>2. set_flags = {} /\ waiter_prios = {} /\ at = NULL
    BY <1>1, <2>1, Basics DEF EventSound, Serving
  <2>. QED
    BY <1>1, <2>1, <2>2, Quiet
<1>. QED
  BY <1>1, Invariance, PTL

\* The event flags keep the promise of flyos_ipc.h: they implement EventGroup.
THEOREM EventsImplemented == ASSUME SliceAlone, FlagsApart PROVE Spec => EventSpec
<1>1. Init => Abstract!Init
  BY Starting
<1>2. IInv /\ [Next]_vars => [Abstract!Next]_(Abstract!vars)
  BY Stepping
<1>. QED
  BY <1>1, <1>2, Invariance, PTL DEF Spec, EventSpec, Abstract!Spec

-----------------------------------------------------------------------------
(* What the promise is worth                                               *)

\* While no set is in progress, no task waits for flags that are set.
EventsServe ==
    /\ Waits \in [Task -> Abstract!Request \cup {NULL}]
    /\ alive /\ ~Serving => \A t \in Abstract!Waiters : ~Abstract!Met(flags, Waits[t])

\* Whatever implements EventGroup keeps no task waiting for flags that are set,
\* as NoMissedWakeup says of the code.
THEOREM EventsNeverStrand == EventSpec => []EventsServe
<1>1. Abstract!Init => EventsServe
  BY DEF Abstract!Init, EventsServe, Abstract!Waiters
<1>2. EventsServe /\ [Abstract!Next]_(Abstract!vars) => EventsServe'
  <2>. SUFFICES ASSUME EventsServe, [Abstract!Next]_(Abstract!vars)
                PROVE  EventsServe'
    OBVIOUS
  <2>. USE DEF EventsServe, Abstract!Waiters
  <2>1. CASE Abstract!Open
    BY <2>1 DEF Abstract!Open
  <2>2. CASE Abstract!Close
    BY <2>2 DEF Abstract!Close
  <2>3. ASSUME NEW f \in SUBSET Flag, Abstract!SetBegin(f)
        PROVE  EventsServe'
    BY <2>3 DEF Abstract!SetBegin
  <2>4. ASSUME NEW f \in SUBSET Flag, Abstract!Clear(f)
        PROVE  EventsServe'
    BY <2>4 DEF Abstract!Clear, Abstract!Met
  <2>5. ASSUME NEW r \in Abstract!Request, Abstract!Take(r)
        PROVE  EventsServe'
    BY <2>5 DEF Abstract!Take, Abstract!Left, Abstract!Met
  <2>6. ASSUME NEW r \in Abstract!Request, NEW t \in Task, Abstract!Wait(t, r)
        PROVE  EventsServe'
    BY <2>6 DEF Abstract!Wait
  <2>7. ASSUME NEW t \in Task, Abstract!Serve(t)
        PROVE  EventsServe'
    BY <2>7 DEF Abstract!Serve
  <2>8. CASE Abstract!SetEnd
    BY <2>8 DEF Abstract!SetEnd
  <2>9. ASSUME NEW t \in Task, Abstract!GiveUp(t)
        PROVE  EventsServe'
    BY <2>9 DEF Abstract!GiveUp
  <2>10. ASSUME NEW t \in Task, Abstract!Collect(t)
         PROVE  EventsServe'
    BY <2>10 DEF Abstract!Collect
  <2>11. CASE UNCHANGED Abstract!vars
    BY <2>11 DEF Abstract!vars
  <2>. QED
    BY <2>1, <2>2, <2>3, <2>4, <2>5, <2>6, <2>7, <2>8, <2>9, <2>10, <2>11 DEF Abstract!Next
<1>. QED
  BY <1>1, <1>2, PTL DEF EventSpec, Abstract!Spec
=============================================================================
