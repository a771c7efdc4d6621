------------------------- MODULE MessageQueueProofs -------------------------
(***************************************************************************)
(* The message queue and the mailbox of flyos_ipc.c with any number of     *)
(* tasks, priorities, messages, places and time-outs: nobody waits in      *)
(* vain, and no message is lost, doubled or overtaken: they implement      *)
(* Channel.  The ring buffer comes first: for every number of slots it is  *)
(* a FIFO, Enqueue appends to its contents, Oldest and Dequeue are head    *)
(* and tail.                                                               *)
(***************************************************************************)
EXTENDS MessageQueue, IpcTasksProofs

-----------------------------------------------------------------------------
(* The ring buffer                                                         *)

\* The indices stay below twice the number of slots, where the remainder is a
\* matter of one subtraction.
LEMMA WrappedIs ==
    ASSUME NEW n \in Nat \ {0}, NEW a \in Nat, a < n + n
    PROVE  Wrapped(a, n) = IF a < n THEN a ELSE a - n
  <1>1. CASE a < n
    BY <1>1 DEF Wrapped
  <1>2. CASE a >= n
    <2>. DEFINE b == a - n
    <2>1. b \in Nat /\ b < n
      BY <1>2
    <2>2. a = b + n
      OBVIOUS
    <2>. HIDE DEF b
    <2>3. (b + n) % n = b
      BY <2>1, SMTT(30)
    <2>. QED
      BY <1>2, <2>1, <2>2, <2>3 DEF Wrapped
  <1>. QED
    BY <1>1, <1>2

\* A new buffer is sound and empty.
LEMMA EmptyRingIsEmpty ==
    ASSUME NEW n \in Nat \ {0}
    PROVE  /\ RingSound(EmptyRing(n), n)
           /\ Contents(EmptyRing(n), n) = <<>>
  <1>. DEFINE e == EmptyRing(n)
  <1>1. e.read = 0 /\ e.write = 0 /\ e.count = 0 /\ e \in RingType(n)
    BY DEF EmptyRing, RingType
  <1>2. Wrapped(0, n) = 0
    BY WrappedIs
  <1>. HIDE DEF e
  <1>3. Contents(e, n) = <<>>
    BY <1>1 DEF Contents
  <1>4. e.write = Wrapped(e.read + e.count, n)
    BY <1>1, <1>2
  <1>. QED
    BY <1>1, <1>3, <1>4 DEF RingSound, e

\* Where the message at position i of a sound buffer is: the places of
\* different positions are different, and the next one is the write index.
LEMMA Places ==
    ASSUME NEW n \in Nat \ {0}, NEW read \in 0..(n - 1), NEW count \in 0..n,
           NEW write, write = Wrapped(read + count, n),
           NEW i \in 1..(count + 1)
    PROVE  /\ Wrapped(read + i - 1, n) \in 0..(n - 1)
           /\ i = count + 1 => Wrapped(read + i - 1, n) = write
           /\ i <= count /\ count < n => Wrapped(read + i - 1, n) # write
  <1>1. read + i - 1 \in Nat /\ read + i - 1 < n + n
    OBVIOUS
  <1>2. Wrapped(read + i - 1, n)
            = IF read + i - 1 < n THEN read + i - 1 ELSE read + i - 1 - n
    BY <1>1, WrappedIs
  <1>3. read + count \in Nat /\ read + count < n + n
    OBVIOUS
  <1>4. write = IF read + count < n THEN read + count ELSE read + count - n
    BY <1>3, WrappedIs
  <1>. QED
    BY <1>1, <1>2, <1>4

\* Where the next message goes after one has been stored.
LEMMA NextWrite ==
    ASSUME NEW n \in Nat \ {0}, NEW read \in 0..(n - 1), NEW count \in 0..n,
           NEW write, write = Wrapped(read + count, n), count < n
    PROVE  /\ Wrapped(write + 1, n) \in 0..(n - 1)
           /\ Wrapped(write + 1, n) = Wrapped(read + (count + 1), n)
  <1>1. read + count \in Nat /\ read + count < n + n
    OBVIOUS
  <1>2. write = IF read + count < n THEN read + count ELSE read + count - n
    BY <1>1, WrappedIs
  <1>3. write + 1 \in Nat /\ write + 1 < n + n
    BY <1>2
  <1>4. Wrapped(write + 1, n) = IF write + 1 < n THEN write + 1 ELSE write + 1 - n
    BY <1>3, WrappedIs
  <1>5. read + (count + 1) \in Nat /\ read + (count + 1) < n + n
    OBVIOUS
  <1>6. Wrapped(read + (count + 1), n)
            = IF read + (count + 1) < n THEN read + (count + 1)
                                        ELSE read + (count + 1) - n
    BY <1>5, WrappedIs
  <1>. QED
    BY <1>2, <1>4, <1>6

\* After a message has left, every position starts one place further.
LEMMA NextRead ==
    ASSUME NEW n \in Nat \ {0}, NEW read \in 0..(n - 1), NEW i \in 1..n
    PROVE  /\ Wrapped(read + 1, n) \in 0..(n - 1)
           /\ Wrapped(Wrapped(read + 1, n) + i - 1, n) = Wrapped(read + i, n)
  <1>. DEFINE next == Wrapped(read + 1, n)
  <1>1. read + 1 \in Nat /\ read + 1 < n + n
    OBVIOUS
  <1>2. next = IF read + 1 < n THEN read + 1 ELSE read + 1 - n
    BY <1>1, WrappedIs
  <1>7. next \in 0..(n - 1)
    BY <1>2
  <1>. HIDE DEF next
  <1>3. next + i - 1 \in Nat /\ next + i - 1 < n + n
    BY <1>7
  <1>4. Wrapped(next + i - 1, n)
            = IF next + i - 1 < n THEN next + i - 1 ELSE next + i - 1 - n
    BY <1>3, <1>7, WrappedIs
  <1>5. read + i \in Nat /\ read + i < n + n
    OBVIOUS
  <1>6. Wrapped(read + i, n) = IF read + i < n THEN read + i ELSE read + i - n
    BY <1>5, WrappedIs
  <1>8. Wrapped(next + i - 1, n) = Wrapped(read + i, n)
    BY <1>2, <1>4, <1>6
  <1>. QED
    BY <1>7, <1>8 DEF next

\* What soundness says of the fields, and of the contents.
LEMMA SoundRing ==
    ASSUME NEW n \in Nat \ {0}, NEW r, RingSound(r, n)
    PROVE  /\ r \in RingType(n)
           /\ r.slots \in [0..(n - 1) -> Message \cup {NULL}]
           /\ r.read \in 0..(n - 1)
           /\ r.write \in 0..(n - 1)
           /\ r.count \in 0..n
           /\ r.write = Wrapped(r.read + r.count, n)
           /\ \A i \in 1..r.count :
                /\ Contents(r, n)[i] = r.slots[Wrapped(r.read + i - 1, n)]
                /\ r.slots[Wrapped(r.read + i - 1, n)] \in Message
           /\ Contents(r, n) \in Seq(Message)
           /\ Len(Contents(r, n)) = r.count
  <1>1. /\ r \in RingType(n)
        /\ r.write = Wrapped(r.read + r.count, n)
        /\ \A i \in 1..r.count : Contents(r, n)[i] \in Message
    BY DEF RingSound
  <1>2. /\ r.slots \in [0..(n - 1) -> Message \cup {NULL}]
        /\ r.read \in 0..(n - 1)
        /\ r.write \in 0..(n - 1)
        /\ r.count \in 0..n
    BY <1>1 DEF RingType
  <1>. DEFINE count == r.count
              c     == Contents(r, n)
  <1>3. \A i \in 1..r.count : c[i] = r.slots[Wrapped(r.read + i - 1, n)]
    BY DEF Contents
  <1>4. c = [i \in 1..count |-> c[i]]
    BY DEF Contents
  <1>5. count \in Nat /\ \A i \in 1..count : c[i] \in Message
    BY <1>1, <1>2
  <1>. HIDE DEF count, c
  <1>6. c \in [1..count -> Message]
    BY <1>4, <1>5
  <1>7. c \in Seq(Message) /\ Len(c) = count
    BY <1>5, <1>6
  <1>. QED
    BY <1>1, <1>2, <1>3, <1>7 DEF c, count

\* Storing a message appends it (queue_send_common 1352): nothing that is in
\* the buffer is overwritten, moved or forgotten.
THEOREM EnqueueAppends ==
    ASSUME NEW n \in Nat \ {0}, NEW r, RingSound(r, n), r.count < n,
           NEW m \in Message
    PROVE  /\ RingSound(Enqueue(r, n, m), n)
           /\ Contents(Enqueue(r, n, m), n) = Append(Contents(r, n), m)
  <1>. DEFINE e      == Enqueue(r, n, m)
              before == Contents(r, n)
              after  == Contents(e, n)
  <1>1. /\ r.slots \in [0..(n - 1) -> Message \cup {NULL}]
        /\ r.read \in 0..(n - 1)
        /\ r.write \in 0..(n - 1)
        /\ r.count \in 0..n
        /\ r.write = Wrapped(r.read + r.count, n)
        /\ \A i \in 1..r.count :
             /\ before[i] = r.slots[Wrapped(r.read + i - 1, n)]
             /\ r.slots[Wrapped(r.read + i - 1, n)] \in Message
        /\ before \in Seq(Message) /\ Len(before) = r.count
    BY SoundRing
  <1>2. /\ e.slots = [r.slots EXCEPT ![r.write] = m]
        /\ e.read = r.read
        /\ e.write = Wrapped(r.write + 1, n)
        /\ e.count = r.count + 1
    BY DEF Enqueue
  <1>3. /\ Wrapped(r.write + 1, n) \in 0..(n - 1)
        /\ Wrapped(r.write + 1, n) = Wrapped(r.read + (r.count + 1), n)
    BY <1>1, NextWrite
  <1>4. e \in RingType(n)
    <2>1. [r.slots EXCEPT ![r.write] = m] \in [0..(n - 1) -> Message \cup {NULL}]
      BY <1>1
    <2>2. r.count + 1 \in 0..n
      BY <1>1
    <2>. QED
      BY <1>1, <1>3, <2>1, <2>2 DEF Enqueue, RingType
  <1>5. \A i \in 1..(r.count + 1) :
            e.slots[Wrapped(r.read + i - 1, n)]
                = IF i <= r.count THEN r.slots[Wrapped(r.read + i - 1, n)] ELSE m
    <2>. TAKE i \in 1..(r.count + 1)
    <2>1. /\ Wrapped(r.read + i - 1, n) \in 0..(n - 1)
          /\ i = r.count + 1 => Wrapped(r.read + i - 1, n) = r.write
          /\ i <= r.count => Wrapped(r.read + i - 1, n) # r.write
      <3>. DEFINE read == r.read  write == r.write  count == r.count
      <3>1. /\ read \in 0..(n - 1) /\ count \in 0..n /\ count < n
            /\ write = Wrapped(read + count, n) /\ i \in 1..(count + 1)
        BY <1>1
      <3>. HIDE DEF read, write, count
      <3>2. /\ Wrapped(read + i - 1, n) \in 0..(n - 1)
            /\ i = count + 1 => Wrapped(read + i - 1, n) = write
            /\ i <= count /\ count < n => Wrapped(read + i - 1, n) # write
        BY <3>1, Places
      <3>. QED
        BY <3>1, <3>2 DEF read, write, count
    <2>2. i <= r.count \/ i = r.count + 1
      BY <1>1
    <2>. QED
      BY <1>1, <1>2, <2>1, <2>2
  <1>. HIDE DEF e
  <1>6. \A i \in 1..(r.count + 1) :
            after[i] = IF i <= r.count THEN before[i] ELSE m
    <2>. TAKE i \in 1..(r.count + 1)
    <2>1. after[i] = e.slots[Wrapped(r.read + i - 1, n)]
      BY <1>2 DEF Contents
    <2>2. i <= r.count => i \in 1..r.count
      BY <1>1
    <2>. QED
      BY <1>1, <1>5, <2>1, <2>2
  <1>. HIDE DEF before, after
  <1>7. \A i \in 1..e.count : after[i] \in Message
    <2>. TAKE i \in 1..e.count
    <2>1. i \in 1..(r.count + 1) /\ (i <= r.count => i \in 1..r.count)
      BY <1>1, <1>2
    <2>. QED
      BY <1>1, <1>6, <2>1
  <1>8. RingSound(e, n)
    BY <1>2, <1>3, <1>4, <1>7 DEF RingSound, after
  <1>9. after \in Seq(Message) /\ Len(after) = r.count + 1
    BY <1>2, <1>8, SoundRing DEF after
  <1>10. after = Append(before, m)
    <2>. DEFINE count == r.count
    <2>1. /\ before \in Seq(Message) /\ Len(before) = count /\ count \in Nat
          /\ after \in Seq(Message) /\ Len(after) = count + 1
          /\ \A i \in 1..(count + 1) : after[i] = IF i <= count THEN before[i] ELSE m
      BY <1>1, <1>6, <1>9
    <2>. HIDE DEF count
    <2>. QED
      BY <2>1
  <1>. QED
    BY <1>8, <1>10 DEF before, after, e

\* Taking a message takes the oldest one (flyos_queue_receive 1423) and leaves
\* the others in their order.
THEOREM DequeueIsTail ==
    ASSUME NEW n \in Nat \ {0}, NEW r, RingSound(r, n), r.count > 0
    PROVE  /\ RingSound(Dequeue(r, n), n)
           /\ Oldest(r) = Head(Contents(r, n))
           /\ Contents(Dequeue(r, n), n) = Tail(Contents(r, n))
           /\ Contents(r, n) # <<>>
  <1>. DEFINE d      == Dequeue(r, n)
              next   == Wrapped(r.read + 1, n)
              before == Contents(r, n)
              after  == Contents(d, n)
  <1>1. /\ r.slots \in [0..(n - 1) -> Message \cup {NULL}]
        /\ r.read \in 0..(n - 1)
        /\ r.write \in 0..(n - 1)
        /\ r.count \in 1..n
        /\ r.write = Wrapped(r.read + r.count, n)
        /\ \A i \in 1..r.count :
             /\ before[i] = r.slots[Wrapped(r.read + i - 1, n)]
             /\ r.slots[Wrapped(r.read + i - 1, n)] \in Message
        /\ before \in Seq(Message) /\ Len(before) = r.count
    BY SoundRing
  <1>2. /\ d.slots = r.slots /\ d.read = next
        /\ d.write = r.write /\ d.count = r.count - 1
    BY DEF Dequeue
  <1>3. /\ next \in 0..(n - 1)
        /\ \A i \in 1..n : Wrapped(next + i - 1, n) = Wrapped(r.read + i, n)
    BY <1>1, NextRead
  <1>4. d \in RingType(n)
    <2>1. r.count - 1 \in 0..n
      BY <1>1
    <2>. QED
      BY <1>1, <1>3, <2>1 DEF Dequeue, RingType
  <1>. HIDE DEF next, d
  <1>5. d.write = Wrapped(d.read + d.count, n)
    <2>1. next + (r.count - 1) = next + r.count - 1
      BY <1>1, <1>3
    <2>2. Wrapped(next + r.count - 1, n) = Wrapped(r.read + r.count, n)
      BY <1>1, <1>3
    <2>. QED
      BY <1>1, <1>2, <2>1, <2>2
  <1>6. \A i \in 1..(r.count - 1) : i + 1 \in 1..r.count /\ after[i] = before[i + 1]
    <2>. TAKE i \in 1..(r.count - 1)
    <2>1. i \in 1..n /\ i + 1 \in 1..r.count /\ r.read + (i + 1) - 1 = r.read + i
      BY <1>1
    <2>2. after[i] = r.slots[Wrapped(next + i - 1, n)]
      BY <1>2 DEF Contents
    <2>3. before[i + 1] = r.slots[Wrapped(r.read + i, n)]
      BY <1>1, <2>1
    <2>. QED
      BY <1>3, <2>1, <2>2, <2>3
  <1>7. Oldest(r) = before[1]
    <2>1. Wrapped(r.read, n) = r.read
      BY <1>1, WrappedIs
    <2>2. r.read + 1 - 1 = r.read /\ 1 \in 1..r.count
      BY <1>1
    <2>3. before[1] = r.slots[Wrapped(r.read + 1 - 1, n)]
      BY <1>1, <2>2
    <2>. QED
      BY <2>1, <2>2, <2>3 DEF Oldest
  <1>. HIDE DEF before, after
  <1>8. \A i \in 1..d.count : after[i] \in Message
    <2>. TAKE i \in 1..d.count
    <2>1. i \in 1..(r.count - 1) /\ i + 1 \in 1..Len(before)
      BY <1>1, <1>2
    <2>. QED
      BY <1>1, <1>6, <2>1
  <1>9. RingSound(d, n)
    BY <1>4, <1>5, <1>8 DEF RingSound, after
  <1>10. after \in Seq(Message) /\ Len(after) = r.count - 1
    BY <1>2, <1>9, SoundRing DEF after
  <1>11. after = Tail(before) /\ before # <<>> /\ before[1] = Head(before)
    <2>. DEFINE count == r.count
    <2>1. /\ before \in Seq(Message) /\ Len(before) = count /\ count \in Nat \ {0}
          /\ after \in Seq(Message) /\ Len(after) = count - 1
          /\ \A i \in 1..(count - 1) : after[i] = before[i + 1]
      BY <1>1, <1>6, <1>10
    <2>. HIDE DEF count
    <2>. QED
      BY <2>1
  <1>. QED
    BY <1>7, <1>9, <1>11 DEF before, after, d

-----------------------------------------------------------------------------
(* The inductive invariant                                                 *)

\* A task whose time slice may run out shares its priority with no other task
\* that makes the same call.  Without this the theorems do not hold: the end of
\* the slice of a task that has just blocked would put the list of its wait
\* queue in the place of a ready ring.
SliceAlone ==
    \A call \in {"send", "receive"} : \A t \in Sliced \cap Calls[call] :
        \A u \in Calls[call] \ {t} : Priority[u] # Priority[t]

\* A task that may time out while it receives shares its priority with no other
\* receiver.  Without this they do not hold either: the time-out would take all
\* receivers of that priority out of the wait queue (MCQueueTimeout.cfg).
TimeoutAlone ==
    \A t \in Calls["receive"] : Timeouts[t] \ {WAIT_FOREVER} # {} =>
        \A u \in Calls["receive"] \ {t} : Priority[u] # Priority[t]

ObjectTyped ==
    /\ type    \in {"none", "QUEUE", "MAILBOX"}
    /\ max     \in 1..MAX_ITEMS
    /\ RingSound(ring, max)
    /\ message \in Message \cup {NULL}
    /\ full    \in BOOLEAN
    /\ data    \in [Task -> Message \cup {NULL}]
    /\ got     \in [Task -> Message \cup {NULL}]

\* A task waits in the queue of the call it has made, with a message if it is a
\* sender, and for an object that exists or that is being deleted.  Only calls
\* that may time out are in the delta queue.
ObjectSound ==
    /\ type # "none" => inside = NULL
    /\ \A t \in Thread : object[t] # NULL =>
        /\ type # "none" \/ inside # NULL
        /\ object[t] = "send" => t \in Calls["send"] /\ data[t] # NULL
        /\ object[t] = "recv" => t \in Calls["receive"]
    /\ \A t \in ToSet(dq) : Timeouts[t] \ {WAIT_FOREVER} # {}

IInv ==
    /\ KernelInv
    /\ ObjectTyped
    /\ ObjectSound
    /\ NobodyStranded

\* The facts that most steps start from.
LEMMA Basics ==
    ASSUME IInv
    PROVE  /\ KernelTypeOK /\ ListsSound /\ TasksSound /\ CallsSound /\ CpuSound
           /\ Queue = {"send", "recv"} /\ "send" # NULL /\ "recv" # NULL
           /\ NULL \notin Thread /\ NULL \notin Message /\ Task \subseteq Thread
           /\ Idle \in Thread /\ Idle \notin Task
           /\ \A t \in Thread : /\ object[t] \in {"send", "recv", NULL}
                                /\ object[t] # NULL => t \in Task
           /\ type \in {"none", "QUEUE", "MAILBOX"} /\ full \in BOOLEAN
           /\ max \in Nat \ {0} /\ max \in 1..MAX_ITEMS /\ MAX_ITEMS \in Nat \ {0}
           /\ RingSound(ring, max) /\ ring.count \in 0..max
           /\ message \in Message \cup {NULL}
           /\ data \in [Task -> Message \cup {NULL}]
           /\ got \in [Task -> Message \cup {NULL}]
<1>1. /\ KernelTypeOK /\ ListsSound /\ TasksSound /\ CallsSound /\ CpuSound
      /\ type \in {"none", "QUEUE", "MAILBOX"} /\ full \in BOOLEAN
      /\ max \in 1..MAX_ITEMS /\ RingSound(ring, max)
      /\ message \in Message \cup {NULL}
      /\ data \in [Task -> Message \cup {NULL}]
      /\ got \in [Task -> Message \cup {NULL}]
  BY DEF IInv, KernelInv, ObjectTyped
<1>2. /\ Queue = {"send", "recv"} /\ NULL \notin Message /\ MAX_ITEMS \in Nat \ {0}
      /\ NULL \notin Thread \cup Queue
  BY MessageAssumption, IpcAssumption
<1>3. max \in Nat \ {0}
  BY <1>1, <1>2
<1>4. ring.count \in 0..max
  BY <1>1, <1>3, SoundRing
<1>5. \A t \in Thread : /\ object[t] \in {"send", "recv", NULL}
                        /\ object[t] # NULL => t \in Task
  BY <1>1, <1>2 DEF KernelTypeOK, CallsSound
<1>. QED
  BY <1>1, <1>2, <1>3, <1>4, <1>5, IpcAssumption DEF Thread

\* The hypothesis about slices in terms of the state.
LEMMA SlicesAreApart ==
    ASSUME SliceAlone, IInv
    PROVE  SlicesApart
<1>1. SUFFICES ASSUME NEW t \in Sliced, NEW u \in Thread \ {t},
                      object[t] # NULL, object[u] = object[t]
               PROVE  prio[u] # prio[t]
  BY DEF SlicesApart
<1>2. t \in Thread
  BY IpcAssumption
<1>3. /\ prio[t] = Priority[t] /\ prio[u] = Priority[u]
      /\ object[t] = "send" \/ object[t] = "recv"
  BY <1>1, <1>2, Basics DEF TasksSound
<1>4. CASE object[t] = "send"
  <2>1. t \in Calls["send"] /\ u \in Calls["send"]
    BY <1>1, <1>2, <1>4 DEF IInv, ObjectSound
  <2>. QED
    BY <1>1, <1>3, <2>1 DEF SliceAlone
<1>5. CASE object[t] = "recv"
  <2>1. t \in Calls["receive"] /\ u \in Calls["receive"]
    BY <1>1, <1>2, <1>5 DEF IInv, ObjectSound
  <2>. QED
    BY <1>1, <1>3, <2>1 DEF SliceAlone
<1>. QED
  BY <1>3, <1>4, <1>5

\* Who waits, in terms of what the code asks the wait queues.
LEMMA WhoWaits ==
    ASSUME IInv
    PROVE  /\ \A q \in Queue : HasWaiter(q) <=> \E t \in Task : object[t] = q
           /\ Refills <=> \E t \in Task : object[t] = "send"
           /\ type # "none" => (HandsOver <=> \E t \in Task : object[t] = "recv")
<1>1. /\ ListsSound /\ Queue = {"send", "recv"} /\ NULL \notin Thread
      /\ "send" # NULL /\ "recv" # NULL /\ Task \subseteq Thread
      /\ type \in {"none", "QUEUE", "MAILBOX"}
      /\ \A t \in Thread : object[t] # NULL => t \in Task
  BY Basics
<1>2. \A q \in Queue : /\ HasWaiter(q) <=> \E t \in Thread : object[t] = q
                       /\ HasWaiter(q) => HighestWaiter(q) # NULL
  BY <1>1, WaiterFacts DEF ListsSound
<1>3. \A q \in Queue : HasWaiter(q) <=> \E t \in Task : object[t] = q
  BY <1>1, <1>2
<1>4. Refills <=> \E t \in Task : object[t] = "send"
  BY <1>1, <1>2, <1>3 DEF Refills
<1>5. ASSUME type # "none"
      PROVE  HandsOver <=> \E t \in Task : object[t] = "recv"
  <2>1. HandsOver => \E t \in Task : object[t] = "recv"
    BY <1>1, <1>3 DEF HandsOver
  <2>2. ASSUME NEW t \in Task, object[t] = "recv"
        PROVE  HandsOver
    <3>1. HasWaiter("recv") /\ HighestWaiter("recv") # NULL
      BY <1>1, <1>2, <1>3, <2>2
    <3>2. (type = "QUEUE" /\ ring.count = 0) \/ (type = "MAILBOX" /\ ~full)
      BY <1>1, <1>5, <2>2 DEF IInv, NobodyStranded
    <3>. QED
      BY <3>1, <3>2 DEF HandsOver
  <2>. QED
    BY <2>1, <2>2
<1>. QED
  BY <1>3, <1>4, <1>5


-----------------------------------------------------------------------------
(* What the actions do to the tasks                                        *)

\* A running call goes on to the scheduler or to its end, or nothing changes.
CallMoves ==
    /\ pc' \in [Thread -> {"user", "schedule", "wait", "return", "finish", "section"}]
    /\ \A u \in Thread : \/ pc'[u] = pc[u]
                         \/ /\ u # Idle /\ pc[u] = "user"
                            /\ pc'[u] \in {"schedule", "finish"}

\* t waits no longer and will be answered according to e; the others go on.
Departs(t, e) ==
    /\ Offers'    = [Offers EXCEPT ![t] = NULL]
    /\ Receivers' = Receivers \ {t}
    /\ Answers'   = [Answers EXCEPT ![t] = IF e = "OK" THEN "OK" ELSE "failed"]
    /\ object'[t] = NULL
    /\ \A u \in Thread : u # t => object'[u] = object[u]
    /\ \A u \in Task : u # t => data'[u] = data[u]
    /\ ToSet(dq') \subseteq ToSet(dq)

\* A task that waits is woken with the result e.
LEMMA Waken ==
    ASSUME IInv, NEW t \in Thread, object[t] # NULL,
           NEW e \in {"OK", "TIMEOUT", "ERROR"},
           state' = [state EXCEPT ![t] = "READY"],
           object' = [object EXCEPT ![t] = NULL], err' = [err EXCEPT ![t] = e],
           CallMoves, \A u \in Task : u # t => data'[u] = data[u],
           ToSet(dq') \subseteq ToSet(dq)
    PROVE  t \in Task /\ Departs(t, e) /\ CallsSound'
<1>1. /\ KernelTypeOK /\ TasksSound /\ CallsSound /\ Task \subseteq Thread
      /\ t \in Task /\ Idle \notin Task /\ Idle \in Thread /\ "send" # NULL /\ "recv" # NULL
  BY Basics
<1>2. /\ pc[t] \in {"wait", "return"} /\ pc'[t] = pc[t]
      /\ \A u \in Thread : pc'[u] \in {"wait", "return"} <=> pc[u] \in {"wait", "return"}
      /\ pc'[Idle] = "user"
  BY <1>1 DEF CallsSound, CallMoves
<1>3. /\ \A u \in Thread : u # t => /\ state'[u] = state[u] /\ object'[u] = object[u]
                                    /\ err'[u] = err[u]
      /\ state'[t] = "READY" /\ object'[t] = NULL /\ err'[t] = e
  BY <1>1 DEF KernelTypeOK
<1>4. Offers' = [Offers EXCEPT ![t] = NULL]
  <2>1. \A u \in Task : Offers'[u] = IF u = t THEN NULL ELSE Offers[u]
    BY <1>1, <1>3 DEF Offers
  <2>2. DOMAIN Offers = Task /\ Offers' = [u \in Task |-> Offers'[u]]
    BY DEF Offers
  <2>. QED
    BY <2>1, <2>2
<1>5. Receivers' = Receivers \ {t}
  BY <1>1, <1>3 DEF Receivers
<1>6. Answers' = [Answers EXCEPT ![t] = IF e = "OK" THEN "OK" ELSE "failed"]
  <2>1. \A u \in Task : u # t => Answers'[u] = Answers[u]
    BY <1>1, <1>2, <1>3 DEF Answers, Answered
  <2>2. Answers'[t] = IF e = "OK" THEN "OK" ELSE "failed"
    BY <1>1, <1>2, <1>3 DEF Answers, Answered
  <2>3. DOMAIN Answers = Task /\ Answers' = [u \in Task |-> Answers'[u]]
    BY DEF Answers
  <2>. QED
    BY <2>1, <2>2, <2>3
<1>7. CallsSound'
  BY <1>1, <1>2, <1>3 DEF CallsSound
<1>. QED
  BY <1>1, <1>3, <1>4, <1>5, <1>6, <1>7 DEF Departs

\* The most urgent task that waits in q is woken.
LEMMA WakingHighest ==
    ASSUME IInv, NEW q \in Queue, HasWaiter(q), NEW e \in {"OK", "TIMEOUT", "ERROR"},
           WakeHighest(q, e), isr' = isr, CallMoves,
           NEW t, t = HighestWaiter(q),
           \A u \in Task : u # t => data'[u] = data[u]
    PROVE  /\ t \in Task /\ object[t] = q
           /\ \A u \in Task : object[u] = q => Priority[t] <= Priority[u]
           /\ TasksTyped' /\ ListsSound' /\ TasksSound' /\ CallsSound'
           /\ Departs(t, e)
<1>1. /\ KernelInv /\ TasksSound /\ NULL \notin Queue /\ Task \subseteq Thread
      /\ Idle \notin Task
  BY Basics, IpcAssumption DEF IInv
<1>2. /\ t \in Thread /\ object[t] = q
      /\ \A u \in Thread : object[u] = q => prio[t] <= prio[u]
      /\ TasksTyped' /\ ListsSound' /\ TasksSound'
      /\ ToSet(dq') \subseteq ToSet(dq)
      /\ state' = [state EXCEPT ![t] = "READY"]
      /\ object' = [object EXCEPT ![t] = NULL]
      /\ err' = [err EXCEPT ![t] = e]
  BY <1>1, WakesHighest
<1>3. t \in Task /\ Departs(t, e) /\ CallsSound'
  <2>1. object[t] # NULL
    BY <1>1, <1>2
  <2>. QED
    BY <1>2, <2>1, Waken
<1>4. \A u \in Task : u \in Thread /\ prio[u] = Priority[u]
  BY <1>1 DEF TasksSound
<1>. QED
  BY <1>2, <1>3, <1>4

\* What a task's departure keeps if the object stays as it is.
LEMMA DepartureKeeps ==
    ASSUME IInv, NEW t \in Task, NEW e, Departs(t, e),
           UNCHANGED <<type, max, ring, full, inside>>
    PROVE  ObjectSound' /\ NobodyStranded'
<1>1. /\ \A u \in Thread : object'[u] # NULL => u # t /\ object'[u] = object[u]
      /\ \A u \in Task : object'[u] # NULL => data'[u] = data[u]
      /\ ToSet(dq') \subseteq ToSet(dq) /\ Task \subseteq Thread
      /\ "send" # NULL /\ "recv" # NULL
      /\ \A u \in Thread : object[u] # NULL => u \in Task
  BY Basics DEF Departs
<1>2. ObjectSound'
  BY <1>1 DEF IInv, ObjectSound
<1>3. NobodyStranded'
  BY <1>1 DEF IInv, NobodyStranded
<1>. QED
  BY <1>2, <1>3

\* Calls that begin or go on without a wait are not seen by Channel.
LEMMA SameCalls ==
    ASSUME UNCHANGED <<state, object, err, data>>, Task \subseteq Thread,
           \A u \in Thread : pc'[u] \in {"wait", "return"} <=> pc[u] \in {"wait", "return"}
    PROVE  Offers' = Offers /\ Receivers' = Receivers /\ Answers' = Answers
<1>1. \A u \in Task : Answered(u)' <=> Answered(u)
  BY DEF Answered
<1>2. Answers' = Answers
  BY <1>1 DEF Answers
<1>. QED
  BY <1>2 DEF Offers, Receivers

\* A running call that changes neither tasks nor lists and does not end in the
\* scheduler keeps the processor's part of the invariant; so does one that does.
LEMMA CallKeepsCpu ==
    ASSUME IInv, NEW c \in Task, Runs(c), pc[c] \notin {"schedule", "wait"},
           UNCHANGED <<current, pend, isr, inside>>,
           pc'[c] \in {"schedule", "wait"} \/ lists' = lists
    PROVE  CpuSound'
<1>1. c = current /\ inside = NULL
  BY DEF Runs
<1>. QED
  BY <1>1 DEF IInv, KernelInv, CpuSound


-----------------------------------------------------------------------------
(* Every action keeps the invariant and does what Channel allows           *)

\* What Channel sees of the object.
LEMMA ObjectIs ==
    ASSUME IInv
    PROVE  /\ type = "QUEUE" => /\ Stored = Contents(ring, max) /\ Capacity = max
                                /\ Stored \in Seq(Message) /\ Len(Stored) = ring.count
           /\ type = "MAILBOX" => /\ Stored = IF full THEN <<message>> ELSE <<>>
                                  /\ Capacity = 1
           /\ type = "none" => Stored = <<>> /\ Capacity = 0
           /\ Abstract!Client = Task
           /\ Abstract!Senders = {t \in Task : object[t] = "send"}
<1>1. max \in Nat \ {0} /\ RingSound(ring, max) /\ Task \subseteq Thread /\ "send" # NULL
  BY Basics
<1>2. Contents(ring, max) \in Seq(Message) /\ Len(Contents(ring, max)) = ring.count
  BY <1>1, SoundRing
<1>3. Abstract!Client = Task
  BY DEF Abstract!Client
<1>4. \A t \in Task : Offers[t] # NULL <=> object[t] = "send"
  BY <1>1 DEF Offers, IInv, ObjectSound
<1>. QED
  BY <1>2, <1>3, <1>4 DEF Stored, Capacity, Abstract!Senders

\* flyos_queue_create and flyos_mailbox_create
LEMMA Creating ==
    ASSUME IInv, NEW c \in Task,
           \/ \E items \in 1..MAX_ITEMS : QueueCreate(c, items)
           \/ MailboxCreate(c)
    PROVE  IInv' /\ Abstract!Open
<1>1. /\ Runs(c) /\ pc[c] = "user" /\ type = "none" /\ TwoQueues
      /\ type' \in {"QUEUE", "MAILBOX"}
      /\ UNCHANGED <<state, prio, object, err, dq, left, current, pend, isr, inside,
                     pc, data, got>>
  BY DEF QueueCreate, MailboxCreate, MayCall, cpuVars, callerVars
<1>2. /\ KernelTypeOK /\ ListsSound /\ TasksSound /\ CallsSound /\ CpuSound
      /\ Queue = {"send", "recv"} /\ "send" # NULL /\ "recv" # NULL
      /\ max \in Nat \ {0} /\ max \in 1..MAX_ITEMS /\ MAX_ITEMS \in Nat \ {0}
      /\ RingSound(ring, max) /\ message \in Message \cup {NULL}
      /\ full \in BOOLEAN /\ Task \subseteq Thread
      /\ data \in [Task -> Message \cup {NULL}] /\ got \in [Task -> Message \cup {NULL}]
  BY Basics
<1>3. /\ max' \in 1..MAX_ITEMS /\ RingSound(ring', max')
      /\ message' \in Message \cup {NULL} /\ full' \in BOOLEAN
      /\ Stored' = <<>> /\ Capacity' \in Nat \ {0}
  <2>1. ASSUME NEW items \in 1..MAX_ITEMS, QueueCreate(c, items)
        PROVE  <1>3!:
    <3>1. items \in Nat \ {0}
      BY <1>2
    <3>2. /\ RingSound(EmptyRing(items), items)
          /\ Contents(EmptyRing(items), items) = <<>>
      BY <3>1, EmptyRingIsEmpty
    <3>3. /\ type' = "QUEUE" /\ max' = items /\ ring' = EmptyRing(items)
          /\ UNCHANGED <<message, full>>
      BY <2>1 DEF QueueCreate
    <3>. QED
      BY <1>2, <3>1, <3>2, <3>3 DEF Stored, Capacity
  <2>2. CASE MailboxCreate(c)
    <3>1. /\ type' = "MAILBOX" /\ message' = NULL /\ full' = FALSE
          /\ UNCHANGED <<max, ring>>
      BY <2>2 DEF MailboxCreate
    <3>2. Stored' = <<>> /\ Capacity' = 1
      BY <3>1 DEF Stored, Capacity
    <3>3. max' \in 1..MAX_ITEMS /\ RingSound(ring', max') /\ message' \in Message \cup {NULL}
      BY <1>2, <3>1
    <3>4. full' \in BOOLEAN
      BY <3>1
    <3>5. Capacity' \in Nat \ {0}
      BY <3>2
    <3>. QED
      BY <3>2, <3>3, <3>4, <3>5
  <2>. QED
    BY <2>1, <2>2
<1>4. inside = NULL
  BY <1>1 DEF Runs
<1>5. \A t \in Thread : object[t] = NULL
  BY <1>1, <1>4 DEF IInv, ObjectSound
<1>6. Linked(lists', ReadyTasks, object, prio)
  <2> DEFINE m == WaitInit(lists, "send")
  <2>1. Linked(m, ReadyTasks, object, prio)
    BY <1>2, <1>5, NewQueue DEF ListsSound
  <2> HIDE DEF m
  <2>2. Linked(WaitInit(m, "recv"), ReadyTasks, object, prio)
    BY <1>2, <1>5, <2>1, NewQueue
  <2>. QED
    BY <1>1, <2>2 DEF TwoQueues, m
<1>7. ListsSound' /\ lists' \in Lists
  <2>1. ReadyTasks' = ReadyTasks
    BY <1>1 DEF ReadyTasks
  <2>. QED
    BY <1>1, <1>6, <2>1 DEF ListsSound, Linked, Placed
<1>8. NextTask(lists') = NextTask(lists)
  <2>1. lists \in Lists
    BY <1>2 DEF KernelTypeOK
  <2>2. /\ WaitInit(lists, "send") \in Lists
        /\ WaitInit(lists, "send").ready = lists.ready
        /\ WaitInit(lists, "send").bits = lists.bits
    BY <1>2, <2>1 DEF WaitInit, Lists, Link
  <2> DEFINE m == WaitInit(lists, "send")
  <2> HIDE DEF m
  <2>3. m \in Lists => WaitInit(m, "recv").ready = m.ready /\ WaitInit(m, "recv").bits = m.bits
    BY DEF WaitInit, Lists
  <2>. QED
    BY <1>1, <2>2, <2>3 DEF NextTask, TwoQueues, m
<1>9. TasksSound' /\ CallsSound' /\ CpuSound'
  BY <1>1, <1>2, <1>8 DEF TasksSound, CallsSound, CpuSound
<1>10. KernelInv'
  BY <1>1, <1>2, <1>7, <1>9 DEF KernelInv, KernelTypeOK
<1>11. ObjectTyped'
  BY <1>1, <1>2, <1>3 DEF ObjectTyped
<1>12. ObjectSound'
  BY <1>1, <1>2, <1>4, <1>5 DEF IInv, ObjectSound
<1>13. NobodyStranded'
  BY <1>1, <1>2, <1>5 DEF NobodyStranded
<1>14. Abstract!Open
  <2>1. Offers' = Offers /\ Receivers' = Receivers /\ Answers' = Answers
    BY <1>1, <1>2, SameCalls
  <2>2. Stored = <<>> /\ Capacity = 0 /\ Abstract!Senders = {} /\ Receivers = {}
    BY <1>1, <1>2, <1>5, ObjectIs DEF Receivers
  <2>. QED
    BY <1>1, <1>3, <2>1, <2>2 DEF Abstract!Open
<1>. QED
  BY <1>10, <1>11, <1>12, <1>13, <1>14 DEF IInv

\* queue_send_common and mailbox_send_common, for tasks and for interrupts, if
\* they do not block.
LEMMA Putting ==
    ASSUME IInv, NEW m \in Message, QueuePut(m) \/ MailboxPut(m),
           isr' = isr, inside' = inside, CallMoves
    PROVE  /\ TasksTyped' /\ ListsSound' /\ TasksSound' /\ CallsSound'
           /\ ObjectTyped' /\ ObjectSound' /\ NobodyStranded'
           /\ ~HandsOver => lists' = lists
           /\ \/ Abstract!Store(m)
              \/ \E t \in Task : Abstract!HandOver(t, m)
<1>1. /\ KernelTypeOK /\ ListsSound /\ TasksSound /\ CallsSound
      /\ Queue = {"send", "recv"} /\ "send" # NULL /\ "recv" # NULL
      /\ NULL \notin Thread /\ Task \subseteq Thread /\ Idle \in Thread
      /\ \A t \in Thread : object[t] # NULL => t \in Task
      /\ max \in Nat \ {0} /\ max \in 1..MAX_ITEMS
      /\ RingSound(ring, max) /\ ring.count \in 0..max
      /\ message \in Message \cup {NULL} /\ full \in BOOLEAN
      /\ data \in [Task -> Message \cup {NULL}] /\ got \in [Task -> Message \cup {NULL}]
  BY Basics
<1>2. type \in {"QUEUE", "MAILBOX"}
  BY DEF QueuePut, MailboxPut
<1>3. HandsOver <=> \E t \in Task : object[t] = "recv"
  BY <1>2, WhoWaits
<1>4. CASE HandsOver
  <2> DEFINE t == HighestWaiter("recv")
  <2>1. /\ got' = [got EXCEPT ![t] = m] /\ WakeHighest("recv", "OK")
        /\ UNCHANGED <<type, max, ring, message, full, data>>
    BY <1>4 DEF QueuePut, MailboxPut, HandOver, objectVars
  <2>2. HasWaiter("recv") /\ Stored = <<>>
    <3>1. Contents(ring, max) = <<>> \/ ring.count # 0
      BY <1>1, SoundRing
    <3>. QED
      BY <1>4, <3>1 DEF HandsOver, Stored
  <2>3. t = HighestWaiter("recv")
    OBVIOUS
  <2> HIDE DEF t
  <2>4. /\ t \in Task /\ object[t] = "recv"
        /\ \A u \in Task : object[u] = "recv" => Priority[t] <= Priority[u]
        /\ TasksTyped' /\ ListsSound' /\ TasksSound' /\ CallsSound'
        /\ Departs(t, "OK")
    <3>1. "recv" \in Queue /\ \A u \in Task : u # t => data'[u] = data[u]
      BY <1>1, <2>1
    <3>. QED
      BY <2>1, <2>2, <2>3, <3>1, WakingHighest
  <2>5. ObjectTyped'
    BY <1>1, <1>2, <2>1, <2>4 DEF ObjectTyped
  <2>6. ObjectSound' /\ NobodyStranded'
    BY <2>1, <2>4, DepartureKeeps
  <2>7. Abstract!HandOver(t, m)
    <3>1. Offers' = Offers
      BY <1>1, <2>4 DEF Departs, Offers
    <3>2. /\ Receivers' = Receivers \ {t}
          /\ Answers' = [Answers EXCEPT ![t] = "OK"]
          /\ Capacity' = Capacity /\ Stored' = Stored
      BY <2>1, <2>4 DEF Departs, Capacity, Stored
    <3>3. Abstract!MostUrgent(t, Receivers)
      BY <2>4 DEF Abstract!MostUrgent, Receivers
    <3>. QED
      BY <2>1, <2>2, <3>1, <3>2, <3>3 DEF Abstract!HandOver
  <2>. QED
    BY <1>4, <2>4, <2>5, <2>6, <2>7
<1>5. CASE ~HandsOver
  <2>1. /\ UNCHANGED taskVars /\ UNCHANGED <<lists, state, object, err, dq>>
        /\ UNCHANGED <<type, max, data, got>>
        /\ \/ type = "QUEUE" /\ ring.count < max /\ ring' = Enqueue(ring, max, m)
              /\ UNCHANGED <<message, full>>
           \/ type = "MAILBOX" /\ ~full /\ message' = m /\ full' = TRUE
              /\ UNCHANGED ring
    BY <1>5 DEF QueuePut, MailboxPut, taskVars, callerVars
  <2>2. TasksTyped' /\ ListsSound' /\ TasksSound'
    BY <2>1, SameTasks DEF IInv
  <2>3. CallsSound'
    <3>1. \A u \in Thread : pc[u] \in {"wait", "return"} => pc'[u] = pc[u]
      BY DEF CallMoves
    <3>2. pc'[Idle] = "user"
      BY <1>1 DEF CallsSound, CallMoves
    <3>. QED
      BY <1>1, <2>1, <3>1, <3>2 DEF CallsSound
  <2>4. /\ \A t \in Task : object[t] # "recv" /\ object[t] # "send"
    BY <1>1, <1>3, <1>5, <2>1 DEF IInv, NobodyStranded
  <2>5. RingSound(ring', max) /\ Stored' = Append(Stored, m) /\ Len(Stored) < Capacity
    <3>1. CASE type = "QUEUE"
      <4>1. /\ RingSound(Enqueue(ring, max, m), max)
            /\ Contents(Enqueue(ring, max, m), max) = Append(Contents(ring, max), m)
        BY <1>1, <2>1, <3>1, EnqueueAppends
      <4>2. /\ Stored = Contents(ring, max) /\ Capacity = max /\ Len(Stored) = ring.count
        BY <3>1, ObjectIs
      <4>. QED
        BY <2>1, <3>1, <4>1, <4>2 DEF Stored
    <3>2. CASE type = "MAILBOX"
      BY <1>1, <2>1, <3>2 DEF Stored, Capacity
    <3>. QED
      BY <1>2, <3>1, <3>2
  <2>6. ObjectTyped'
    BY <1>1, <1>2, <2>1, <2>5 DEF ObjectTyped
  <2>7. ObjectSound' /\ NobodyStranded'
    BY <1>1, <2>1, <2>4 DEF IInv, ObjectSound, NobodyStranded
  <2>8. Abstract!Store(m)
    <3>1. Offers' = Offers /\ Receivers' = Receivers /\ Answers' = Answers
      <4>1. \A u \in Thread : pc'[u] \in {"wait", "return"} <=> pc[u] \in {"wait", "return"}
        BY DEF CallMoves
      <4>. QED
        BY <1>1, <2>1, <4>1, SameCalls
    <3>2. Receivers = {} /\ Capacity' = Capacity
      BY <2>1, <2>4 DEF Receivers, Capacity
    <3>. QED
      BY <2>1, <2>5, <3>1, <3>2 DEF Abstract!Store
  <2>. QED
    BY <2>1, <2>2, <2>3, <2>6, <2>7, <2>8
<1>. QED
  BY <1>4, <1>5


\* flyos_queue_send and flyos_mailbox_send
LEMMA Sending ==
    ASSUME IInv, NEW c \in Task, NEW m \in Message, Send(c, m)
    PROVE  /\ IInv'
           /\ \/ Abstract!Store(m)
              \/ \E t \in Task : Abstract!HandOver(t, m)
<1>1. /\ Runs(c) /\ pc[c] = "user" /\ (QueuePut(m) \/ MailboxPut(m))
      /\ pc' = [pc EXCEPT ![c] = IF HandsOver THEN "schedule" ELSE "user"]
      /\ UNCHANGED <<current, pend, isr, inside>>
  BY DEF Send, MayCall, Goto, cpuVars
<1>2. KernelTypeOK /\ Task \subseteq Thread /\ Idle \notin Task
  BY Basics
<1>3. CallMoves /\ (HandsOver => pc'[c] = "schedule")
  BY <1>1, <1>2 DEF CallMoves, KernelTypeOK
<1>4. /\ TasksTyped' /\ ListsSound' /\ TasksSound' /\ CallsSound'
      /\ ObjectTyped' /\ ObjectSound' /\ NobodyStranded'
      /\ ~HandsOver => lists' = lists
      /\ \/ Abstract!Store(m)
         \/ \E t \in Task : Abstract!HandOver(t, m)
  BY <1>1, <1>3, Putting
<1>5. CpuSound'
  BY <1>1, <1>3, <1>4, CallKeepsCpu
<1>6. KernelInv'
  BY <1>1, <1>2, <1>3, <1>4, <1>5 DEF KernelInv, KernelTypeOK, TasksTyped, CallMoves
<1>. QED
  BY <1>4, <1>6 DEF IInv

\* flyos_queue_send_from_isr and flyos_mailbox_send_from_isr
LEMMA SendingFromIsr ==
    ASSUME IInv, NEW m \in Message, SendFromIsr(m)
    PROVE  /\ IInv'
           /\ \/ Abstract!Store(m)
              \/ \E t \in Task : Abstract!HandOver(t, m)
<1>1. /\ inside = NULL /\ (QueuePut(m) \/ MailboxPut(m))
      /\ pend' = (pend \/ HandsOver)
      /\ UNCHANGED <<current, isr, inside, pc>>
  BY DEF SendFromIsr, Interrupts
<1>2. KernelTypeOK /\ CpuSound
  BY Basics
<1>3. CallMoves
  BY <1>1, <1>2 DEF CallMoves, KernelTypeOK
<1>4. /\ TasksTyped' /\ ListsSound' /\ TasksSound' /\ CallsSound'
      /\ ObjectTyped' /\ ObjectSound' /\ NobodyStranded'
      /\ ~HandsOver => lists' = lists
      /\ \/ Abstract!Store(m)
         \/ \E t \in Task : Abstract!HandOver(t, m)
  BY <1>1, <1>3, Putting
<1>5. pend' \in BOOLEAN
  <2>1. pend \in BOOLEAN /\ HandsOver \in BOOLEAN
    BY <1>2 DEF KernelTypeOK, HandsOver, HasWaiter
  <2>. QED
    BY <1>1, <2>1, Zenon
<1>6. CpuSound'
  <2>1. CASE HandsOver
    BY <1>1, <2>1 DEF CpuSound
  <2>2. CASE ~HandsOver
    BY <1>1, <1>2, <1>4, <2>2 DEF CpuSound
  <2>. QED
    BY <2>1, <2>2
<1>7. KernelInv'
  BY <1>1, <1>2, <1>4, <1>5, <1>6 DEF KernelInv, KernelTypeOK, TasksTyped
<1>. QED
  BY <1>4, <1>7 DEF IInv

\* A call finds that it must wait.
LEMMA Blocking ==
    ASSUME IInv, NEW c \in Task, NEW q \in Queue, NEW timeout \in Timeouts[c],
           Runs(c), pc[c] = "user", BlockOn(c, q, timeout),
           pc' = [pc EXCEPT ![c] = "wait"], UNCHANGED cpuVars,
           NEW call \in {"send", "receive"}, c \in Calls[call],
           call = "send" <=> q = "send",
           type # "none", UNCHANGED <<type, max, ring, full>>,
           data'[c] # NULL \/ q # "send", \A u \in Task : u # c => data'[u] = data[u]
    PROVE  /\ KernelInv' /\ ObjectSound' /\ Answers' = Answers
           /\ object[c] = NULL /\ object'[c] = q
           /\ \A u \in Thread : u # c => object'[u] = object[u]
<1>1. /\ state' = [state EXCEPT ![c] = "BLOCK"]
      /\ object' = [object EXCEPT ![c] = q]
      /\ err' = [err EXCEPT ![c] = "OK"]
      /\ UNCHANGED <<current, pend, isr, inside>>
  BY DEF BlockOn, Block, cpuVars
<1>2. /\ KernelTypeOK /\ CallsSound /\ CpuSound /\ Queue = {"send", "recv"}
      /\ "send" # NULL /\ "recv" # NULL /\ Task \subseteq Thread /\ Idle \notin Task
      /\ \A u \in Thread : object[u] # NULL => u \in Task
  BY Basics
<1>3. /\ c = current /\ c \in Thread /\ isr = "none" /\ inside = NULL
      /\ state[c] = "READY" /\ object[c] = NULL
  BY RunningTask DEF IInv
<1>4. timeout \in Nat \ {0}
  BY MessageAssumption DEF NO_WAIT
<1>5. /\ TasksTyped' /\ ListsSound' /\ TasksSound'
      /\ \A t \in ToSet(dq') : t \in ToSet(dq) \/ (t = c /\ timeout # WAIT_FOREVER)
  BY <1>1, <1>3, <1>4, Blocks DEF IInv
<1>6. /\ \A t \in Thread : t # c => /\ pc'[t] = pc[t] /\ state'[t] = state[t]
                                    /\ object'[t] = object[t] /\ err'[t] = err[t]
      /\ pc'[c] = "wait" /\ state'[c] = "BLOCK" /\ object'[c] = q
  BY <1>1, <1>2, <1>3 DEF KernelTypeOK
<1>7. Answers' = Answers
  <2>1. \A t \in Task : Answers'[t] = Answers[t]
    BY <1>2, <1>3, <1>6 DEF Answers, Answered
  <2>2. /\ Answers = [t \in Task |-> Answers[t]]
        /\ Answers' = [t \in Task |-> Answers'[t]]
    BY DEF Answers
  <2>. QED
    BY <2>1, <2>2
<1>8. CallsSound'
  BY <1>2, <1>6 DEF CallsSound, Thread
<1>9. CpuSound'
  BY <1>1, <1>3, <1>6 DEF CpuSound
<1>10. KernelInv'
  BY <1>1, <1>2, <1>5, <1>8, <1>9 DEF KernelInv, KernelTypeOK, TasksTyped
<1>11. ObjectSound'
  <2>1. \A t \in ToSet(dq') : Timeouts[t] \ {WAIT_FOREVER} # {}
    BY <1>5 DEF IInv, ObjectSound
  <2>2. ASSUME NEW t \in Thread, object'[t] # NULL
        PROVE  /\ object'[t] = "send" => t \in Calls["send"] /\ data'[t] # NULL
               /\ object'[t] = "recv" => t \in Calls["receive"]
    <3>1. CASE t = c
      BY <1>2, <1>6, <3>1
    <3>2. CASE t # c
      <4>1. object'[t] = object[t] /\ object[t] # NULL /\ data'[t] = data[t]
        BY <1>2, <1>6, <2>2, <3>2
      <4>. QED
        BY <4>1 DEF IInv, ObjectSound
    <3>. QED
      BY <3>1, <3>2
  <2>. QED
    BY <1>1, <1>3, <2>1, <2>2 DEF ObjectSound
<1>. QED
  BY <1>3, <1>6, <1>7, <1>10, <1>11

\* queue_send_common and mailbox_send_common find no room.
LEMMA SendingBlocks ==
    ASSUME IInv, NEW c \in Task, NEW m \in Message, NEW timeout \in Timeouts[c],
           QueueSendBlocks(c, m, timeout) \/ MailboxSendBlocks(c, m, timeout)
    PROVE  IInv' /\ Abstract!WaitToSend(c, m)
<1>1. /\ Runs(c) /\ pc[c] = "user" /\ c \in Calls["send"] /\ BlockOn(c, "send", timeout)
      /\ data' = [data EXCEPT ![c] = m] /\ pc' = [pc EXCEPT ![c] = "wait"]
      /\ UNCHANGED cpuVars /\ UNCHANGED <<type, max, ring, message, full, got>>
      /\ (type = "QUEUE" /\ ring.count >= max) \/ (type = "MAILBOX" /\ full)
  BY DEF QueueSendBlocks, MailboxSendBlocks, BlockSender, MayCall, Goto, objectVars
<1>2. /\ "send" \in Queue /\ "send" # NULL /\ "recv" # NULL /\ Task \subseteq Thread
      /\ max \in Nat \ {0} /\ ring.count \in 0..max
      /\ data \in [Task -> Message \cup {NULL}] /\ NULL \notin Message
  BY Basics
<1>3. m # NULL /\ data'[c] = m /\ \A u \in Task : u # c => data'[u] = data[u]
  BY <1>1, <1>2
<1>4. /\ KernelInv' /\ ObjectSound' /\ Answers' = Answers
      /\ object[c] = NULL /\ object'[c] = "send"
      /\ \A u \in Thread : u # c => object'[u] = object[u]
  <2> DEFINE call == "send"
  <2>1. /\ call \in {"send", "receive"} /\ c \in Calls[call]
        /\ call = "send" <=> "send" = "send"
    BY <1>1
  <2>2. type # "none" /\ (data'[c] # NULL \/ "send" # "send")
    BY <1>1, <1>3
  <2> HIDE DEF call
  <2>. QED
    BY <1>1, <1>2, <1>3, <2>1, <2>2, Blocking
<1>5. ObjectTyped'
  BY <1>1, <1>2 DEF IInv, ObjectTyped
<1>6. NobodyStranded'
  BY <1>1, <1>2, <1>4 DEF IInv, NobodyStranded
<1>7. Abstract!WaitToSend(c, m)
  <2>1. Receivers' = Receivers /\ c \notin Receivers /\ c \notin Abstract!Senders
    BY <1>2, <1>4, ObjectIs DEF Receivers
  <2>2. Offers' = [Offers EXCEPT ![c] = m]
    <3>1. \A u \in Task : Offers'[u] = IF u = c THEN m ELSE Offers[u]
      BY <1>2, <1>3, <1>4 DEF Offers
    <3>2. DOMAIN Offers = Task /\ Offers' = [u \in Task |-> Offers'[u]]
      BY DEF Offers
    <3>. QED
      BY <3>1, <3>2
  <2>3. Capacity' = Capacity /\ Stored' = Stored
    BY <1>1 DEF Capacity, Stored
  <2>4. Capacity > 0 /\ Len(Stored) = Capacity
    <3>1. CASE type = "QUEUE"
      BY <1>1, <1>2, <3>1, ObjectIs
    <3>2. CASE type = "MAILBOX"
      BY <1>1, <3>2, ObjectIs
    <3>. QED
      BY <1>1, <3>1, <3>2
  <2>. QED
    BY <1>1, <1>4, <2>1, <2>2, <2>3, <2>4 DEF Abstract!WaitToSend
<1>. QED
  BY <1>4, <1>5, <1>6, <1>7 DEF IInv

\* flyos_queue_receive and flyos_mailbox_receive find no message.
LEMMA ReceivingBlocks ==
    ASSUME IInv, NEW c \in Task, NEW timeout \in Timeouts[c],
           QueueReceiveBlocks(c, timeout) \/ MailboxReceiveBlocks(c, timeout)
    PROVE  IInv' /\ Abstract!WaitToReceive(c)
<1>1. /\ Runs(c) /\ pc[c] = "user" /\ c \in Calls["receive"] /\ BlockOn(c, "recv", timeout)
      /\ pc' = [pc EXCEPT ![c] = "wait"]
      /\ UNCHANGED cpuVars /\ UNCHANGED <<type, max, ring, message, full, got, data>>
      /\ (type = "QUEUE" /\ ring.count = 0) \/ (type = "MAILBOX" /\ ~full)
  BY DEF QueueReceiveBlocks, MailboxReceiveBlocks, BlockReceiver, MayCall, Goto, objectVars,
         callerVars
<1>2. /\ "recv" \in Queue /\ "send" # NULL /\ "recv" # NULL /\ Task \subseteq Thread
      /\ max \in Nat \ {0} /\ ring.count \in 0..max
  BY Basics
<1>3. /\ KernelInv' /\ ObjectSound' /\ Answers' = Answers
      /\ object[c] = NULL /\ object'[c] = "recv"
      /\ \A u \in Thread : u # c => object'[u] = object[u]
  <2> DEFINE call == "receive"
  <2>1. /\ call \in {"send", "receive"} /\ c \in Calls[call]
        /\ call = "send" <=> "recv" = "send"
    BY <1>1
  <2>2. /\ type # "none" /\ (data'[c] # NULL \/ "recv" # "send")
        /\ \A u \in Task : u # c => data'[u] = data[u]
    BY <1>1
  <2> HIDE DEF call
  <2>. QED
    BY <1>1, <1>2, <2>1, <2>2, Blocking
<1>4. ObjectTyped'
  BY <1>1 DEF IInv, ObjectTyped
<1>5. NobodyStranded'
  BY <1>1, <1>2, <1>3 DEF IInv, NobodyStranded
<1>6. Abstract!WaitToReceive(c)
  <2>1. Receivers' = Receivers \cup {c} /\ c \notin Receivers /\ c \notin Abstract!Senders
    BY <1>2, <1>3, ObjectIs DEF Receivers
  <2>2. Offers' = Offers
    BY <1>1, <1>2, <1>3 DEF Offers
  <2>3. Capacity' = Capacity /\ Stored' = Stored
    BY <1>1 DEF Capacity, Stored
  <2>4. Capacity > 0 /\ Stored = <<>>
    <3>1. CASE type = "QUEUE"
      BY <1>1, <1>2, <3>1, ObjectIs
    <3>2. CASE type = "MAILBOX"
      BY <1>1, <3>2, ObjectIs
    <3>. QED
      BY <1>1, <3>1, <3>2
  <2>. QED
    BY <1>1, <1>3, <2>1, <2>2, <2>3, <2>4 DEF Abstract!WaitToReceive
<1>. QED
  BY <1>3, <1>4, <1>5, <1>6 DEF IInv


\* The end of a receive call that has found a message: the most urgent sender,
\* if one waits, is woken.
LEMMA Taking ==
    ASSUME IInv, NEW c \in Task, Runs(c), pc[c] = "user", Taken(c),
           NEW s, s = HighestWaiter("send")
    PROVE  /\ KernelInv' /\ inside' = inside
           /\ data' \in [Task -> Message \cup {NULL}]
           /\ Refills =>
                 /\ s \in Task /\ object[s] = "send" /\ data[s] \in Message
                 /\ Offers[s] = data[s] /\ Abstract!MostUrgent(s, Abstract!Senders)
                 /\ Departs(s, "OK") /\ Receivers' = Receivers
           /\ ~Refills =>
                 /\ UNCHANGED <<object, dq, data>>
                 /\ \A t \in Task : object[t] # "send"
                 /\ Offers' = Offers /\ Receivers' = Receivers /\ Answers' = Answers
<1>1. /\ pc' = [pc EXCEPT ![c] = IF Refills THEN "schedule" ELSE "finish"]
      /\ UNCHANGED <<current, pend, isr, inside>>
  BY DEF Taken, Goto, cpuVars
<1>2. /\ KernelTypeOK /\ TasksSound /\ CallsSound /\ Queue = {"send", "recv"}
      /\ "send" # NULL /\ "recv" # NULL /\ Task \subseteq Thread
      /\ Idle \notin Task /\ Idle \in Thread
      /\ data \in [Task -> Message \cup {NULL}]
  BY Basics
<1>3. CallMoves /\ (Refills => pc'[c] = "schedule")
  BY <1>1, <1>2 DEF CallMoves, KernelTypeOK
<1>4. CASE Refills
  <2>1. /\ WakeHighest("send", "OK") /\ data' = [data EXCEPT ![s] = NULL]
        /\ HasWaiter("send")
    BY <1>4 DEF Taken, Refills, Forget
  <2>2. data' \in [Task -> Message \cup {NULL}] /\ \A u \in Task : u # s => data'[u] = data[u]
    BY <1>2, <2>1
  <2>3. /\ s \in Task /\ object[s] = "send"
        /\ \A u \in Task : object[u] = "send" => Priority[s] <= Priority[u]
        /\ TasksTyped' /\ ListsSound' /\ TasksSound' /\ CallsSound'
        /\ Departs(s, "OK")
    <3>1. "send" \in Queue
      BY <1>2
    <3>. QED
      BY <1>1, <1>3, <2>1, <2>2, <3>1, WakingHighest
  <2>4. CpuSound'
    BY <1>1, <1>3, <1>4, CallKeepsCpu
  <2>5. KernelInv'
    BY <1>1, <1>2, <1>3, <2>3, <2>4 DEF KernelInv, KernelTypeOK, TasksTyped, CallMoves
  <2>6. data[s] \in Message /\ Offers[s] = data[s]
    BY <1>2, <2>3 DEF IInv, ObjectSound, Offers
  <2>7. Abstract!MostUrgent(s, Abstract!Senders)
    BY <2>3, ObjectIs DEF Abstract!MostUrgent
  <2>8. Receivers' = Receivers
    BY <2>3 DEF Departs, Receivers
  <2>. QED
    BY <1>1, <1>4, <2>2, <2>3, <2>5, <2>6, <2>7, <2>8
<1>5. CASE ~Refills
  <2>1. UNCHANGED taskVars /\ UNCHANGED <<lists, state, object, err, dq, data>>
    BY <1>5 DEF Taken, taskVars
  <2>2. TasksTyped' /\ ListsSound' /\ TasksSound'
    BY <1>1, <2>1, SameTasks DEF IInv
  <2>3. CallsSound'
    <3>1. \A u \in Thread : pc[u] \in {"wait", "return"} => pc'[u] = pc[u]
      BY <1>3 DEF CallMoves
    <3>2. pc'[Idle] = "user"
      BY <1>2, <1>3 DEF CallsSound, CallMoves
    <3>. QED
      BY <1>2, <2>1, <3>1, <3>2 DEF CallsSound
  <2>4. CpuSound'
    BY <1>1, <2>1, CallKeepsCpu
  <2>5. KernelInv'
    BY <1>1, <1>2, <1>3, <2>2, <2>3, <2>4 DEF KernelInv, KernelTypeOK, TasksTyped, CallMoves
  <2>6. \A t \in Task : object[t] # "send"
    BY <1>5, WhoWaits
  <2>7. Offers' = Offers /\ Receivers' = Receivers /\ Answers' = Answers
    <3>1. \A u \in Thread : pc'[u] \in {"wait", "return"} <=> pc[u] \in {"wait", "return"}
      BY <1>3 DEF CallMoves
    <3>. QED
      BY <1>2, <2>1, <3>1, SameCalls
  <2>. QED
    BY <1>1, <1>2, <1>5, <2>1, <2>5, <2>6, <2>7
<1>. QED
  BY <1>4, <1>5

\* What a receive call keeps when it leaves the object full if a sender waited.
LEMMA TakingKeeps ==
    ASSUME IInv, NEW c \in Task, Runs(c), pc[c] = "user", Taken(c), type' = type,
           type # "none", \A t \in Task : object[t] # "recv",
           Refills /\ type = "QUEUE" => ring'.count = max' /\ full' = full,
           Refills /\ type = "MAILBOX" => full'
    PROVE  ObjectSound' /\ NobodyStranded'
<1> DEFINE s == HighestWaiter("send")
<1>1. s = HighestWaiter("send")
  OBVIOUS
<1> HIDE DEF s
<1>2. /\ inside' = inside
      /\ Refills => s \in Task /\ Departs(s, "OK")
      /\ ~Refills => /\ UNCHANGED <<object, dq, data>>
                     /\ \A t \in Task : object[t] # "send"
  BY <1>1, Taking
<1>3. /\ Task \subseteq Thread /\ "send" # NULL /\ "recv" # NULL
      /\ \A t \in Thread : object[t] # NULL => t \in Task
      /\ \A t \in Thread : object[t] \in {"send", "recv", NULL}
      /\ type \in {"none", "QUEUE", "MAILBOX"}
  BY Basics
<1>4. /\ \A u \in Thread : object'[u] # NULL => object'[u] = object[u]
      /\ \A u \in Task : object'[u] # NULL => data'[u] = data[u]
      /\ \A u \in ToSet(dq') : u \in ToSet(dq)
      /\ (\E u \in Task : object'[u] # NULL) => Refills
      /\ \A u \in Task : object'[u] # "recv"
  <2>1. CASE Refills
    BY <1>2, <1>3, <2>1 DEF Departs
  <2>2. CASE ~Refills
    BY <1>2, <1>3, <2>2
  <2>. QED
    BY <2>1, <2>2
<1>5. ObjectSound'
  BY <1>2, <1>3, <1>4 DEF IInv, ObjectSound
<1>6. NobodyStranded'
  BY <1>3, <1>4 DEF NobodyStranded
<1>. QED
  BY <1>5, <1>6

\* flyos_queue_receive: the oldest message leaves the ring, a waiting sender's
\* message goes into it.
LEMMA QueueReceiving ==
    ASSUME IInv, NEW c \in Task, QueueReceive(c)
    PROVE  IInv' /\ Abstract!Take(c)
<1> DEFINE s == HighestWaiter("send")
           rest == Dequeue(ring, max)
<1>1. /\ Runs(c) /\ pc[c] = "user" /\ type = "QUEUE" /\ ring.count > 0 /\ Taken(c)
      /\ got' = [got EXCEPT ![c] = Oldest(ring)]
      /\ ring' = IF Refills THEN Enqueue(rest, max, data[s]) ELSE rest
      /\ UNCHANGED <<type, max, message, full>>
  BY DEF QueueReceive, MayCall
<1>2. /\ max \in Nat \ {0} /\ RingSound(ring, max) /\ ring.count \in 0..max
      /\ max \in 1..MAX_ITEMS /\ type \in {"none", "QUEUE", "MAILBOX"}
      /\ message \in Message \cup {NULL} /\ full \in BOOLEAN
      /\ got \in [Task -> Message \cup {NULL}] /\ Task \subseteq Thread
  BY Basics
<1>3. /\ RingSound(rest, max) /\ Oldest(ring) = Head(Contents(ring, max))
      /\ Contents(rest, max) = Tail(Contents(ring, max))
      /\ Contents(ring, max) # <<>> /\ Contents(ring, max) \in Seq(Message)
      /\ rest.count = ring.count - 1
  <2>1. rest.count = ring.count - 1
    BY DEF Dequeue
  <2>. QED
    BY <1>1, <1>2, <2>1, DequeueIsTail, SoundRing
<1>4. s = HighestWaiter("send")
  OBVIOUS
<1> HIDE DEF s, rest
<1>5. /\ KernelInv' /\ data' \in [Task -> Message \cup {NULL}]
      /\ Refills =>
            /\ s \in Task /\ object[s] = "send" /\ data[s] \in Message
            /\ Offers[s] = data[s] /\ Abstract!MostUrgent(s, Abstract!Senders)
            /\ Departs(s, "OK") /\ Receivers' = Receivers
      /\ ~Refills =>
            /\ \A t \in Task : object[t] # "send"
            /\ Offers' = Offers /\ Receivers' = Receivers /\ Answers' = Answers
  BY <1>1, <1>4, Taking
<1>6. Oldest(ring) \in Message
  BY <1>3
<1>7. /\ RingSound(ring', max')
      /\ Contents(ring', max') = IF Refills THEN Append(Contents(rest, max), data[s])
                                 ELSE Contents(rest, max)
      /\ Refills => ring'.count = ring.count
  <2>1. CASE Refills
    <3>1. rest.count < max
      BY <1>2, <1>3
    <3>2. /\ RingSound(Enqueue(rest, max, data[s]), max)
          /\ Contents(Enqueue(rest, max, data[s]), max)
                = Append(Contents(rest, max), data[s])
      BY <1>2, <1>3, <1>5, <2>1, <3>1, EnqueueAppends
    <3>3. Enqueue(rest, max, data[s]).count = ring.count
      <4>1. Enqueue(rest, max, data[s]).count = rest.count + 1
        BY DEF Enqueue
      <4>. QED
        BY <1>2, <1>3, <4>1
    <3>. QED
      BY <1>1, <2>1, <3>2, <3>3
  <2>2. CASE ~Refills
    BY <1>1, <1>3, <2>2
  <2>. QED
    BY <2>1, <2>2
<1>8. ObjectTyped'
  <2>1. got' \in [Task -> Message \cup {NULL}]
    BY <1>1, <1>2, <1>6
  <2>. QED
    BY <1>1, <1>2, <1>5, <1>7, <2>1 DEF ObjectTyped
<1>9. ObjectSound' /\ NobodyStranded'
  <2>1. \A t \in Task : object[t] # "recv"
    BY <1>1, <1>2 DEF IInv, NobodyStranded
  <2>2. Refills => ring'.count = max'
    <3>1. Refills => ring.count = max
      BY <1>1, <1>5 DEF IInv, NobodyStranded
    <3>. QED
      BY <1>1, <1>7, <3>1
  <2>. QED
    BY <1>1, <2>1, <2>2, TakingKeeps
<1>10. Abstract!Take(c)
  <2>1. Stored = Contents(ring, max) /\ Capacity' = Capacity
    BY <1>1 DEF Stored, Capacity
  <2>2. Stored' = Contents(ring', max')
    BY <1>1 DEF Stored
  <2>3. /\ Stored # <<>> /\ got' = [got EXCEPT ![c] = Head(Stored)]
        /\ Receivers' = Receivers
    BY <1>1, <1>3, <1>5, <2>1
  <2>4. CASE Refills
    <3>1. /\ Abstract!MostUrgent(s, Abstract!Senders) /\ s \in Abstract!Client
          /\ Stored' = Append(Tail(Stored), Offers[s])
          /\ Offers' = [Offers EXCEPT ![s] = NULL]
          /\ Answers' = [Answers EXCEPT ![s] = "OK"]
      BY <1>3, <1>5, <1>7, <2>1, <2>2, <2>4, ObjectIs DEF Departs
    <3>. QED
      BY <2>1, <2>3, <3>1 DEF Abstract!Take
  <2>5. CASE ~Refills
    <3>1. /\ Abstract!Senders = {} /\ Stored' = Tail(Stored)
          /\ Offers' = Offers /\ Answers' = Answers
      BY <1>3, <1>5, <1>7, <2>1, <2>2, <2>5, ObjectIs
    <3>. QED
      BY <2>1, <2>3, <3>1 DEF Abstract!Take
  <2>. QED
    BY <2>4, <2>5
<1>. QED
  BY <1>5, <1>8, <1>9, <1>10 DEF IInv

\* flyos_mailbox_receive
LEMMA MailboxReceiving ==
    ASSUME IInv, NEW c \in Task, MailboxReceive(c)
    PROVE  IInv' /\ Abstract!Take(c)
<1> DEFINE s == HighestWaiter("send")
<1>1. /\ Runs(c) /\ pc[c] = "user" /\ type = "MAILBOX" /\ full /\ Taken(c)
      /\ got' = [got EXCEPT ![c] = message]
      /\ message' = IF Refills THEN data[s] ELSE NULL
      /\ full' = Refills
      /\ UNCHANGED <<type, max, ring>>
  BY DEF MailboxReceive, MayCall
<1>2. /\ max \in 1..MAX_ITEMS /\ RingSound(ring, max)
      /\ type \in {"none", "QUEUE", "MAILBOX"}
      /\ message \in Message \cup {NULL} /\ Task \subseteq Thread
      /\ got \in [Task -> Message \cup {NULL}]
  BY Basics
<1>3. s = HighestWaiter("send")
  OBVIOUS
<1> HIDE DEF s
<1>5. /\ KernelInv' /\ data' \in [Task -> Message \cup {NULL}]
      /\ Refills =>
            /\ s \in Task /\ object[s] = "send" /\ data[s] \in Message
            /\ Offers[s] = data[s] /\ Abstract!MostUrgent(s, Abstract!Senders)
            /\ Departs(s, "OK") /\ Receivers' = Receivers
      /\ ~Refills =>
            /\ \A t \in Task : object[t] # "send"
            /\ Offers' = Offers /\ Receivers' = Receivers /\ Answers' = Answers
  BY <1>1, <1>3, Taking
<1>6. full' \in BOOLEAN
  <2>1. Refills \in BOOLEAN
    BY DEF Refills, HasWaiter
  <2>. QED
    BY <1>1, <2>1, Zenon
<1>7. (Refills => full') /\ (~Refills => ~full')
  BY <1>1, Zenon
<1>8. ObjectTyped'
  <2>1. got' \in [Task -> Message \cup {NULL}] /\ message' \in Message \cup {NULL}
    BY <1>1, <1>2, <1>5
  <2>. QED
    BY <1>1, <1>2, <1>5, <1>6, <2>1 DEF ObjectTyped
<1>9. ObjectSound' /\ NobodyStranded'
  <2>1. \A t \in Task : object[t] # "recv"
    BY <1>1, <1>2 DEF IInv, NobodyStranded
  <2>. QED
    BY <1>1, <1>7, <2>1, TakingKeeps
<1>10. Abstract!Take(c)
  <2>1. Stored = <<message>> /\ Capacity' = Capacity
    BY <1>1 DEF Stored, Capacity
  <2>2. Stored' = IF Refills THEN <<data[s]>> ELSE <<>>
    BY <1>1, <1>7 DEF Stored
  <2>3. Head(Stored) = message /\ Tail(Stored) = <<>> /\ Stored # <<>>
    BY <2>1
  <2>4. got' = [got EXCEPT ![c] = Head(Stored)] /\ Receivers' = Receivers
    BY <1>1, <1>5, <2>3
  <2>5. CASE Refills
    <3>1. /\ Abstract!MostUrgent(s, Abstract!Senders) /\ s \in Abstract!Client
          /\ Offers' = [Offers EXCEPT ![s] = NULL]
          /\ Answers' = [Answers EXCEPT ![s] = "OK"]
      BY <1>5, <2>5, ObjectIs DEF Departs
    <3>2. Stored' = Append(Tail(Stored), Offers[s])
      <4>1. Append(<<>>, data[s]) = <<data[s]>>
        OBVIOUS
      <4>. QED
        BY <1>5, <2>2, <2>3, <2>5, <4>1
    <3>. QED
      BY <2>1, <2>3, <2>4, <3>1, <3>2 DEF Abstract!Take
  <2>6. CASE ~Refills
    <3>1. /\ Abstract!Senders = {} /\ Stored' = Tail(Stored)
          /\ Offers' = Offers /\ Answers' = Answers
      BY <1>5, <2>2, <2>3, <2>6, ObjectIs
    <3>. QED
      BY <2>1, <2>3, <2>4, <3>1 DEF Abstract!Take
  <2>. QED
    BY <2>5, <2>6
<1>. QED
  BY <1>5, <1>8, <1>9, <1>10 DEF IInv


\* A call goes on to the scheduler.
LEMMA Proceeding ==
    ASSUME IInv, NEW c \in Task, Proceed(c)
    PROVE  /\ IInv'
           /\ Abstract!Collect(c) \/ UNCHANGED Abstract!vars
<1>1. /\ CallScheduler(c)
      /\ UNCHANGED <<type, max, ring, message, full, data>>
      /\ \/ /\ pc[c] = "schedule" /\ pc' = [pc EXCEPT ![c] = "user"]
            /\ got' = [got EXCEPT ![c] = NULL]
         \/ pc[c] = "wait" /\ pc' = [pc EXCEPT ![c] = "return"] /\ got' = got
      /\ UNCHANGED <<state, object, err, dq, inside>>
  BY DEF Proceed, CallScheduler, Goto, objectVars, taskVars
<1>2. /\ KernelTypeOK /\ CallsSound /\ Task \subseteq Thread /\ "send" # NULL /\ "recv" # NULL
      /\ got \in [Task -> Message \cup {NULL}] /\ NULL \notin Message
  BY Basics
<1>3. KernelInv'
  BY <1>1, CallsScheduler DEF IInv
<1>4. ObjectTyped'
  BY <1>1, <1>2 DEF IInv, ObjectTyped
<1>5. ObjectSound' /\ NobodyStranded'
  BY <1>1 DEF IInv, ObjectSound, NobodyStranded
<1>6. /\ Offers' = Offers /\ Receivers' = Receivers /\ Answers' = Answers
      /\ Capacity' = Capacity /\ Stored' = Stored
  <2>1. \A u \in Thread : pc'[u] \in {"wait", "return"} <=> pc[u] \in {"wait", "return"}
    BY <1>1, <1>2 DEF KernelTypeOK
  <2>. QED
    BY <1>1, <1>2, <2>1, SameCalls DEF Capacity, Stored
<1>7. got' = got => UNCHANGED Abstract!vars
  BY <1>6 DEF Abstract!vars
<1>8. ASSUME pc[c] = "schedule", got' = [got EXCEPT ![c] = NULL]
      PROVE  Abstract!Collect(c)
  <2>1. object[c] = NULL
    BY <1>2, <1>8 DEF CallsSound
  <2>2. c \notin Abstract!Senders \cup Receivers
    BY <1>2, <2>1, ObjectIs DEF Receivers
  <2>3. Answers[c] = "none"
    BY <1>8 DEF Answers, Answered
  <2>4. Answers = [Answers EXCEPT ![c] = "none"]
    BY <2>3 DEF Answers
  <2>. QED
    BY <1>6, <1>8, <2>2, <2>4 DEF Abstract!Collect
<1>. QED
  BY <1>1, <1>3, <1>4, <1>5, <1>7, <1>8 DEF IInv

\* A call that has waited, or a receive call that has woken nobody, returns.
LEMMA Returning ==
    ASSUME IInv, NEW c \in Task, Return(c)
    PROVE  IInv' /\ Abstract!Collect(c)
<1>1. /\ Runs(c) /\ pc[c] \in {"return", "finish"} /\ pc' = [pc EXCEPT ![c] = "user"]
      /\ got' = [got EXCEPT ![c] = NULL]
      /\ UNCHANGED taskVars /\ UNCHANGED <<lists, state, object, err, dq>>
      /\ UNCHANGED <<current, pend, isr, inside, type, max, ring, message, full, data>>
  BY DEF Return, Goto, cpuVars, taskVars, objectVars
<1>2. /\ KernelTypeOK /\ CallsSound /\ CpuSound /\ Task \subseteq Thread
      /\ "send" # NULL /\ "recv" # NULL /\ got \in [Task -> Message \cup {NULL}]
  BY Basics
<1>3. /\ c = current /\ c \in Thread /\ c # Idle /\ isr = "none" /\ inside = NULL
      /\ state[c] = "READY" /\ object[c] = NULL
  BY <1>1, RunningTask DEF IInv
<1>4. /\ \A t \in Thread : t # c => pc'[t] = pc[t]
      /\ pc'[c] = "user"
  BY <1>1, <1>2, <1>3 DEF KernelTypeOK
<1>5. TasksTyped' /\ ListsSound' /\ TasksSound'
  BY <1>1, SameTasks DEF IInv
<1>6. CallsSound'
  BY <1>1, <1>2, <1>3, <1>4 DEF CallsSound
<1>7. CpuSound'
  BY <1>1, <1>2, <1>3, <1>4 DEF CpuSound
<1>8. KernelInv'
  BY <1>1, <1>2, <1>5, <1>6, <1>7 DEF KernelInv, KernelTypeOK, TasksTyped
<1>9. ObjectTyped'
  BY <1>1, <1>2 DEF IInv, ObjectTyped
<1>10. ObjectSound' /\ NobodyStranded'
  BY <1>1 DEF IInv, ObjectSound, NobodyStranded
<1>11. /\ Offers' = Offers /\ Receivers' = Receivers
       /\ Capacity' = Capacity /\ Stored' = Stored
  BY <1>1 DEF Offers, Receivers, Capacity, Stored
<1>12. Answers' = [Answers EXCEPT ![c] = "none"]
  <2>1. \A t \in Task : Answers'[t] = IF t = c THEN "none" ELSE Answers[t]
    BY <1>1, <1>2, <1>4 DEF Answers, Answered
  <2>2. DOMAIN Answers = Task /\ Answers' = [t \in Task |-> Answers'[t]]
    BY DEF Answers
  <2>. QED
    BY <2>1, <2>2
<1>13. c \notin Abstract!Senders \cup Receivers
  BY <1>2, <1>3, ObjectIs DEF Receivers
<1>. QED
  BY <1>1, <1>8, <1>9, <1>10, <1>11, <1>12, <1>13 DEF IInv, Abstract!Collect

\* flyos_queue_delete and flyos_mailbox_delete enter their critical section.
LEMMA DeletingBegins ==
    ASSUME IInv, NEW c \in Task, DeleteBegin(c), type # "none"
    PROVE  IInv' /\ Abstract!Close
<1>1. /\ Runs(c) /\ pc[c] = "user" /\ type' = "none" /\ max' = 1 /\ ring' = EmptyRing(1)
      /\ message' = NULL /\ full' = FALSE
      /\ inside' = c /\ pc' = [pc EXCEPT ![c] = "section"]
      /\ UNCHANGED taskVars /\ UNCHANGED <<lists, state, object, err, dq>>
      /\ UNCHANGED <<current, pend, isr, data, got>>
  BY DEF DeleteBegin, MayCall, Goto, taskVars, callerVars
<1>2. /\ KernelTypeOK /\ CallsSound /\ CpuSound /\ Task \subseteq Thread
      /\ NULL \notin Thread /\ MAX_ITEMS \in Nat \ {0}
      /\ data \in [Task -> Message \cup {NULL}] /\ got \in [Task -> Message \cup {NULL}]
  BY Basics
<1>3. /\ c = current /\ c \in Thread /\ c # Idle /\ isr = "none" /\ ~pend
      /\ state[c] = "READY" /\ object[c] = NULL
  BY <1>1, RunningTask DEF IInv
<1>4. /\ \A t \in Thread : t # c => pc'[t] = pc[t]
      /\ pc'[c] = "section"
  BY <1>1, <1>2, <1>3 DEF KernelTypeOK
<1>5. TasksTyped' /\ ListsSound' /\ TasksSound'
  BY <1>1, SameTasks DEF IInv
<1>6. CallsSound'
  BY <1>1, <1>2, <1>3, <1>4 DEF CallsSound
<1>7. CpuSound'
  BY <1>1, <1>2, <1>3, <1>4 DEF CpuSound
<1>8. KernelInv'
  BY <1>1, <1>2, <1>3, <1>5, <1>6, <1>7 DEF KernelInv, KernelTypeOK, TasksTyped, Link
<1>9. ObjectTyped'
  <2>1. RingSound(EmptyRing(1), 1)
    BY EmptyRingIsEmpty
  <2>2. full' \in BOOLEAN
    BY <1>1
  <2>3. max' \in 1..MAX_ITEMS /\ RingSound(ring', max')
    BY <1>1, <1>2, <2>1
  <2>. QED
    BY <1>1, <1>2, <2>2, <2>3 DEF ObjectTyped
<1>10. ObjectSound'
  <2>1. inside' # NULL
    BY <1>1, <1>2, <1>3
  <2>. QED
    BY <1>1, <2>1 DEF IInv, ObjectSound
<1>11. NobodyStranded'
  BY <1>1 DEF NobodyStranded
<1>12. /\ Capacity' = 0 /\ Stored' = <<>>
       /\ Offers' = Offers /\ Receivers' = Receivers /\ Answers' = Answers
  <2>1. \A u \in Thread : pc'[u] \in {"wait", "return"} <=> pc[u] \in {"wait", "return"}
    BY <1>1, <1>4
  <2>2. Capacity' = 0 /\ Stored' = <<>>
    BY <1>1 DEF Capacity, Stored
  <2>. QED
    BY <1>1, <1>2, <2>1, <2>2, SameCalls
<1>. QED
  BY <1>1, <1>8, <1>9, <1>10, <1>11, <1>12 DEF IInv, Abstract!Close

\* A wait that ends without success.
LEMMA GivesUp ==
    ASSUME IInv, NEW t \in Task, object[t] # NULL, NEW e, e # "OK", Departs(t, e),
           UNCHANGED <<type, max, ring, message, full, got>>
    PROVE  Abstract!GiveUp(t)
<1>1. t \in Abstract!Senders \cup Receivers
  BY Basics, ObjectIs DEF Receivers
<1>2. Capacity' = Capacity /\ Stored' = Stored
  BY DEF Capacity, Stored
<1>. QED
  BY <1>1, <1>2 DEF Abstract!GiveUp, Departs

\* One iteration of the loops of the delete calls.
LEMMA DeletingWakes ==
    ASSUME IInv, NEW c \in Task, DeleteWake(c)
    PROVE  IInv' /\ \E t \in Task : Abstract!GiveUp(t)
<1>1. PICK q \in Queue : /\ HasWaiter(q) /\ WakeHighest(q, "ERROR")
                         /\ Forget(HighestWaiter(q))
  BY DEF DeleteWake
<1>2. UNCHANGED <<current, pend, isr, inside, pc, type, max, ring, message, full, got>>
  BY DEF DeleteWake, cpuVars, objectVars
<1>3. /\ KernelTypeOK /\ CpuSound /\ Task \subseteq Thread
      /\ data \in [Task -> Message \cup {NULL}] /\ q # NULL /\ NULL \notin Thread
  BY Basics
<1> DEFINE t == HighestWaiter(q)
<1>4. /\ data' = [data EXCEPT ![t] = NULL] /\ t = HighestWaiter(q)
      /\ CallMoves
  BY <1>1, <1>2, <1>3 DEF Forget, CallMoves, KernelTypeOK
<1> HIDE DEF t
<1>5. data' \in [Task -> Message \cup {NULL}] /\ \A u \in Task : u # t => data'[u] = data[u]
  BY <1>3, <1>4
<1>6. /\ t \in Task /\ object[t] = q
      /\ TasksTyped' /\ ListsSound' /\ TasksSound' /\ CallsSound'
      /\ Departs(t, "ERROR")
  BY <1>1, <1>2, <1>4, <1>5, WakingHighest
<1>7. CpuSound'
  <2>1. inside # NULL
    BY <1>3 DEF DeleteWake
  <2>. QED
    BY <1>2, <1>3, <2>1 DEF CpuSound
<1>8. KernelInv'
  BY <1>2, <1>3, <1>6, <1>7 DEF KernelInv, KernelTypeOK, TasksTyped
<1>9. ObjectTyped'
  BY <1>2, <1>5 DEF IInv, ObjectTyped
<1>10. ObjectSound' /\ NobodyStranded'
  BY <1>2, <1>6, DepartureKeeps
<1>11. Abstract!GiveUp(t)
  BY <1>2, <1>3, <1>6, GivesUp
<1>. QED
  BY <1>6, <1>8, <1>9, <1>10, <1>11 DEF IInv

\* Nobody waits any more: they leave the section.
LEMMA DeletingEnds ==
    ASSUME IInv, NEW c \in Task, DeleteEnd(c)
    PROVE  IInv' /\ UNCHANGED Abstract!vars
<1>1. /\ inside = c /\ inside' = NULL /\ \A q \in Queue : ~HasWaiter(q)
      /\ pc' = [pc EXCEPT ![c] = "schedule"]
      /\ UNCHANGED taskVars /\ UNCHANGED <<lists, state, object, err, dq>>
      /\ UNCHANGED <<current, pend, isr, type, max, ring, message, full, data, got>>
  BY DEF DeleteEnd, Goto, taskVars, objectVars, callerVars
<1>2. /\ KernelTypeOK /\ CallsSound /\ CpuSound
      /\ Queue = {"send", "recv"} /\ Task \subseteq Thread /\ Idle \notin Task
      /\ Idle \in Thread /\ NULL \notin Thread /\ c # NULL
      /\ \A t \in Thread : /\ object[t] \in {"send", "recv", NULL}
                           /\ object[t] # NULL => t \in Task
  BY Basics
<1>3. /\ c = current /\ c \in Thread /\ isr = "none" /\ pc[c] = "section" /\ type = "none"
  BY <1>1, <1>2 DEF CpuSound, IInv, ObjectSound
<1>4. \A t \in Thread : object[t] = NULL
  BY <1>1, <1>2, WhoWaits
<1>5. /\ \A t \in Thread : t # c => pc'[t] = pc[t]
      /\ pc'[c] = "schedule"
  BY <1>1, <1>2, <1>3 DEF KernelTypeOK
<1>6. TasksTyped' /\ ListsSound' /\ TasksSound'
  BY <1>1, SameTasks DEF IInv
<1>7. CallsSound'
  <2>1. pc'[Idle] = "user"
    BY <1>2, <1>5 DEF CallsSound
  <2>. QED
    BY <1>1, <1>4, <2>1 DEF CallsSound
<1>8. CpuSound'
  BY <1>1, <1>3, <1>5 DEF CpuSound
<1>9. KernelInv'
  BY <1>1, <1>2, <1>6, <1>7, <1>8 DEF KernelInv, KernelTypeOK, TasksTyped, Link
<1>10. ObjectTyped'
  BY <1>1 DEF IInv, ObjectTyped
<1>11. ObjectSound' /\ NobodyStranded'
  BY <1>1, <1>3, <1>4 DEF IInv, ObjectSound, NobodyStranded
<1>12. UNCHANGED Abstract!vars
  <2>1. \A u \in Thread : pc'[u] \in {"wait", "return"} <=> pc[u] \in {"wait", "return"}
    BY <1>3, <1>5
  <2>2. Offers' = Offers /\ Receivers' = Receivers /\ Answers' = Answers
    BY <1>1, <1>2, <2>1, SameCalls
  <2>3. Capacity' = Capacity /\ Stored' = Stored
    BY <1>1 DEF Capacity, Stored
  <2>. QED
    BY <1>1, <2>2, <2>3 DEF Abstract!vars
<1>. QED
  BY <1>9, <1>10, <1>11, <1>12 DEF IInv

\* A wait times out: although both wait queues are tried, the task leaves its own
\* one and nobody else leaves any.
LEMMA Expiring ==
    ASSUME TimeoutAlone, IInv, Expire
    PROVE  IInv' /\ \E t \in Task : Abstract!GiveUp(t)
<1> DEFINE t == Head(dq)
<1>1. /\ isr = "deal" /\ Due
      /\ MakeReady(t, LeaveBoth(t), "TIMEOUT") /\ data' = [data EXCEPT ![t] = NULL]
      /\ UNCHANGED <<current, pend, isr, inside, pc, type, max, ring, message, full, got>>
  BY DEF Expire, Forget, cpuVars, objectVars
<1>2. /\ KernelTypeOK /\ ListsSound /\ TasksSound /\ CpuSound /\ Task \subseteq Thread
      /\ Queue = {"send", "recv"} /\ "send" # NULL /\ "recv" # NULL
      /\ data \in [Task -> Message \cup {NULL}]
      /\ max \in Nat \ {0} /\ type \in {"none", "QUEUE", "MAILBOX"}
      /\ \A u \in Thread : /\ object[u] \in {"send", "recv", NULL}
                           /\ object[u] # NULL => u \in Task
  BY Basics
<1>3. /\ t \in Task /\ t \in ToSet(dq) /\ t \in Thread \ ReadyTasks
      /\ object[t] # NULL /\ object[t] \in {"send", "recv"}
  <2>1. dq # <<>> /\ dq \in Seq(Thread)
    BY <1>1, <1>2 DEF Due, KernelTypeOK
  <2>2. t = dq[1] /\ 1 \in 1..Len(dq)
    BY <2>1, HeadTailProperties, ListFacts
  <2>3. t \in ToSet(dq) /\ t \in Thread
    BY <2>1, <2>2, ListFacts
  <2>4. object[t] # NULL /\ state[t] = "BLOCK"
    BY <1>2, <2>3 DEF TasksSound
  <2>. QED
    BY <1>2, <2>3, <2>4 DEF ReadyTasks
<1> HIDE DEF t
<1>4. type # "none" /\ inside = NULL
  BY <1>1, <1>2, <1>3 DEF IInv, ObjectSound, CpuSound
<1>5. LeaveBoth(t) = WaitRemove(lists, object[t], t, prio[t])
  <2>1. Linked(lists, ReadyTasks, object, prio)
    BY <1>2 DEF ListsSound
  <2>2. CASE object[t] = "send"
    <3>1. \A u \in Thread : object[u] = "recv" => prio[u] # prio[t]
      BY <1>2, <1>3, <1>4, <2>2 DEF IInv, NobodyStranded
    <3>2. WaitRemove(WaitRemove(lists, "send", t, prio[t]), "recv", t, prio[t])
            = WaitRemove(lists, "send", t, prio[t])
      BY <1>2, <1>3, <2>1, <2>2, <3>1, LeavesOneOfTwo
    <3>. QED
      BY <2>2, <3>2 DEF LeaveBoth
  <2>3. CASE object[t] = "recv"
    <3>1. \A u \in Thread : object[u] = "send" => prio[u] # prio[t]
      BY <1>2, <1>3, <1>4, <2>3 DEF IInv, NobodyStranded
    <3>2. ASSUME NEW u \in Thread \ {t}, object[u] = "recv"
          PROVE  prio[u] # prio[t]
      <4>1. /\ t \in Calls["receive"] /\ u \in Calls["receive"]
            /\ Timeouts[t] \ {WAIT_FOREVER} # {}
        BY <1>2, <1>3, <2>3, <3>2 DEF IInv, ObjectSound
      <4>2. Priority[u] # Priority[t]
        BY <1>3, <4>1, <3>2 DEF TimeoutAlone
      <4>3. u # Idle /\ t # Idle
        BY <1>2, <1>3, <3>2, IpcAssumption
      <4>. QED
        BY <1>2, <1>3, <4>2, <4>3 DEF TasksSound
    <3>3. WaitRemove(WaitRemove(lists, "send", t, prio[t]), "recv", t, prio[t])
            = WaitRemove(lists, "recv", t, prio[t])
      BY <1>2, <1>3, <2>1, <2>3, <3>1, <3>2, LeavesOneOfTwo
    <3>. QED
      BY <2>3, <3>3 DEF LeaveBoth
  <2>. QED
    BY <1>3, <2>2, <2>3
<1>6. /\ TasksTyped' /\ ListsSound' /\ TasksSound'
      /\ ToSet(dq') \subseteq ToSet(dq)
      /\ state' = [state EXCEPT ![t] = "READY"]
      /\ object' = [object EXCEPT ![t] = NULL]
      /\ err' = [err EXCEPT ![t] = "TIMEOUT"]
  <2> DEFINE q == object[t]
  <2>1. /\ KernelInv /\ q \in Queue /\ object[t] = q /\ t \in Thread
        /\ MakeReady(t, WaitRemove(lists, q, t, prio[t]), "TIMEOUT")
    BY <1>1, <1>2, <1>3, <1>5 DEF IInv
  <2> HIDE DEF q
  <2>. QED
    BY <1>1, <2>1, Wakes
<1>7. /\ CallMoves
      /\ data' \in [Task -> Message \cup {NULL}] /\ \A u \in Task : u # t => data'[u] = data[u]
  BY <1>1, <1>2, <1>3 DEF CallMoves, KernelTypeOK
<1>8. Departs(t, "TIMEOUT") /\ CallsSound'
  BY <1>2, <1>3, <1>6, <1>7, Waken
<1>9. CpuSound'
  BY <1>1, <1>4 DEF CpuSound
<1>10. KernelInv'
  BY <1>1, <1>2, <1>6, <1>8, <1>9 DEF KernelInv, KernelTypeOK, TasksTyped
<1>11. ObjectTyped'
  BY <1>1, <1>7 DEF IInv, ObjectTyped
<1>12. ObjectSound' /\ NobodyStranded'
  BY <1>1, <1>3, <1>8, DepartureKeeps
<1>13. Abstract!GiveUp(t)
  BY <1>1, <1>3, <1>8, GivesUp
<1>. QED
  BY <1>3, <1>10, <1>11, <1>12, <1>13 DEF IInv

\* The handlers of SysTick and PendSV.
LEMMA Handling ==
    ASSUME SliceAlone, IInv, Handler, UNCHANGED <<objectVars, callerVars>>
    PROVE  IInv' /\ UNCHANGED Abstract!vars
<1>1. /\ UNCHANGED <<type, max, ring, message, full, data, got>>
      /\ Task \subseteq Thread
  BY Basics DEF objectVars, callerVars
<1>2. KernelInv' /\ UNCHANGED <<state, prio, object, err, dq, inside, pc>>
  BY SlicesAreApart, HandlersKeep DEF IInv
<1>3. ObjectTyped'
  BY <1>1 DEF IInv, ObjectTyped
<1>4. ObjectSound' /\ NobodyStranded'
  BY <1>1, <1>2 DEF IInv, ObjectSound, NobodyStranded
<1>5. Offers' = Offers /\ Receivers' = Receivers /\ Answers' = Answers
  BY <1>1, <1>2, SameCalls
<1>6. Capacity' = Capacity /\ Stored' = Stored
  BY <1>1 DEF Capacity, Stored
<1>. QED
  BY <1>1, <1>2, <1>3, <1>4, <1>5, <1>6 DEF IInv, Abstract!vars


-----------------------------------------------------------------------------
(* The theorems                                                            *)

\* Initially the object does not exist, and nobody waits.
LEMMA Starting ==
    ASSUME Init
    PROVE  IInv /\ Abstract!Init
<1>1. KernelInv
  BY KernelStarts DEF Init
<1>2. /\ object = [t \in Thread |-> NULL] /\ pc = [t \in Thread |-> "user"]
      /\ inside = NULL /\ dq = <<>> /\ type = "none" /\ max = 1 /\ ring = EmptyRing(1)
      /\ message = NULL /\ full = FALSE
      /\ data = [t \in Task |-> NULL] /\ got = [t \in Task |-> NULL]
  BY DEF Init, KernelInit
<1>3. /\ Task \subseteq Thread /\ NULL \notin Queue /\ Queue = {"send", "recv"}
      /\ MAX_ITEMS \in Nat \ {0}
  BY IpcAssumption, MessageAssumption DEF Thread
<1>4. ObjectTyped
  <2>1. RingSound(EmptyRing(1), 1)
    BY EmptyRingIsEmpty
  <2>2. full \in BOOLEAN
    BY <1>2
  <2>3. max \in 1..MAX_ITEMS /\ RingSound(ring, max)
    BY <1>2, <1>3, <2>1
  <2>. QED
    BY <1>2, <2>2, <2>3 DEF ObjectTyped
<1>5. ToSet(dq) = {}
  BY <1>2 DEF ToSet
<1>6. \A t \in Thread : object[t] = NULL
  BY <1>2
<1>7. ObjectSound
  BY <1>2, <1>5, <1>6 DEF ObjectSound
<1>8. NobodyStranded
  BY <1>3, <1>6 DEF NobodyStranded
<1>9. IInv
  BY <1>1, <1>4, <1>7, <1>8 DEF IInv
<1>10. Abstract!Init
  <2>1. Abstract!Client = Task
    BY <1>9, ObjectIs
  <2>2. Stored = <<>> /\ Capacity = 0
    BY <1>2 DEF Stored, Capacity
  <2>3. Offers = [t \in Task |-> NULL]
    BY <1>2, <1>3, <1>6 DEF Offers
  <2>4. Receivers = {}
    BY <1>3, <1>6 DEF Receivers
  <2>5. \A t \in Task : ~Answered(t)
    BY <1>2, <1>3 DEF Answered
  <2>6. Answers = [t \in Task |-> "none"]
    BY <2>5 DEF Answers
  <2>. QED
    BY <1>2, <2>1, <2>2, <2>3, <2>4, <2>6 DEF Abstract!Init
<1>. QED
  BY <1>9, <1>10

\* Every step keeps the invariant, and is a step of Channel or changes nothing
\* that Channel sees.
LEMMA Stepping ==
    ASSUME SliceAlone, TimeoutAlone, IInv, [Next]_vars
    PROVE  IInv' /\ [Abstract!Next]_(Abstract!vars)
<1>1. Abstract!Client = Task
  BY ObjectIs
<1>2. ASSUME NEW m \in Message, \/ Abstract!Store(m)
                               \/ \E t \in Task : Abstract!HandOver(t, m)
      PROVE  Abstract!Next
  BY <1>1, <1>2 DEF Abstract!Next
<1>3. ASSUME \E t \in Task : Abstract!GiveUp(t)
      PROVE  Abstract!Next
  BY <1>1, <1>3 DEF Abstract!Next
<1>4. ASSUME NEW c \in Task, Call(c)
      PROVE  IInv' /\ Abstract!Next
  <2>1. CASE \/ \E items \in 1..MAX_ITEMS : QueueCreate(c, items)
             \/ MailboxCreate(c)
    BY <2>1, Creating DEF Abstract!Next
  <2>2. ASSUME NEW m \in Message, Send(c, m)
        PROVE  IInv' /\ Abstract!Next
    BY <1>2, <2>2, Sending
  <2>3. ASSUME NEW m \in Message, NEW timeout \in Timeouts[c],
               QueueSendBlocks(c, m, timeout) \/ MailboxSendBlocks(c, m, timeout)
        PROVE  IInv' /\ Abstract!Next
    <3>1. IInv' /\ Abstract!WaitToSend(c, m)
      BY <2>3, SendingBlocks
    <3>. QED
      BY <1>1, <3>1 DEF Abstract!Next
  <2>4. CASE QueueReceive(c)
    <3>1. IInv' /\ Abstract!Take(c)
      BY <2>4, QueueReceiving
    <3>. QED
      BY <1>1, <3>1 DEF Abstract!Next
  <2>5. CASE MailboxReceive(c)
    <3>1. IInv' /\ Abstract!Take(c)
      BY <2>5, MailboxReceiving
    <3>. QED
      BY <1>1, <3>1 DEF Abstract!Next
  <2>6. ASSUME NEW timeout \in Timeouts[c],
               QueueReceiveBlocks(c, timeout) \/ MailboxReceiveBlocks(c, timeout)
        PROVE  IInv' /\ Abstract!Next
    <3>1. IInv' /\ Abstract!WaitToReceive(c)
      BY <2>6, ReceivingBlocks
    <3>. QED
      BY <1>1, <3>1 DEF Abstract!Next
  <2>7. CASE QueueDelete(c) \/ MailboxDelete(c)
    <3>1. DeleteBegin(c) /\ type # "none"
      BY <2>7 DEF QueueDelete, MailboxDelete
    <3>2. IInv' /\ Abstract!Close
      BY <3>1, DeletingBegins
    <3>. QED
      BY <3>2 DEF Abstract!Next
  <2>. QED
    BY <1>4, <2>1, <2>2, <2>3, <2>4, <2>5, <2>6, <2>7 DEF Call
<1>5. ASSUME NEW c \in Task, Continue(c)
      PROVE  IInv' /\ [Abstract!Next]_(Abstract!vars)
  <2>1. CASE Proceed(c)
    <3>1. IInv' /\ (Abstract!Collect(c) \/ UNCHANGED Abstract!vars)
      BY <2>1, Proceeding
    <3>. QED
      BY <1>1, <3>1 DEF Abstract!Next
  <2>2. CASE Return(c)
    <3>1. IInv' /\ Abstract!Collect(c)
      BY <2>2, Returning
    <3>. QED
      BY <1>1, <3>1 DEF Abstract!Next
  <2>3. CASE DeleteWake(c)
    BY <1>3, <2>3, DeletingWakes
  <2>4. CASE DeleteEnd(c)
    BY <2>4, DeletingEnds
  <2>. QED
    BY <1>5, <2>1, <2>2, <2>3, <2>4 DEF Continue
<1>6. ASSUME NEW m \in Message, SendFromIsr(m)
      PROVE  IInv' /\ Abstract!Next
  BY <1>2, <1>6, SendingFromIsr
<1>7. CASE Expire
  BY <1>3, <1>7, Expiring
<1>8. CASE Handler /\ UNCHANGED <<objectVars, callerVars>>
  BY <1>8, Handling
<1>9. CASE UNCHANGED vars
  <2>1. /\ UNCHANGED kernelVars /\ UNCHANGED <<state, object, err, dq, pc, inside>>
        /\ UNCHANGED <<type, max, ring, message, full, data, got>>
    BY <1>9 DEF vars, objectVars, callerVars, kernelVars, taskVars, cpuVars
  <2>2. KernelInv'
    BY <2>1, SameKernel DEF IInv
  <2>3. ObjectTyped' /\ ObjectSound' /\ NobodyStranded'
    BY <2>1 DEF IInv, ObjectTyped, ObjectSound, NobodyStranded
  <2>4. Offers' = Offers /\ Receivers' = Receivers /\ Answers' = Answers
    BY <2>1, Basics, SameCalls
  <2>5. Capacity' = Capacity /\ Stored' = Stored
    BY <2>1 DEF Capacity, Stored
  <2>. QED
    BY <2>1, <2>2, <2>3, <2>4, <2>5 DEF IInv, Abstract!vars
<1>. QED
  BY <1>4, <1>5, <1>6, <1>7, <1>8, <1>9 DEF Next

\* The invariant that the theorems rest on.
THEOREM Invariance == ASSUME SliceAlone, TimeoutAlone PROVE Spec => []IInv
<1>1. Init => IInv
  BY Starting
<1>2. IInv /\ [Next]_vars => IInv'
  BY Stepping
<1>. QED
  BY <1>1, <1>2, PTL DEF Spec

\* Every variable has its type; in particular the indices and the count of the
\* ring agree with each other.
THEOREM TypesCorrect == ASSUME SliceAlone, TimeoutAlone PROVE Spec => []TypeOK
<1>1. IInv => TypeOK
  BY DEF IInv, KernelInv, ObjectTyped, TypeOK
<1>. QED
  BY <1>1, Invariance, PTL

\* No receiver waits while there is a message, no sender while there is room
\* (flyos_ipc.c 1252-1339, 1371-1437 and the calls of the mailbox).
THEOREM NobodyIsStranded == ASSUME SliceAlone, TimeoutAlone PROVE Spec => []NobodyStranded
<1>1. IInv => NobodyStranded
  BY DEF IInv
<1>. QED
  BY <1>1, Invariance, PTL

\* Queue and mailbox are FIFO channels: they implement Channel, with any number
\* of tasks, interrupts, messages and places.
THEOREM ChannelImplemented == ASSUME SliceAlone, TimeoutAlone PROVE Spec => ChannelSpec
<1>1. Init => Abstract!Init
  BY Starting
<1>2. IInv /\ [Next]_vars => [Abstract!Next]_(Abstract!vars)
  BY Stepping
<1>. QED
  BY <1>1, <1>2, Invariance, PTL DEF Spec, ChannelSpec, Abstract!Spec

-----------------------------------------------------------------------------
(* What the promise is worth                                               *)

\* A channel holds no more than it can, a receiver waits only for an empty one
\* and a sender only for a full one.
FifoServes ==
    /\ Capacity \in Nat
    /\ Stored \in Seq(Message)
    /\ Offers \in [Abstract!Client -> Message \cup {NULL}]
    /\ Len(Stored) <= Capacity
    /\ Receivers # {} => Stored = <<>>
    /\ Abstract!Senders # {} => Len(Stored) = Capacity

\* Whatever implements Channel lets no task wait in vain, as NobodyStranded says
\* of the code.
THEOREM FifoNeverStrands == ChannelSpec => []FifoServes
<1>1. Abstract!Init => FifoServes
  BY DEF Abstract!Init, FifoServes, Abstract!Senders
<1>2. FifoServes /\ [Abstract!Next]_(Abstract!vars) => FifoServes'
  <2>. SUFFICES ASSUME FifoServes, [Abstract!Next]_(Abstract!vars)
                PROVE  FifoServes'
    OBVIOUS
  <2>. USE DEF FifoServes, Abstract!Senders
  <2>1. CASE Abstract!Open
    BY <2>1 DEF Abstract!Open
  <2>2. CASE Abstract!Close
    BY <2>2 DEF Abstract!Close
  <2>3. ASSUME NEW m \in Message, Abstract!Store(m)
        PROVE  FifoServes'
    BY <2>3 DEF Abstract!Store
  <2>4. ASSUME NEW t \in Abstract!Client, NEW m \in Message, Abstract!HandOver(t, m)
        PROVE  FifoServes'
    BY <2>4 DEF Abstract!HandOver
  <2>5. ASSUME NEW t \in Abstract!Client, NEW m \in Message, Abstract!WaitToSend(t, m)
        PROVE  FifoServes'
    BY <2>5 DEF Abstract!WaitToSend
  <2>6. ASSUME NEW t \in Abstract!Client, Abstract!WaitToReceive(t)
        PROVE  FifoServes'
    BY <2>6 DEF Abstract!WaitToReceive
  <2>7. ASSUME NEW t \in Abstract!Client, Abstract!Take(t)
        PROVE  FifoServes'
    <3>1. Receivers = {} /\ Receivers' = {} /\ Capacity' = Capacity
      BY <2>7 DEF Abstract!Take
    <3>2. CASE /\ Abstract!Senders = {}
               /\ Stored' = Tail(Stored)
               /\ Offers' = Offers
      BY <2>7, <3>1, <3>2 DEF Abstract!Take
    <3>3. ASSUME NEW s \in Abstract!Client, Abstract!MostUrgent(s, Abstract!Senders),
                 Stored' = Append(Tail(Stored), Offers[s]),
                 Offers' = [Offers EXCEPT ![s] = NULL]
          PROVE  FifoServes'
      <4>1. Offers[s] \in Message
        BY <3>3 DEF Abstract!MostUrgent
      <4>2. Len(Stored') = Len(Stored) /\ Stored' \in Seq(Message)
        BY <2>7, <3>3, <4>1 DEF Abstract!Take
      <4>3. Len(Stored) = Capacity
        BY <3>3 DEF Abstract!MostUrgent
      <4>. QED
        BY <3>1, <3>3, <4>2, <4>3
    <3>. QED
      BY <2>7, <3>2, <3>3 DEF Abstract!Take
  <2>8. ASSUME NEW t \in Abstract!Client, Abstract!GiveUp(t)
        PROVE  FifoServes'
    BY <2>8 DEF Abstract!GiveUp
  <2>9. ASSUME NEW t \in Abstract!Client, Abstract!Collect(t)
        PROVE  FifoServes'
    BY <2>9 DEF Abstract!Collect
  <2>10. CASE UNCHANGED Abstract!vars
    BY <2>10 DEF Abstract!vars
  <2>. QED
    BY <2>1, <2>2, <2>3, <2>4, <2>5, <2>6, <2>7, <2>8, <2>9, <2>10 DEF Abstract!Next
<1>. QED
  BY <1>1, <1>2, PTL DEF ChannelSpec, Abstract!Spec
=============================================================================
