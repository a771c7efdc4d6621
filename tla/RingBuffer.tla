----------------------------- MODULE RingBuffer -----------------------------
(***************************************************************************)
(* The ring buffer of flyos_queue_t: max_items slots, a read and a write   *)
(* index and a count.  Pure operators, used by MessageQueue; that they are *)
(* a FIFO is proved in MessageQueueProofs.                                 *)
(***************************************************************************)
EXTENDS Integers, Sequences

CONSTANTS Message, NULL

RingType(n) ==
    [slots : [0..(n - 1) -> Message \cup {NULL}],
     read  : 0..(n - 1),        \* read_index
     write : 0..(n - 1),        \* write_index
     count : 0..n]              \* item_count

\* The slots of a new buffer are not initialised; NULL stands for what is there.
EmptyRing(n) ==
    [slots |-> [i \in 0..(n - 1) |-> NULL], read |-> 0, write |-> 0, count |-> 0]

\* An index past the last slot goes on from the first.
Wrapped(i, n) == i % n

\* A mutant: the write index runs off the end.
MutantNoWrap(r, n, m) ==
    [slots |-> [r.slots EXCEPT ![r.write] = m],
     read  |-> r.read,
     write |-> r.write + 1,
     count |-> r.count + 1]

\* A message is copied to the write index.
Enqueue(r, n, m) ==
    [slots |-> [r.slots EXCEPT ![r.write] = m],
     read  |-> r.read,
     write |-> Wrapped(r.write + 1, n),
     count |-> r.count + 1]

\* A message leaves from the read index.
Oldest(r) == r.slots[r.read]

Dequeue(r, n) ==
    [slots |-> r.slots,
     read  |-> Wrapped(r.read + 1, n),
     write |-> r.write,
     count |-> r.count - 1]

\* The messages in the buffer, oldest first.
Contents(r, n) == [i \in 1..r.count |-> r.slots[Wrapped(r.read + i - 1, n)]]

\* The write index is where the next message belongs, and only slots that have
\* been written are read.
RingSound(r, n) ==
    /\ r \in RingType(n)
    /\ r.write = Wrapped(r.read + r.count, n)
    /\ \A i \in 1..r.count : Contents(r, n)[i] \in Message
=============================================================================
