---------------------------- MODULE MessageQueue ----------------------------
(***************************************************************************)
(* The message queue (flyos_ipc.c 1146-1478) and the mailbox (2153-2433):  *)
(* create, send with and without waiting, send from interrupts, receive,   *)
(* delete, and the time-out of a wait.                                     *)
(*                                                                         *)
(* Both have a wait queue for senders and one for receivers, and nearly    *)
(* the same code; the object that exists is of either type.  Callers keep  *)
(* to flyos_ipc.h: no call begins after a delete has begun.                *)
(***************************************************************************)
EXTENDS IpcTasks, Integers

CONSTANTS
    Message,        \* the items of a queue, the pointers of a mailbox
    MAX_ITEMS,      \* bound on max_items
    Timeouts        \* for each task, the time-outs of its calls that may block

ASSUME MessageAssumption ==
    /\ Queue = {"send", "recv"}
    /\ NULL \notin Message
    /\ MAX_ITEMS \in Nat \ {0}
    /\ Timeouts \in [Task -> SUBSET (Nat \ {NO_WAIT})]

VARIABLES
    type,       \* base.type of the object, "none" when there is none
    max,        \* queue->max_items
    ring,       \* queue->buffer, item_count, read_index and write_index
    message,    \* mbox->message
    full,       \* mbox->full
    data,       \* task->user_data of a waiting sender: its message
    got         \* what a receive call has found in its caller's buffer

objectVars == <<type, max, ring, message, full>>
callerVars == <<data, got>>
vars       == <<kernelVars, objectVars, callerVars>>

INSTANCE RingBuffer

TypeOK ==
    /\ KernelTypeOK
    /\ type    \in {"none", "QUEUE", "MAILBOX"}
    /\ max     \in 1..MAX_ITEMS
    /\ RingSound(ring, max)
    /\ message \in Message \cup {NULL}
    /\ full    \in BOOLEAN
    /\ data    \in [Task -> Message \cup {NULL}]
    /\ got     \in [Task -> Message \cup {NULL}]

-----------------------------------------------------------------------------

Init ==
    /\ KernelInit
    /\ type    = "none"
    /\ max     = 1
    /\ ring    = EmptyRing(1)
    /\ message = NULL
    /\ full    = FALSE
    /\ data    = [t \in Task |-> NULL]
    /\ got     = [t \in Task |-> NULL]

\* The two wait queues of a new object.
TwoQueues == lists' = WaitInit(WaitInit(lists, "send"), "recv")

\* flyos_queue_create; with other arguments it changes nothing.
QueueCreate(c, items) ==
    /\ MayCall(c, "create")
    /\ type = "none"
    /\ type' = "QUEUE"
    /\ max'  = items
    /\ ring' = EmptyRing(items)
    /\ TwoQueues
    /\ UNCHANGED <<state, prio, object, err, dq, left, cpuVars, pc,
                   message, full, callerVars>>

\* flyos_mailbox_create
MailboxCreate(c) ==
    /\ MayCall(c, "create")
    /\ type = "none"
    /\ type'    = "MAILBOX"
    /\ message' = NULL
    /\ full'    = FALSE
    /\ TwoQueues
    /\ UNCHANGED <<state, prio, object, err, dq, left, cpuVars, pc,
                   max, ring, callerVars>>

-----------------------------------------------------------------------------
(* Sending                                                                 *)

\* A receiver waits and nothing is stored.
HandsOver ==
    /\ HasWaiter("recv")
    /\ HighestWaiter("recv") # NULL
    /\ \/ type = "QUEUE" /\ ring.count = 0
       \/ type = "MAILBOX" /\ ~full

\* The message goes into the buffer of the most urgent receiver.
HandOver(m) ==
    /\ got' = [got EXCEPT ![HighestWaiter("recv")] = m]
    /\ WakeHighest("recv", "OK")
    /\ UNCHANGED <<objectVars, data>>

\* The critical section of queue_send_common, if it does not block: the message
\* goes to a receiver or into the ring.  A call that finds the queue full and
\* must not wait returns FLYOS_FULL and changes nothing.
QueuePut(m) ==
    /\ type = "QUEUE"
    /\ \/ HandsOver /\ HandOver(m)
       \/ /\ ~HandsOver
          /\ ring.count < max
          /\ ring' = Enqueue(ring, max, m)
          /\ UNCHANGED <<taskVars, type, max, message, full, callerVars>>

\* The critical section of mailbox_send_common.
MailboxPut(m) ==
    /\ type = "MAILBOX"
    /\ \/ HandsOver /\ HandOver(m)
       \/ /\ ~HandsOver
          /\ ~full
          /\ message' = m
          /\ full'    = TRUE
          /\ UNCHANGED <<taskVars, type, max, ring, callerVars>>

\* flyos_queue_send and flyos_mailbox_send
Send(c, m) ==
    /\ MayCall(c, "send")
    /\ QueuePut(m) \/ MailboxPut(m)
    /\ Goto(c, IF HandsOver THEN "schedule" ELSE "user")
    /\ UNCHANGED cpuVars

\* flyos_queue_send_from_isr and flyos_mailbox_send_from_isr
SendFromIsr(m) ==
    /\ Interrupts
    /\ QueuePut(m) \/ MailboxPut(m)
    /\ pend' = (pend \/ HandsOver)
    /\ UNCHANGED <<current, isr, inside, pc>>

\* The sender waits, and leaves a pointer to its message.
BlockSender(c, m, timeout) ==
    /\ MayCall(c, "send")
    /\ timeout # NO_WAIT
    /\ ~HandsOver
    /\ BlockOn(c, "send", timeout)
    /\ data' = [data EXCEPT ![c] = m]
    /\ Goto(c, "wait")
    /\ UNCHANGED <<cpuVars, objectVars, got>>

\* queue_send_common and mailbox_send_common find no room.
QueueSendBlocks(c, m, timeout) ==
    /\ type = "QUEUE"
    /\ ring.count >= max
    /\ BlockSender(c, m, timeout)

MailboxSendBlocks(c, m, timeout) ==
    /\ type = "MAILBOX"
    /\ full
    /\ BlockSender(c, m, timeout)

-----------------------------------------------------------------------------
(* Receiving                                                               *)

\* A mutant: only the mailbox wakes a waiting sender.
MutantRefillsMailbox ==
    type = "MAILBOX" /\ HasWaiter("send") /\ HighestWaiter("send") # NULL

\* A sender waits that can use the place that becomes free.
Refills == HasWaiter("send") /\ HighestWaiter("send") # NULL

\* A wait is over: nobody reads user_data any more.
Forget(t) == data' = [data EXCEPT ![t] = NULL]

\* A receive call that finds a message, after it has taken it.
Taken(c) ==
    /\ IF Refills
       THEN WakeHighest("send", "OK") /\ Forget(HighestWaiter("send"))
       ELSE UNCHANGED <<taskVars, data>>
    /\ Goto(c, IF Refills THEN "schedule" ELSE "finish")
    /\ UNCHANGED cpuVars

\* A mutant of flyos_queue_receive: the sender's message is put into the ring
\* before the oldest one has left it.
MutantRefillsFirst(c) ==
    /\ MayCall(c, "receive")
    /\ type = "QUEUE"
    /\ ring.count > 0
    /\ LET put == IF Refills
                  THEN Enqueue(ring, max, data[HighestWaiter("send")]) ELSE ring
       IN  /\ got'  = [got EXCEPT ![c] = Oldest(put)]
           /\ ring' = Dequeue(put, max)
    /\ Taken(c)
    /\ UNCHANGED <<type, max, message, full>>

\* flyos_queue_receive: the oldest message leaves the ring, a waiting sender's
\* message goes into it.
QueueReceive(c) ==
    /\ MayCall(c, "receive")
    /\ type = "QUEUE"
    /\ ring.count > 0
    /\ got'  = [got EXCEPT ![c] = Oldest(ring)]
    /\ LET rest == Dequeue(ring, max)
       IN  ring' = IF Refills
                   THEN Enqueue(rest, max, data[HighestWaiter("send")]) ELSE rest
    /\ Taken(c)
    /\ UNCHANGED <<type, max, message, full>>

\* flyos_mailbox_receive
MailboxReceive(c) ==
    /\ MayCall(c, "receive")
    /\ type = "MAILBOX"
    /\ full
    /\ got'     = [got EXCEPT ![c] = message]
    /\ message' = IF Refills THEN data[HighestWaiter("send")] ELSE NULL
    /\ full'    = Refills
    /\ Taken(c)
    /\ UNCHANGED <<type, max, ring>>

\* The receiver waits, and leaves a pointer to its buffer.
BlockReceiver(c, timeout) ==
    /\ MayCall(c, "receive")
    /\ timeout # NO_WAIT
    /\ BlockOn(c, "recv", timeout)
    /\ Goto(c, "wait")
    /\ UNCHANGED <<cpuVars, objectVars, callerVars>>

\* flyos_queue_receive and flyos_mailbox_receive find no message.
QueueReceiveBlocks(c, timeout) ==
    type = "QUEUE" /\ ring.count = 0 /\ BlockReceiver(c, timeout)

MailboxReceiveBlocks(c, timeout) ==
    type = "MAILBOX" /\ ~full /\ BlockReceiver(c, timeout)

\* A call goes on to the scheduler.  A receive call that has not waited
\* returns after it, and its caller uses what it has got.
Proceed(c) ==
    /\ CallScheduler(c)
    /\ got' = IF pc[c] = "schedule" THEN [got EXCEPT ![c] = NULL] ELSE got
    /\ UNCHANGED <<objectVars, data>>

\* A call that has waited returns the task's error code; a receive call that
\* has woken nobody returns FLYOS_OK.
Return(c) ==
    /\ Runs(c)
    /\ pc[c] \in {"return", "finish"}
    /\ got' = [got EXCEPT ![c] = NULL]
    /\ Goto(c, "user")
    /\ UNCHANGED <<taskVars, cpuVars, objectVars, data>>

-----------------------------------------------------------------------------
(* Deletion and time-outs                                                  *)

\* A delete call enters its critical section.  What the object holds is lost.
DeleteBegin(c) ==
    /\ MayCall(c, "delete")
    /\ type'    = "none"
    /\ max'     = 1
    /\ ring'    = EmptyRing(1)
    /\ message' = NULL
    /\ full'    = FALSE
    /\ inside'  = c
    /\ Goto(c, "section")
    /\ UNCHANGED <<taskVars, current, pend, isr, callerVars>>

\* flyos_queue_delete and flyos_mailbox_delete
QueueDelete(c)   == type = "QUEUE"   /\ DeleteBegin(c)
MailboxDelete(c) == type = "MAILBOX" /\ DeleteBegin(c)

\* One iteration of their loops: the senders come first.
DeleteWake(c) ==
    /\ inside = c
    /\ \E q \in Queue :
        /\ HasWaiter(q)
        /\ q = "recv" => ~HasWaiter("send")
        /\ WakeHighest(q, "ERROR")
        /\ Forget(HighestWaiter(q))
    /\ UNCHANGED <<cpuVars, pc, objectVars, got>>

\* They leave the section, free the memory and go on to the scheduler.
DeleteEnd(c) ==
    /\ inside = c
    /\ \A q \in Queue : ~HasWaiter(q)
    /\ inside' = NULL
    /\ Goto(c, "schedule")
    /\ UNCHANGED <<taskVars, current, pend, isr, objectVars, callerVars>>

\* flyos_ipc_remove_task_from_wait_list tries both wait queues.
LeaveBoth(t) ==
    WaitRemove(WaitRemove(lists, "send", t, prio[t]), "recv", t, prio[t])

\* delta_queue_wake_task, for the head of the delta queue.
Expire ==
    LET t == Head(dq) IN
    /\ isr = "deal"
    /\ Due
    /\ MakeReady(t, LeaveBoth(t), "TIMEOUT")
    /\ Forget(t)
    /\ UNCHANGED <<cpuVars, pc, objectVars, got>>

-----------------------------------------------------------------------------

Call(c) ==
    \/ \E items \in 1..MAX_ITEMS : QueueCreate(c, items)
    \/ MailboxCreate(c)
    \/ \E m \in Message :
        \/ Send(c, m)
        \/ \E timeout \in Timeouts[c] : \/ QueueSendBlocks(c, m, timeout)
                                        \/ MailboxSendBlocks(c, m, timeout)
    \/ QueueReceive(c)
    \/ MailboxReceive(c)
    \/ \E timeout \in Timeouts[c] : \/ QueueReceiveBlocks(c, timeout)
                                    \/ MailboxReceiveBlocks(c, timeout)
    \/ QueueDelete(c)
    \/ MailboxDelete(c)

Continue(c) == Proceed(c) \/ Return(c) \/ DeleteWake(c) \/ DeleteEnd(c)

Next ==
    \/ \E c \in Task : Call(c) \/ Continue(c)
    \/ \E m \in Message : SendFromIsr(m)
    \/ Expire
    \/ Handler /\ UNCHANGED <<objectVars, callerVars>>

Spec == Init /\ [][Next]_vars

-----------------------------------------------------------------------------
(* Properties                                                              *)

\* The call of a task that has waited is about to return.
Answered(t) == pc[t] \in {"wait", "return"} /\ state[t] = "READY"

\* Nobody waits in vain: no receiver while there is a message, no sender while
\* there is room, which is what queue_send_common and flyos_queue_receive hand
\* messages over for (flyos_ipc.h 403 and 404: the queue of senders is for a
\* full queue, that of receivers for an empty one).
NobodyStranded ==
    \A t \in Task :
        /\ object[t] = "recv" => CASE type = "QUEUE"   -> ring.count = 0
                                   [] type = "MAILBOX" -> ~full
                                   [] OTHER            -> TRUE
        /\ object[t] = "send" => CASE type = "QUEUE"   -> ring.count = max
                                   [] type = "MAILBOX" -> full
                                   [] OTHER            -> TRUE

\* What Channel sees: the places, the messages in them, the waiting senders
\* with theirs, the waiting receivers, and what the calls are going to return.
Capacity  == CASE type = "QUEUE"   -> max
               [] type = "MAILBOX" -> 1
               [] OTHER            -> 0
Stored    == CASE type = "QUEUE"           -> Contents(ring, max)
               [] type = "MAILBOX" /\ full -> <<message>>
               [] OTHER                    -> <<>>
Offers    == [t \in Task |-> IF object[t] = "send" THEN data[t] ELSE NULL]
Receivers == {t \in Task : object[t] = "recv"}
Answers   == [t \in Task |-> IF ~Answered(t) THEN "none"
                             ELSE IF err[t] = "OK" THEN "OK" ELSE "failed"]

\* Queue and mailbox implement a FIFO channel: no message is lost, doubled or
\* overtaken, the most urgent task is served first, and a call that has waited
\* returns FLYOS_OK exactly if its message has been taken or its buffer filled.
Abstract == INSTANCE Channel WITH
    Urgency   <- [t \in Task |-> Priority[t]],
    capacity  <- Capacity,
    stored    <- Stored,
    offer     <- Offers,
    receivers <- Receivers,
    inbox     <- got,
    answer    <- Answers
ChannelSpec == Abstract!Spec
=============================================================================
