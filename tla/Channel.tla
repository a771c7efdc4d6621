------------------------------ MODULE Channel ------------------------------
(***************************************************************************)
(* What flyos_ipc.h promises of message queues and mailboxes: a FIFO of    *)
(* bounded capacity; the tasks that wait to send into it, each with its    *)
(* message, and the tasks that wait to receive; and what a call that has   *)
(* waited is going to return.                                              *)
(*                                                                         *)
(* MessageQueue implements this specification.                             *)
(***************************************************************************)
EXTENDS Naturals, Sequences

CONSTANTS
    Message,
    NULL,           \* no message
    Urgency         \* the priority of each task: 0 is the most urgent

Client == DOMAIN Urgency

VARIABLES
    capacity,   \* 0: the channel does not exist
    stored,     \* the messages in it, oldest first
    offer,      \* for each task that waits to send, its message
    receivers,  \* the tasks that wait to receive
    inbox,      \* the message that a receive call is going to return with
    answer      \* what a call that has waited is going to return

vars == <<capacity, stored, offer, receivers, inbox, answer>>

Senders == {t \in Client : offer[t] # NULL}

MostUrgent(t, S) == t \in S /\ \A u \in S : Urgency[t] <= Urgency[u]

Init ==
    /\ capacity  = 0
    /\ stored    = <<>>
    /\ offer     = [t \in Client |-> NULL]
    /\ receivers = {}
    /\ inbox     = [t \in Client |-> NULL]
    /\ answer    = [t \in Client |-> "none"]

Open ==
    /\ capacity = 0
    /\ Senders = {}
    /\ receivers = {}
    /\ capacity' \in Nat \ {0}
    /\ UNCHANGED <<stored, offer, receivers, inbox, answer>>

Close ==
    /\ capacity' = 0
    /\ stored' = <<>>
    /\ UNCHANGED <<offer, receivers, inbox, answer>>

\* A message for nobody in particular: nobody waits to receive.
Store(m) ==
    /\ receivers = {}
    /\ Len(stored) < capacity
    /\ stored' = Append(stored, m)
    /\ UNCHANGED <<capacity, offer, receivers, inbox, answer>>

\* A message for the most urgent receiver, past the empty channel.
HandOver(t, m) ==
    /\ MostUrgent(t, receivers)
    /\ stored = <<>>
    /\ receivers' = receivers \ {t}
    /\ inbox'     = [inbox EXCEPT ![t] = m]
    /\ answer'    = [answer EXCEPT ![t] = "OK"]
    /\ UNCHANGED <<capacity, stored, offer>>

\* Senders wait only while the channel is full, receivers while it is empty.
WaitToSend(t, m) ==
    /\ capacity > 0
    /\ Len(stored) = capacity
    /\ t \notin Senders \cup receivers
    /\ offer' = [offer EXCEPT ![t] = m]
    /\ UNCHANGED <<capacity, stored, receivers, inbox, answer>>

WaitToReceive(t) ==
    /\ capacity > 0
    /\ stored = <<>>
    /\ t \notin Senders \cup receivers
    /\ receivers' = receivers \cup {t}
    /\ UNCHANGED <<capacity, stored, offer, inbox, answer>>

\* The oldest message goes to a task that does not wait.  If a sender waits,
\* the message of the most urgent one takes the free place.
Take(t) ==
    /\ stored # <<>>
    /\ inbox' = [inbox EXCEPT ![t] = Head(stored)]
    /\ \/ /\ Senders = {}
          /\ stored' = Tail(stored)
          /\ UNCHANGED <<offer, answer>>
       \/ \E s \in Client :
            /\ MostUrgent(s, Senders)
            /\ stored' = Append(Tail(stored), offer[s])
            /\ offer'  = [offer EXCEPT ![s] = NULL]
            /\ answer' = [answer EXCEPT ![s] = "OK"]
    /\ UNCHANGED <<capacity, receivers>>

\* A time-out, or the deletion of the channel: no message has moved.
GiveUp(t) ==
    /\ t \in Senders \cup receivers
    /\ offer'     = [offer EXCEPT ![t] = NULL]
    /\ receivers' = receivers \ {t}
    /\ answer'    = [answer EXCEPT ![t] = "failed"]
    /\ UNCHANGED <<capacity, stored, inbox>>

\* The call returns.
Collect(t) ==
    /\ t \notin Senders \cup receivers
    /\ inbox'  = [inbox EXCEPT ![t] = NULL]
    /\ answer' = [answer EXCEPT ![t] = "none"]
    /\ UNCHANGED <<capacity, stored, offer, receivers>>

Next ==
    \/ Open
    \/ Close
    \/ \E m \in Message : Store(m)
    \/ \E t \in Client, m \in Message : HandOver(t, m) \/ WaitToSend(t, m)
    \/ \E t \in Client : WaitToReceive(t) \/ Take(t) \/ GiveUp(t) \/ Collect(t)

Spec == Init /\ [][Next]_vars
=============================================================================
