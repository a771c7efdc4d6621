--------------------------- MODULE MCMessageQueue ---------------------------
(***************************************************************************)
(* MessageQueue with three tasks.  t1 and t2 have the same priority, so    *)
(* that a wait queue may hold two tasks in one list; they wait for ever,   *)
(* since a time-out of one would lose the other (README, findings).  t3 is *)
(* more urgent, and its calls may time out.                                *)
(***************************************************************************)
EXTENDS MessageQueue

CONSTANTS t1, t2, t3

MCTask     == {t1, t2, t3}
MCQueue    == {"send", "recv"}
MCPriority == [t \in MCTask |-> IF t = t3 THEN 0 ELSE 1]
MCTimeouts == [t \in MCTask |-> IF t = t3 THEN {1, WAIT_FOREVER} ELSE {WAIT_FOREVER}]

MCEqualTimeouts == [t \in MCTask |-> {1, WAIT_FOREVER}]

MCCalls ==
    [call \in {"create", "send", "receive", "delete"} |->
        IF call = "create" THEN {t3} ELSE IF call = "delete" THEN {t1} ELSE MCTask]
=============================================================================
