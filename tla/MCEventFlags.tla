---------------------------- MODULE MCEventFlags ----------------------------
(***************************************************************************)
(* EventFlags with three tasks.  t1 and t2 have the same priority, so that *)
(* a list of the wait queue may hold both; t3 is more urgent.              *)
(*                                                                         *)
(* MCEventFlags.cfg: t1 and t2 wait for different flags.                   *)
(* MCEventLost.cfg: they wait for the same flag.                           *)
(***************************************************************************)
EXTENDS EventFlags

CONSTANTS t1, t2, t3

MCTask     == {t1, t2, t3}
MCQueue    == {"wait"}
MCPriority == [t \in MCTask |-> IF t = t3 THEN 0 ELSE 1]

Want(fs, all, clear) == [flags |-> fs, all |-> all, clear |-> clear]

MCRequests ==
    [t \in MCTask |->
        CASE t = t1 -> {Want({0, 1}, FALSE, TRUE), Want({0, 1}, TRUE, FALSE)}
          [] t = t2 -> {Want({2}, FALSE, TRUE), Want({2}, TRUE, FALSE)}
          [] t = t3 -> {Want({1, 2}, TRUE, TRUE), Want({0}, FALSE, FALSE)}]

MCSameFlag == [t \in MCTask |-> {Want({0}, FALSE, FALSE)}]

MCCalls ==
    [call \in {"create", "wait", "set", "delete"} |->
        IF call = "create" THEN {t3} ELSE IF call = "delete" THEN {t1} ELSE MCTask]
=============================================================================
