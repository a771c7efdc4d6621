----------------------------- MODULE MCSemaphore -----------------------------
(***************************************************************************)
(* Semaphore with three tasks that all wait and signal.                    *)
(*                                                                         *)
(* MCSemaphore.cfg: t1 and t2 have the same priority, so that a list of    *)
(* the wait queue may hold two tasks, t3 is more urgent.  No time slice of *)
(* t1 and t2 runs out: see MCSemaphoreSlice.cfg, where that happens to     *)
(* three tasks of one priority.                                            *)
(***************************************************************************)
EXTENDS Semaphore

CONSTANTS t1, t2, t3

MCTask  == {t1, t2, t3}
MCQueue == {"wait"}

MCPriority      == [t \in MCTask |-> IF t = t3 THEN 0 ELSE 1]
MCEqualPriority == [t \in MCTask |-> 1]

MCCalls ==
    [call \in {"create", "wait", "signal", "delete"} |->
        IF call = "delete" THEN {t1, t3} ELSE MCTask]
=============================================================================
