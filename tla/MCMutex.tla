------------------------------ MODULE MCMutex -------------------------------
(***************************************************************************)
(* Mutex with three tasks of different priorities, t3 the most urgent.     *)
(*                                                                         *)
(* MCMutex.cfg: one mutex.  The least urgent task deletes it; only it and  *)
(* the most urgent one sleep, so that no mutex is deleted while its owner  *)
(* sleeps with a priority that is not its own (README, findings).          *)
(* MCMutexNested.cfg: two mutexes, which a task may own together.           *)
(***************************************************************************)
EXTENDS Mutex

CONSTANTS t1, t2, t3

MCTask     == {t1, t2, t3}
MCPriority == [t \in MCTask |-> CASE t = t1 -> 2 [] t = t2 -> 1 [] t = t3 -> 0]

MCCalls ==
    [call \in {"create", "lock", "unlock", "delete", "delay"} |->
        CASE call = "create" -> {t3}
          [] call = "delete" -> {t1}
          [] call = "delay"  -> {t1, t3}
          [] OTHER -> MCTask]
=============================================================================
