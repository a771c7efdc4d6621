---------------------------- MODULE MCKernelLife -----------------------------
(***************************************************************************)
(* Life cycle: a supervisor creates, deletes, suspends and resumes its     *)
(* workers; the workers sleep, suspend each other and delete themselves;   *)
(* whoever likes locks the scheduler.                                      *)
(***************************************************************************)
EXTENDS FlyosKernel

CONSTANTS s, w1, w2

MCTask == {s, w1, w2}

MCCalls ==
    [call \in {"create", "delete", "delete self", "suspend", "resume",
               "set_priority", "delay", "yield", "lock", "unlock"} |->
        CASE call \in {"create", "delete", "resume", "set_priority"} -> {s}
          [] call \in {"lock", "unlock"} -> {s}
          [] call = "suspend" -> {s, w1}
          [] call = "delete self" -> {w2}
          [] call = "delay" -> {s, w1, w2}
          [] OTHER -> {w2}]
=============================================================================
