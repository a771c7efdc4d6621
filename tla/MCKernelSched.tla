---------------------------- MODULE MCKernelSched ----------------------------
(***************************************************************************)
(* Scheduling: three tasks of any priority (the idle priority included)    *)
(* one that sleeps, one that sleeps and yields, one that never gives up    *)
(* the processor.  Slices of two ticks let a switch come at each point.    *)
(***************************************************************************)
EXTENDS FlyosKernel

CONSTANTS t1, t2, t3

MCTask == {t1, t2, t3}

MCCalls ==
    [call \in {"create", "delete", "delete self", "suspend", "resume",
               "set_priority", "delay", "yield", "lock", "unlock"} |->
        CASE call = "delay"        -> {t1, t2}
          [] call = "yield"        -> {t2}
          [] OTHER -> {}]
=============================================================================
