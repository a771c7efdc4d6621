---------------------------- MODULE MCDeltaQueue ----------------------------
(***************************************************************************)
(* DeltaQueue on a small instance.  Four tasks and delays of up to three   *)
(* ticks give queues with equal and different wake-up times, insertions at *)
(* the head, in the middle and at the tail, and removals at each place.    *)
(***************************************************************************)
EXTENDS DeltaQueue
=============================================================================
