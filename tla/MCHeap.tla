------------------------------- MODULE MCHeap -------------------------------
(***************************************************************************)
(* Heap on a small instance: an arena for up to four blocks and two tasks, *)
(* so that the sections of one realloc interleave with all calls of the    *)
(* other task; a count of 3 times a size of 11 does not fit a word, and no *)
(* other request wraps around.                                             *)
(***************************************************************************)
EXTENDS Heap
=============================================================================
