----------------------------- MODULE Allocator ------------------------------
(***************************************************************************)
(* What flyos_mem.c promises its callers, free of blocks and headers: the  *)
(* regions that have been handed out lie in the heap, are disjoint, and    *)
(* each is as long as its holder may use it.                               *)
(*                                                                         *)
(* Heap implements this specification (HeapProofs).                        *)
(***************************************************************************)
EXTENDS Naturals

CONSTANT HEAP_SIZE      \* bytes of the arena

VARIABLE regions        \* the regions handed out: [start, length, wanted]

\* A region in the arena that is as long as its holder may use it.
Sound(r) ==
    /\ r \in [start : Nat, length : Nat, wanted : Nat]
    /\ 0 < r.wanted
    /\ r.wanted <= r.length
    /\ r.start + r.length <= HEAP_SIZE

Disjoint(r, s) ==
    \/ r.start + r.length <= s.start
    \/ s.start + s.length <= r.start

Init == regions = {}

Obtain ==
    \E r \in regions' :
        /\ Sound(r)
        /\ \A s \in regions : Disjoint(r, s)
        /\ regions' = regions \cup {r}

Release == \E r \in regions : regions' = regions \ {r}

\* The holder of a region may use another number of its bytes.
Resize ==
    \E r \in regions, s \in regions' :
        /\ Sound(s)
        /\ s.start  = r.start
        /\ s.length = r.length
        /\ regions' = (regions \ {r}) \cup {s}

Next == Obtain \/ Release \/ Resize

Spec == Init /\ [][Next]_regions
=============================================================================
