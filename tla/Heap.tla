-------------------------------- MODULE Heap --------------------------------
(***************************************************************************)
(* The heap of flyos_mem.c: a doubly linked list of blocks, each with its  *)
(* header in front, that cover the arena; first fit, splitting, merging    *)
(* with both neighbours.  A block is the address of its header.  The       *)
(* search for a block is modelled iteration by iteration: it runs in the   *)
(* critical section of its call, so nothing else happens until it returns. *)
(* flyos_mem_realloc consists of three critical sections, between which    *)
(* other tasks may call.                                                   *)
(*                                                                         *)
(* Callers keep to flyos_mem.h: they free only what they hold, and once.   *)
(* The magic numbers, which detect callers that do not, are left out, and  *)
(* so are the counters of calls.                                           *)
(***************************************************************************)
EXTENDS Integers, FiniteSets, FiniteSetsExt

CONSTANTS
    Task,           \* the tasks that call
    NoTask,         \* nobody
    HEAP_SIZE,      \* FLYOS_HEAP_SIZE
    HEADER,         \* MEM_BLOCK_HEADER_SIZE
    MIN_BLOCK,      \* MEM_BLOCK_MIN_SIZE
    ALIGNMENT,      \* FLYOS_MEM_ALIGNMENT
    WORD,           \* 2^32, the number of values of flyos_u32_t
    Sizes,          \* the sizes that callers ask for
    Counts          \* the element counts that callers of calloc ask for

ASSUME HeapAssumption ==
    /\ NoTask    \notin Task
    /\ HEAP_SIZE \in Nat
    /\ HEADER    \in Nat \ {0}
    /\ HEADER    < HEAP_SIZE
    /\ HEAP_SIZE < WORD
    /\ MIN_BLOCK \in Nat
    /\ ALIGNMENT \in Nat \ {0}
    /\ WORD      \in Nat
    /\ Sizes     \subseteq 1..(WORD - 1)
    /\ Counts    \subseteq 1..(WORD - 1)

VARIABLES
    next, prev,     \* mem_block_t.next and prev
    size, used,     \* mem_block_t.size and used
    finder,         \* the task whose find_first_fit is in progress
    cur,            \* its variable current
    need,           \* the size of block it looks for
    pc,             \* what each task does: see TypeOK
    ask,            \* the number of bytes its call is about
    old,            \* flyos_mem_realloc: ptr
    oldSize,        \* flyos_mem_realloc: old_size
    new,            \* flyos_mem_realloc: new_ptr
    usedSize,       \* mem_stats.used_size
    freeSize,       \* mem_stats.free_size
    fragments,      \* mem_stats.fragment_count
    chain,          \* history: the blocks in the list
    wanted          \* history: how many bytes of a block its holder may use,
                    \* 0 if nobody holds it

blockVars == <<next, prev, size, used, chain>>
searchVars == <<finder, cur, need>>
callVars   == <<pc, ask, old, oldSize, new>>
statVars   == <<usedSize, freeSize, fragments>>
vars == <<blockVars, searchVars, callVars, statVars, wanted>>

Addr == 0..(HEAP_SIZE - 1)

\* The null pointer, which is no address of a block.
NULL == HEAP_SIZE

Link == 0..HEAP_SIZE

TypeOK ==
    /\ next    \in [Addr -> Link]
    /\ prev    \in [Addr -> Link]
    /\ size    \in [Addr -> 0..HEAP_SIZE]
    /\ used    \in [Addr -> BOOLEAN]
    /\ finder  \in Task \cup {NoTask}
    /\ cur     \in Link
    /\ need    \in 0..(WORD - 1)
    /\ pc      \in [Task -> {"idle", "alloc", "realloc", "copy"}]
    /\ ask     \in [Task -> Nat]
    /\ old     \in [Task -> Addr]
    /\ oldSize \in [Task -> Int]
    /\ new     \in [Task -> Addr]
    /\ usedSize  \in Int
    /\ freeSize  \in Int
    /\ fragments \in Int
    /\ chain   \subseteq Addr
    /\ wanted  \in [Addr -> Nat]

-----------------------------------------------------------------------------
(* Sizes                                                                   *)

\* align_size in 32-bit arithmetic.
align_size(n) == (((n + ALIGNMENT - 1) % WORD) \div ALIGNMENT) * ALIGNMENT

\* A mutant: the header is forgotten.
MutantNoHeader(n) == align_size(n) % WORD

\* The size of the block for a request of n bytes.
BlockSize(n) == (align_size(n) + HEADER) % WORD

\* A mutant: the overflow check of calloc is missing.
MutantOverflows(count, n) == FALSE

\* calloc refuses a product that flyos_u32_t cannot hold.
Overflows(count, n) == count > 0 /\ n > (WORD - 1) \div count

-----------------------------------------------------------------------------
(* The blocks                                                              *)

Held == {b \in Addr : wanted[b] > 0}

\* What a call of realloc still works on: nobody else may free it.
InUse(t) ==
    CASE pc[t] = "realloc" -> {old[t]}
      [] pc[t] = "copy"    -> {old[t], new[t]}
      [] OTHER             -> {}

Releasable == Held \ UNION {InUse(t) : t \in Task}

IsFree(b) == b # NULL /\ ~used[b]

Fits(b) == ~used[b] /\ size[b] >= need

Remaining == size[cur] - need

Splits == Remaining >= HEADER + MIN_BLOCK

\* A mutant: the size of the block that is split stays as it was.
MutantSplit ==
    LET rest == cur + need IN
    IF Splits
    THEN /\ next'  = [next EXCEPT ![rest] = next[cur], ![cur] = rest]
         /\ prev'  = [prev EXCEPT ![rest] = cur]
         /\ size'  = [size EXCEPT ![rest] = Remaining]
         /\ used'  = [used EXCEPT ![rest] = FALSE, ![cur] = TRUE]
         /\ chain' = chain \cup {rest}
         /\ fragments' = fragments + 1
    ELSE /\ used' = [used EXCEPT ![cur] = TRUE]
         /\ UNCHANGED <<next, prev, size, chain, fragments>>

\* A mutant: the block after the one that is split keeps its link to it.
MutantPrev ==
    LET rest == cur + need IN
    IF Splits
    THEN /\ next'  = [next EXCEPT ![rest] = next[cur], ![cur] = rest]
         /\ prev'  = [prev EXCEPT ![rest] = cur]
         /\ size'  = [size EXCEPT ![rest] = Remaining, ![cur] = need]
         /\ used'  = [used EXCEPT ![rest] = FALSE, ![cur] = TRUE]
         /\ chain' = chain \cup {rest}
         /\ fragments' = fragments + 1
    ELSE /\ used' = [used EXCEPT ![cur] = TRUE]
         /\ UNCHANGED <<next, prev, size, chain, fragments>>

\* split_block: the rest becomes a free block if it is large enough.
SplitAndUse ==
    LET rest == cur + need IN
    IF Splits
    THEN /\ next'  = [next EXCEPT ![rest] = next[cur], ![cur] = rest]
         /\ prev'  = [b \in Addr |-> CASE b = rest      -> cur
                                      [] b = next[cur] -> rest
                                      [] OTHER         -> prev[b]]
         /\ size'  = [size EXCEPT ![rest] = Remaining, ![cur] = need]
         /\ used'  = [used EXCEPT ![rest] = FALSE, ![cur] = TRUE]
         /\ chain' = chain \cup {rest}
         /\ fragments' = fragments + 1
    ELSE /\ used' = [used EXCEPT ![cur] = TRUE]
         /\ UNCHANGED <<next, prev, size, chain, fragments>>

\* A mutant: a block is merged with the block after it only.
MutantMerged(b) == {c \in {next[b]} : IsFree(c)}

\* The blocks that leave the list when b is released: the one after it, and b
\* itself when there is a free block before it.
Merged(b) ==
    {c \in {next[b]} : IsFree(c)} \cup {c \in {b} : IsFree(prev[b])}

\* flyos_mem_free with merge_free_blocks.  The headers of merged blocks stay in
\* memory, where nothing reads them: the model forgets them.
Release(b) ==
    LET gone  == Merged(b)
        first == IF b \in gone THEN prev[b] ELSE b
        after == IF next[b] \in gone THEN next[next[b]] ELSE next[b]
        whole == (IF b \in gone THEN size[prev[b]] ELSE 0)
                    + size[b]
                    + (IF next[b] \in gone THEN size[next[b]] ELSE 0)
    IN  /\ used' = [used EXCEPT ![b] = FALSE]
        /\ size' = [c \in Addr |-> CASE c = first    -> whole
                                     [] c \in gone -> 0
                                     [] OTHER      -> size[c]]
        /\ next' = [c \in Addr |-> CASE c = first    -> after
                                     [] c \in gone -> 0
                                     [] OTHER      -> next[c]]
        /\ prev' = [c \in Addr |-> CASE c = after    -> first
                                     [] c \in gone -> 0
                                     [] OTHER      -> prev[c]]
        /\ chain' = chain \ gone
        /\ fragments' = fragments - Cardinality(gone)
        /\ usedSize'  = usedSize - size[b]
        /\ freeSize'  = freeSize + size[b]
        /\ wanted'    = [wanted EXCEPT ![b] = 0]

-----------------------------------------------------------------------------

\* flyos_mem_init: one free block.  The array heap_memory is zero before that.
Init ==
    /\ next  = [b \in Addr |-> IF b = 0 THEN NULL ELSE 0]
    /\ prev  = [b \in Addr |-> IF b = 0 THEN NULL ELSE 0]
    /\ size  = [b \in Addr |-> IF b = 0 THEN HEAP_SIZE ELSE 0]
    /\ used  = [b \in Addr |-> FALSE]
    /\ chain = {0}
    /\ finder = NoTask
    /\ cur  = 0
    /\ need = 0
    /\ pc   = [t \in Task |-> "idle"]
    /\ ask  = [t \in Task |-> 0]
    /\ old  = [t \in Task |-> 0]
    /\ oldSize = [t \in Task |-> 0]
    /\ new  = [t \in Task |-> 0]
    /\ usedSize  = HEADER
    /\ freeSize  = HEAP_SIZE - HEADER
    /\ fragments = 1
    /\ wanted = [b \in Addr |-> 0]

\* A call has returned: its local variables are gone.
Return(t) ==
    /\ pc'  = [pc  EXCEPT ![t] = "idle"]
    /\ ask' = [ask EXCEPT ![t] = 0]
    /\ old' = [old EXCEPT ![t] = 0]
    /\ oldSize' = [oldSize EXCEPT ![t] = 0]
    /\ new' = [new EXCEPT ![t] = 0]

EndSearch ==
    /\ finder' = NoTask
    /\ cur'    = 0
    /\ need'   = 0

\* flyos_mem_alloc enters its critical section and begins its search.
Search(t, n) ==
    /\ finder  = NoTask
    /\ finder' = t
    /\ cur'    = 0
    /\ need'   = BlockSize(n)

\* flyos_mem_alloc; a size of 0 gets NULL and changes nothing.
Alloc(t, n) ==
    /\ pc[t] = "idle"
    /\ Search(t, n)
    /\ pc'  = [pc EXCEPT ![t] = "alloc"]
    /\ ask' = [ask EXCEPT ![t] = n]
    /\ UNCHANGED <<blockVars, old, oldSize, new, statVars, wanted>>

\* flyos_mem_calloc: the caller will use count * n bytes, whatever the
\* product is in 32 bits.
Calloc(t, count, n) ==
    /\ pc[t] = "idle"
    /\ ~Overflows(count, n)
    /\ (count * n) % WORD # 0
    /\ Search(t, (count * n) % WORD)
    /\ pc'  = [pc EXCEPT ![t] = "alloc"]
    /\ ask' = [ask EXCEPT ![t] = count * n]
    /\ UNCHANGED <<blockVars, old, oldSize, new, statVars, wanted>>

\* A mutant: a block that fits exactly is passed.
MutantFindPass ==
    /\ finder # NoTask
    /\ cur # NULL
    /\ used[cur] \/ size[cur] <= need
    /\ cur' = next[cur]
    /\ UNCHANGED <<blockVars, finder, need, callVars, statVars, wanted>>

\* find_first_fit, one iteration.
FindPass ==
    /\ finder # NoTask
    /\ cur # NULL
    /\ ~Fits(cur)
    /\ cur' = next[cur]
    /\ UNCHANGED <<blockVars, finder, need, callVars, statVars, wanted>>

\* No block fits: NULL.  The block that realloc was called with stays.
FindFail ==
    /\ finder # NoTask
    /\ cur = NULL
    /\ EndSearch
    /\ Return(finder)
    /\ UNCHANGED <<blockVars, statVars, wanted>>

\* A mutant: the statistics count the block as it was before the split.
MutantFindTake ==
    /\ finder # NoTask
    /\ cur # NULL
    /\ Fits(cur)
    /\ SplitAndUse
    /\ usedSize' = usedSize + size[cur]
    /\ freeSize' = freeSize - size[cur]
    /\ wanted'   = [wanted EXCEPT ![cur] = ask[finder]]
    /\ EndSearch
    /\ pc[finder] = "alloc"
    /\ Return(finder)

\* A block fits: it is split and handed out.
FindTake ==
    /\ finder # NoTask
    /\ cur # NULL
    /\ Fits(cur)
    /\ SplitAndUse
    /\ usedSize' = usedSize + size'[cur]
    /\ freeSize' = freeSize - size'[cur]
    /\ wanted'   = [wanted EXCEPT ![cur] = ask[finder]]
    /\ EndSearch
    /\ \/ /\ pc[finder] = "alloc"
          /\ Return(finder)
       \/ /\ pc[finder] = "realloc"
          /\ pc'  = [pc  EXCEPT ![finder] = "copy"]
          /\ new' = [new EXCEPT ![finder] = cur]
          /\ UNCHANGED <<ask, old, oldSize>>

\* flyos_mem_free.
Free(t, b) ==
    /\ finder = NoTask
    /\ pc[t] = "idle"
    /\ b \in Releasable
    /\ Release(b)
    /\ UNCHANGED <<searchVars, callVars>>

\* flyos_mem_realloc with a size that the block already has.
ReallocKeep(t, b, n) ==
    /\ finder = NoTask
    /\ pc[t] = "idle"
    /\ b \in Releasable
    /\ n <= size[b] - HEADER
    /\ wanted' = [wanted EXCEPT ![b] = n]
    /\ UNCHANGED <<blockVars, searchVars, callVars, statVars>>

\* flyos_mem_realloc up to the end of its own critical section.
ReallocBegin(t, b, n) ==
    /\ finder = NoTask
    /\ pc[t] = "idle"
    /\ b \in Releasable
    /\ n > size[b] - HEADER
    /\ pc'  = [pc EXCEPT ![t] = "realloc"]
    /\ ask' = [ask EXCEPT ![t] = n]
    /\ old' = [old EXCEPT ![t] = b]
    /\ oldSize' = [oldSize EXCEPT ![t] = size[b] - HEADER]
    /\ UNCHANGED <<blockVars, searchVars, new, statVars, wanted>>

\* A mutant: the old block is given back before a new one has been found.
MutantReallocAlloc(t) ==
    /\ pc[t] = "realloc"
    /\ Search(t, ask[t])
    /\ Release(old[t])
    /\ UNCHANGED callVars

\* It calls flyos_mem_alloc.
ReallocAlloc(t) ==
    /\ pc[t] = "realloc"
    /\ Search(t, ask[t])
    /\ UNCHANGED <<blockVars, callVars, statVars, wanted>>

\* It has copied oldSize bytes and frees the old block.
ReallocFree(t) ==
    /\ finder = NoTask
    /\ pc[t] = "copy"
    /\ Release(old[t])
    /\ Return(t)
    /\ UNCHANGED searchVars

Find == FindPass \/ FindFail \/ FindTake

Call(t) ==
    \/ \E n \in Sizes : Alloc(t, n)
    \/ \E count \in Counts, n \in Sizes : Calloc(t, count, n)
    \/ \E b \in Addr : Free(t, b)
    \/ \E b \in Addr, n \in Sizes : ReallocKeep(t, b, n) \/ ReallocBegin(t, b, n)
    \/ ReallocAlloc(t)
    \/ ReallocFree(t)

Next == Find \/ \E t \in Task : Call(t)

Spec == Init /\ [][Next]_vars

-----------------------------------------------------------------------------
(* Properties                                                              *)

\* No size a caller asks for wraps around in 32 bits when it is aligned and
\* the header is added; a product that flyos_u32_t cannot hold may be asked
\* for.
NoWrap ==
    /\ \A n \in Sizes : n + ALIGNMENT - 1 + HEADER < WORD
    /\ \A count \in Counts, n \in Sizes :
          \/ count * n + ALIGNMENT - 1 + HEADER < WORD
          \/ count * n >= WORD

\* The blocks in the list cover the arena without gap or overlap, and the
\* links go to the neighbours, after any sequence of splits and merges.
BlocksTile ==
    /\ 0 \in chain
    /\ prev[0] = NULL
    /\ \A b \in chain :
        /\ size[b] >= HEADER
        /\ next[b] = b + size[b]
        /\ next[b] # NULL => next[b] \in chain /\ prev[next[b]] = b
        /\ prev[b] # NULL => prev[b] \in chain /\ next[prev[b]] = b
        /\ b # 0 => prev[b] # NULL
    /\ \A b, c \in chain : b < c => b + size[b] <= c

\* Merging is complete: no two neighbours are free (lines 100-127).
Coalesced == \A b \in chain : ~used[b] /\ next[b] # NULL => used[next[b]]

\* The used blocks of the list are those that somebody holds, and each is as
\* long as its holder may use it: nothing is handed out twice or lost.
HoldersSafe ==
    /\ \A b \in chain : used[b] <=> wanted[b] > 0
    /\ \A b \in Held : b \in chain /\ wanted[b] <= size[b] - HEADER

\* When everything has been given back, the arena is one free block again,
\* whatever the order of the calls was.
EmptyIsWhole == Held = {} => chain = {0} /\ size[0] = HEAP_SIZE /\ ~used[0]

\* A block that the search has left behind does not fit: a failing call had no
\* block to take, and the first block that fits is taken.
FirstFit ==
    finder # NoTask =>
        /\ cur \in chain \cup {NULL}
        /\ \A b \in chain : b < cur => ~Fits(b)

\* Between the critical sections of realloc other tasks may call, and still
\* the old block is there with its old size, and the copy fits into the new.
CopySafe ==
    /\ \A t \in Task : pc[t] \in {"realloc", "copy"} =>
        /\ old[t] \in Held
        /\ oldSize[t] = size[old[t]] - HEADER
    /\ \A t \in Task : pc[t] = "copy" =>
        /\ new[t] \in Held
        /\ new[t] # old[t]
        /\ oldSize[t] <= size[new[t]] - HEADER

\* The sum of s over the elements of S.
Total(s, S) == MapThenSumSet(LAMBDA b : s[b], S)

\* mem_stats agrees with the list.  used_size begins at the size of a header,
\* and fragment_count counts all blocks.
StatsExact ==
    /\ usedSize = HEADER + Total(size, {b \in chain : used[b]})
    /\ usedSize + freeSize = HEAP_SIZE
    /\ fragments = Cardinality(chain)

\* No two calls work on the same block.
CallsApart ==
    /\ \A t, u \in Task : t # u => InUse(t) \cap InUse(u) = {}
    /\ finder # NoTask => pc[finder] \in {"alloc", "realloc"} /\ ask[finder] > 0
    /\ finder # NoTask => need >= ask[finder] + HEADER
    /\ \A t \in Task : pc[t] = "alloc" => t = finder
    /\ \A t \in Task : pc[t] = "realloc" =>
        /\ ask[t] > oldSize[t]
        /\ ask[t] > 0
        /\ ask[t] + ALIGNMENT - 1 + HEADER < WORD

\* The inductive invariant.
IInv ==
    /\ TypeOK
    /\ BlocksTile
    /\ Coalesced
    /\ HoldersSafe
    /\ FirstFit
    /\ CopySafe
    /\ CallsApart

\* The heap implements the abstract allocator: what is handed out lies in the
\* arena, is disjoint and long enough.
Abstract == INSTANCE Allocator WITH
    regions <- {[start  |-> b + HEADER,
                 length |-> size[b] - HEADER,
                 wanted |-> wanted[b]] : b \in Held}
AllocatorSpec == Abstract!Spec
=============================================================================
