----------------------------- MODULE HeapProofs -----------------------------
(***************************************************************************)
(* The heap of flyos_mem.c with any number of tasks, any arena and any     *)
(* sizes that do not wrap around: its blocks always cover the arena, free  *)
(* neighbours are merged, holders are kept apart, and it implements the    *)
(* abstract allocator.                                                     *)
(***************************************************************************)
EXTENDS Heap, FiniteSetTheorems, WellFoundedInduction, TLAPS

-----------------------------------------------------------------------------
(* Sizes                                                                   *)

\* A remainder is smaller than the divisor, and a small number is its own.
LEMMA Remainders ==
    ASSUME NEW n \in Int, NEW m \in Nat \ {0}
    PROVE  n % m \in 0..(m - 1) /\ (n \in 0..(m - 1) => n % m = n)
  OBVIOUS

\* Rounding down to a multiple loses less than the divisor.
LEMMA Quotients ==
    ASSUME NEW n \in Nat, NEW m \in Nat \ {0}
    PROVE  /\ n \div m \in Nat
           /\ (n \div m) * m \in Nat
           /\ (n \div m) * m <= n
           /\ n < (n \div m) * m + m
  OBVIOUS

\* align_size and the addition of the header.
LEMMA BlockSizeFacts ==
    ASSUME NEW n \in Nat
    PROVE  /\ BlockSize(n) \in 0..(WORD - 1)
           /\ n + ALIGNMENT - 1 + HEADER < WORD => BlockSize(n) >= n + HEADER
<1> USE HeapAssumption
<1> DEFINE x == n + ALIGNMENT - 1
<1>1. x \in Nat /\ WORD \in Nat \ {0} /\ HEADER \in Nat /\ ALIGNMENT \in Nat \ {0}
  OBVIOUS
<1>0. x % WORD = (n + ALIGNMENT - 1) % WORD
  OBVIOUS
<1> HIDE DEF x
<1>2. x % WORD \in Nat /\ (x < WORD => x % WORD = x)
  BY <1>1, Remainders
<1> DEFINE y == x % WORD
           a == (y \div ALIGNMENT) * ALIGNMENT
           z == a + HEADER
<1>3. a \in Nat /\ a <= y /\ y < a + ALIGNMENT
  BY <1>1, <1>2, Quotients
<1>4. BlockSize(n) = z % WORD
  BY <1>0 DEF BlockSize, align_size
<1>5. x + HEADER < WORD => y = x
  BY <1>1, <1>2
<1> HIDE DEF a, y
<1>6. z \in Nat
  BY <1>1, <1>3
<1>7. z = a + HEADER
  OBVIOUS
<1> HIDE DEF z
<1>8. z % WORD \in 0..(WORD - 1) /\ (z < WORD => z % WORD = z)
  <2>1. z \in Int /\ WORD \in Nat \ {0} /\ z >= 0
    BY <1>1, <1>6
  <2>2. z % WORD \in 0..(WORD - 1) /\ (z \in 0..(WORD - 1) => z % WORD = z)
    BY <2>1, Remainders
  <2>3. QED
    BY <2>1, <2>2
<1>9. x = n + ALIGNMENT - 1
  BY DEF x
<1>10. QED
  BY <1>1, <1>3, <1>4, <1>5, <1>7, <1>8, <1>9

\* Multiplication is monotonic.
LEMMA Products ==
    ASSUME NEW n \in Nat, NEW m \in Nat, NEW c \in Nat, n <= m
    PROVE  n * c <= m * c
<1>1. (m - n) * c >= 0
  OBVIOUS
<1>2. QED
  BY <1>1

\* A product that calloc accepts fits into flyos_u32_t.
LEMMA ProductFits ==
    ASSUME NEW count \in Nat \ {0}, NEW n \in Nat, ~Overflows(count, n)
    PROVE  count * n \in Nat /\ count * n < WORD
<1> DEFINE q == (WORD - 1) \div count
<1>1. WORD \in Nat /\ WORD - 1 \in Nat
  BY HeapAssumption
<1>2. q \in Nat /\ q * count \in Nat /\ q * count <= WORD - 1
  BY <1>1, Quotients
<1>3. n <= q
  BY <1>2 DEF Overflows
<1>6. count \in Nat /\ n \in Nat
  OBVIOUS
<1> HIDE DEF q
<1>4. n * count <= q * count
  BY <1>2, <1>3, <1>6, Products
<1>5. count * n = n * count /\ n * count \in Nat
  BY <1>6
<1> DEFINE u == n * count
           v == q * count
<1>7. u <= v /\ v <= WORD - 1 /\ u \in Nat /\ count * n = u /\ v \in Int
  BY <1>2, <1>4, <1>5, <1>6
<1> HIDE DEF u, v
<1>8. QED
  BY <1>1, <1>7

-----------------------------------------------------------------------------
(* Blocks                                                                  *)

\* The types of the blocks and of the history.
BlockTypes ==
    /\ next    \in [Addr -> Link]
    /\ prev    \in [Addr -> Link]
    /\ size    \in [Addr -> 0..HEAP_SIZE]
    /\ used    \in [Addr -> BOOLEAN]
    /\ chain   \subseteq Addr
    /\ wanted  \in [Addr -> Nat]

\* What the calls preserve of the blocks and of those who hold them.
Blocks == BlockTypes /\ BlocksTile /\ Coalesced /\ HoldersSafe

\* The arena, its addresses and the null pointer.
LEMMA Arena ==
    /\ HEAP_SIZE \in Nat /\ HEADER \in Nat /\ HEADER > 0 /\ HEADER < HEAP_SIZE
    /\ NULL = HEAP_SIZE
    /\ \A a : a \in Addr <=> a \in Nat /\ a < HEAP_SIZE
    /\ \A a : a \in Link <=> a \in Nat /\ a <= HEAP_SIZE
  BY HeapAssumption DEF NULL, Addr, Link

\* The neighbours of a block that somebody holds, and what is left of the list
\* when it is released: first takes the place of b and the blocks in gone.
LEMMA ReleaseShape ==
    ASSUME Blocks, NEW b \in Held,
           NEW gone, gone = Merged(b),
           NEW first, first = IF b \in gone THEN prev[b] ELSE b,
           NEW after, after = IF next[b] \in gone THEN next[next[b]] ELSE next[b],
           NEW whole, whole = (IF b \in gone THEN size[prev[b]] ELSE 0)
                                + size[b]
                                + (IF next[b] \in gone THEN size[next[b]] ELSE 0)
    PROVE  /\ b \in chain /\ used[b]
           /\ gone \subseteq chain
           /\ \A c \in gone : c = b \/ ~used[c]
           /\ first \in chain \ gone
           /\ first = b \/ ~used[first]
           /\ first <= b
           /\ after \in Link
           /\ b < after
           /\ after # NULL => after \in chain \ gone /\ used[after]
           /\ prev[first] # NULL => used[prev[first]]
           /\ whole \in Nat /\ after = first + whole /\ whole >= HEADER
           /\ \A c \in chain \ gone : c < first => c + size[c] <= first
           /\ \A c \in chain \ gone : c > first => c >= after
<1> USE Arena
<1>1. /\ b \in Addr /\ b \in chain /\ used[b]
      /\ \A c \in chain : c \in Nat /\ c < HEAP_SIZE /\ size[c] \in Nat
                          /\ next[c] \in Nat /\ prev[c] \in Nat
                          /\ prev[c] <= HEAP_SIZE /\ next[c] <= HEAP_SIZE
  BY DEF Blocks, BlockTypes, HoldersSafe, Held
<1>2. \A c : c \in gone <=> \/ c = next[b] /\ IsFree(c)
                            \/ c = b /\ IsFree(prev[b])
  BY DEF Merged
<1>3. /\ size[b] >= HEADER
      /\ next[b] = b + size[b]
      /\ next[b] # NULL => next[b] \in chain /\ prev[next[b]] = b
      /\ prev[b] # NULL => prev[b] \in chain /\ next[prev[b]] = b
  BY <1>1 DEF Blocks, BlocksTile
<1>4. /\ IsFree(next[b]) => /\ next[b] \in chain /\ ~used[next[b]]
                            /\ next[next[b]] = next[b] + size[next[b]]
                            /\ size[next[b]] >= HEADER
                            /\ next[next[b]] # NULL => /\ next[next[b]] \in chain
                                                       /\ used[next[next[b]]]
      /\ IsFree(prev[b]) => /\ prev[b] \in chain /\ ~used[prev[b]]
                            /\ b = prev[b] + size[prev[b]]
                            /\ size[prev[b]] >= HEADER
                            /\ prev[prev[b]] # NULL => used[prev[prev[b]]]
  BY <1>1, <1>3 DEF Blocks, BlocksTile, Coalesced, IsFree
<1>5. next[b] # b /\ (b \in gone <=> IsFree(prev[b]))
      /\ (next[b] \in gone <=> IsFree(next[b]))
  BY <1>1, <1>2, <1>3
<1>6. \A c, d \in chain : c < d => c + size[c] <= d
  BY DEF Blocks, BlocksTile
<1>7. ~IsFree(prev[b]) /\ prev[b] # NULL => used[prev[b]]
  BY DEF IsFree
<1>8. ~IsFree(next[b]) /\ next[b] # NULL => used[next[b]]
  BY DEF IsFree
<1>9. CASE IsFree(prev[b]) /\ IsFree(next[b])
  BY <1>1, <1>2, <1>3, <1>4, <1>5, <1>6, <1>9
<1>10. CASE IsFree(prev[b]) /\ ~IsFree(next[b])
  BY <1>1, <1>2, <1>3, <1>4, <1>5, <1>6, <1>8, <1>10
<1>11. CASE ~IsFree(prev[b]) /\ IsFree(next[b])
  BY <1>1, <1>2, <1>3, <1>4, <1>5, <1>6, <1>7, <1>11
<1>12. CASE ~IsFree(prev[b]) /\ ~IsFree(next[b])
  BY <1>1, <1>2, <1>3, <1>4, <1>5, <1>6, <1>7, <1>8, <1>12
<1>13. QED
  BY <1>9, <1>10, <1>11, <1>12

\* Releasing a block keeps the arena covered and the others' blocks as they are.
LEMMA ReleaseStep ==
    ASSUME Blocks, NEW b \in Held, Release(b)
    PROVE  /\ Blocks'
           /\ Held' = Held \ {b}
           /\ \A c \in Held \ {b} : size'[c] = size[c] /\ wanted'[c] = wanted[c]
<1> DEFINE gone  == Merged(b)
           first == IF b \in gone THEN prev[b] ELSE b
           after == IF next[b] \in gone THEN next[next[b]] ELSE next[b]
           whole == (IF b \in gone THEN size[prev[b]] ELSE 0)
                       + size[b]
                       + (IF next[b] \in gone THEN size[next[b]] ELSE 0)
<1>1. /\ used' = [used EXCEPT ![b] = FALSE]
      /\ size' = [c \in Addr |-> CASE c = first  -> whole
                                   [] c \in gone -> 0
                                   [] OTHER      -> size[c]]
      /\ next' = [c \in Addr |-> CASE c = first  -> after
                                   [] c \in gone -> 0
                                   [] OTHER      -> next[c]]
      /\ prev' = [c \in Addr |-> CASE c = after  -> first
                                   [] c \in gone -> 0
                                   [] OTHER      -> prev[c]]
      /\ chain' = chain \ gone
      /\ wanted' = [wanted EXCEPT ![b] = 0]
  BY DEF Release
<1>2. /\ b \in chain /\ used[b]
      /\ gone \subseteq chain
      /\ \A c \in gone : c = b \/ ~used[c]
      /\ first \in chain \ gone
      /\ first = b \/ ~used[first]
      /\ first <= b
      /\ after \in Link
      /\ b < after
      /\ after # NULL => after \in chain \ gone /\ used[after]
      /\ prev[first] # NULL => used[prev[first]]
      /\ whole \in Nat /\ after = first + whole /\ whole >= HEADER
      /\ \A c \in chain \ gone : c < first => c + size[c] <= first
      /\ \A c \in chain \ gone : c > first => c >= after
  BY ReleaseShape
<1> HIDE DEF gone, first, after, whole
<1>3. BlockTypes
  BY DEF Blocks
<1>4. /\ b \in Addr /\ first \in Addr /\ chain \subseteq Addr
      /\ \A c \in gone : c \in Addr
  BY <1>2, <1>3 DEF BlockTypes
<1>5. after \in Nat /\ after <= HEAP_SIZE /\ first \in Nat /\ whole <= HEAP_SIZE
  BY <1>2, <1>4, Arena
<1>6. \A c \in chain' :
        /\ c \in chain /\ c \notin gone /\ c \in Addr /\ c \in Nat /\ c < HEAP_SIZE
        /\ size'[c] = IF c = first THEN whole ELSE size[c]
        /\ next'[c] = IF c = first THEN after ELSE next[c]
        /\ prev'[c] = IF c = after THEN first ELSE prev[c]
        /\ used'[c] <=> used[c] /\ c # b
        /\ wanted'[c] = IF c = b THEN 0 ELSE wanted[c]
        /\ size[c] \in Nat
  BY <1>1, <1>3, <1>4, Arena DEF BlockTypes
<1>7. BlockTypes'
  <2>1. next' \in [Addr -> Link]
    BY <1>1, <1>2, <1>3, Arena DEF BlockTypes
  <2>2. prev' \in [Addr -> Link]
    <3>1. first \in Link /\ 0 \in Link
      BY <1>4, Arena
    <3>2. QED
      BY <1>1, <1>3, <3>1 DEF BlockTypes
  <2>3. size' \in [Addr -> 0..HEAP_SIZE]
    BY <1>1, <1>2, <1>3, <1>5, Arena DEF BlockTypes
  <2>4. used' \in [Addr -> BOOLEAN]
    BY <1>1, <1>3 DEF BlockTypes
  <2>5. chain' \subseteq Addr
    BY <1>1, <1>4
  <2>6. wanted' \in [Addr -> Nat]
    BY <1>1, <1>3 DEF BlockTypes
  <2>7. QED
    BY <2>1, <2>2, <2>3, <2>4, <2>5, <2>6 DEF BlockTypes
<1>8. /\ 0 \in chain /\ prev[0] = NULL
      /\ \A c \in chain :
          /\ size[c] >= HEADER
          /\ next[c] = c + size[c]
          /\ next[c] # NULL => next[c] \in chain /\ prev[next[c]] = c
          /\ prev[c] # NULL => prev[c] \in chain /\ next[prev[c]] = c
          /\ c # 0 => prev[c] # NULL
      /\ \A c, d \in chain : c < d => c + size[c] <= d
  BY DEF Blocks, BlocksTile
<1>9. \A c \in chain' : c < first \/ c = first \/ c >= after
  BY <1>2, <1>5, <1>6
<1>10. BlocksTile'
  <2>1. 0 \in chain' /\ prev'[0] = NULL
    <3>1. 0 \in chain /\ 0 \in Addr
      BY <1>8, Arena
    <3>2. first = 0 \/ first > 0
      BY <1>5
    <3>3. after # 0
      BY <1>2, <1>4, <1>5, Arena
    <3>4. CASE first = 0
      BY <1>1, <1>2, <1>6, <1>8, <3>3, <3>4
    <3>5. CASE first > 0 /\ 0 \in gone
      \* The block 0 has nothing before it, so it is merged only as a successor.
      <4>1. 0 = b \/ 0 = next[b]
        BY <3>5 DEF gone, Merged
      <4>2. next[b] > b
        BY <1>2, <1>3, <1>4, <1>8, Arena DEF BlockTypes
      <4>3. b = 0
        BY <4>1, <4>2, <1>4, Arena
      <4>4. QED
        BY <4>3, <1>2, <1>5, <3>5
    <3>6. CASE 0 \notin gone
      BY <1>1, <1>6, <1>8, <3>1, <3>3, <3>6
    <3>7. QED
      BY <3>2, <3>4, <3>5, <3>6
  <2>2. \A c \in chain' : size'[c] >= HEADER /\ next'[c] = c + size'[c]
    BY <1>2, <1>6, <1>8
  <2>3. \A c, d \in chain' : c < d => c + size'[c] <= d
    BY <1>2, <1>5, <1>6, <1>8
  <2>4. \A c \in chain' : next'[c] # NULL => next'[c] \in chain' /\ prev'[next'[c]] = c
    <3> SUFFICES ASSUME NEW c \in chain', next'[c] # NULL
                 PROVE  next'[c] \in chain' /\ prev'[next'[c]] = c
      OBVIOUS
    <3>1. CASE c = first
      BY <1>1, <1>2, <1>6, <3>1
    <3>2. CASE c # first
      <4>1. next'[c] = next[c] /\ next[c] \in chain /\ prev[next[c]] = c
            /\ next[c] = c + size[c]
        BY <1>6, <1>8, <3>2
      <4>2. c < first \/ c >= after
        BY <1>9, <3>2
      <4>3. next[c] # after
        BY <1>2, <1>5, <1>6, <1>8, <4>1, <4>2, Arena
      <4>4. next[c] \notin gone
        <5>1. SUFFICES ASSUME next[c] \in gone PROVE FALSE
          OBVIOUS
        <5>2. next[c] = b \/ next[c] = next[b]
          BY <5>1 DEF gone, Merged
        <5>3. CASE next[c] = b
          <6>1. b \in gone /\ prev[b] = c
            BY <5>1, <5>3, <4>1
          <6>2. first = c
            BY <6>1 DEF first
          <6>3. QED
            BY <6>2, <3>2
        <5>4. CASE next[c] = next[b]
          <6>1. next[b] # NULL
            BY <4>1, <5>4
          <6>2. prev[next[b]] = b
            BY <6>1, <1>2, <1>8
          <6>3. c = b
            BY <5>4, <4>1, <6>2
          <6>4. b \notin gone
            BY <6>3, <1>6
          <6>5. QED
            BY <6>3, <6>4, <3>2 DEF first
        <5>5. QED
          BY <5>2, <5>3, <5>4
      <4>5. QED
        BY <4>1, <4>3, <4>4, <1>1, <1>6
    <3>3. QED
      BY <3>1, <3>2
  <2>5. \A c \in chain' : c # 0 => prev'[c] # NULL
    BY <1>4, <1>6, <1>8, Arena
  <2>6. \A c \in chain' : prev'[c] # NULL => prev'[c] \in chain' /\ next'[prev'[c]] = c
    <3> SUFFICES ASSUME NEW c \in chain', prev'[c] # NULL
                 PROVE  prev'[c] \in chain' /\ next'[prev'[c]] = c
      OBVIOUS
    <3>1. CASE c = after
      BY <1>1, <1>2, <1>6, <3>1
    <3>2. CASE c # after
      <4>1. prev'[c] = prev[c] /\ prev[c] \in chain /\ next[prev[c]] = c
            /\ c = prev[c] + size[prev[c]]
        BY <1>6, <1>8, <3>2
      <4>2. prev[c] # first
        <5>1. SUFFICES ASSUME prev[c] = first PROVE FALSE
          OBVIOUS
        <5>2. c = next[first] /\ c \notin gone
          BY <4>1, <5>1, <1>6
        <5>3. CASE b \in gone
          <6>1. first = prev[b]
            BY <5>3 DEF first
          <6>2. first # NULL
            BY <1>4, Arena
          <6>3. next[first] = b
            BY <6>1, <6>2, <1>2, <1>8
          <6>4. QED
            BY <6>3, <5>2, <5>3
        <5>4. CASE b \notin gone
          <6>1. first = b
            BY <5>4 DEF first
          <6>2. QED
            BY <6>1, <5>2, <3>2 DEF after
        <5>5. QED
          BY <5>3, <5>4
      <4>3. prev[c] \notin gone
        <5>1. SUFFICES ASSUME prev[c] \in gone PROVE FALSE
          OBVIOUS
        <5>2. prev[c] = b \/ prev[c] = next[b]
          BY <5>1 DEF gone, Merged
        <5>3. CASE prev[c] = b
          <6>1. c = next[b] /\ c \notin gone
            BY <5>3, <4>1, <1>6
          <6>2. QED
            BY <6>1, <3>2 DEF after
        <5>4. CASE prev[c] = next[b]
          <6>1. c = next[next[b]] /\ next[b] \in gone
            BY <5>1, <5>4, <4>1
          <6>2. QED
            BY <6>1, <3>2 DEF after
        <5>5. QED
          BY <5>2, <5>3, <5>4
      <4>4. QED
        BY <4>1, <4>2, <4>3, <1>1, <1>6
    <3>3. QED
      BY <3>1, <3>2
  <2>7. QED
    BY <2>1, <2>2, <2>3, <2>4, <2>5, <2>6 DEF BlocksTile, NULL
<1>11. Coalesced'
  <2> SUFFICES ASSUME NEW c \in chain', ~used'[c], next'[c] # NULL
               PROVE  used'[next'[c]]
    BY DEF Coalesced, NULL
  <2>1. next'[c] \in chain' /\ prev'[next'[c]] = c
    BY <1>10 DEF BlocksTile, NULL
  <2>2. CASE c = first
    BY <1>2, <1>4, <1>5, <1>6, <2>1, <2>2, Arena
  <2>3. CASE c # first /\ next'[c] # first
    <3>1. next'[c] = next[c] /\ c # b
      BY <1>2, <1>5, <1>6, <2>3 DEF first
    <3>2. ~used[c] /\ used[next[c]]
      <4>1. ~used[c]
        BY <1>6, <3>1
      <4>2. QED
        BY <4>1, <3>1, <1>6 DEF Blocks, Coalesced
    <3>3. next[c] # b
      BY <2>1, <2>3, <3>1, <1>6 DEF first
    <3>4. QED
      BY <3>1, <3>2, <3>3, <2>1, <1>6
  <2>4. CASE c # first /\ next'[c] = first
    \* The block before first is used: first was free, or it would have merged.
    <3>1. next[c] = first /\ c # NULL
      BY <1>6, <2>4, Arena
    <3>2. prev[first] = c
      BY <3>1, <1>2, <1>4, <1>6, <1>8, Arena
    <3>3. used[c] /\ c = b
      BY <3>1, <3>2, <1>2, <1>6
    <3>4. c < first
      BY <3>1, <1>6, <1>8, Arena
    <3>5. QED
      BY <3>3, <3>4, <1>2, <1>5
  <2>5. QED
    BY <2>2, <2>3, <2>4
<1>12. Held' = Held \ {b}
  BY <1>1, <1>3 DEF Held, BlockTypes
<1>13. \A c \in Held \ {b} : /\ c \in chain' /\ c # first
                             /\ size'[c] = size[c] /\ wanted'[c] = wanted[c]
  <2> SUFFICES ASSUME NEW c \in Held \ {b}
               PROVE  /\ c \in chain' /\ c # first
                      /\ size'[c] = size[c] /\ wanted'[c] = wanted[c]
    OBVIOUS
  <2>1. c \in chain /\ used[c]
    BY DEF Blocks, HoldersSafe, Held
  <2>2. c \notin gone /\ c # first
    BY <2>1, <1>2
  <2>3. c \in chain'
    BY <2>1, <2>2, <1>1
  <2>4. QED
    BY <2>2, <2>3, <1>6
<1>14. HoldersSafe'
  <2>1. \A c \in chain' : used'[c] <=> wanted'[c] > 0
    BY <1>6 DEF Blocks, HoldersSafe
  <2>2. \A c \in Held' : c \in chain' /\ wanted'[c] <= size'[c] - HEADER
    BY <1>12, <1>13 DEF Blocks, HoldersSafe
  <2>3. QED
    BY <2>1, <2>2 DEF HoldersSafe
<1>15. QED
  BY <1>7, <1>10, <1>11, <1>12, <1>13, <1>14 DEF Blocks

\* Splitting a free block that fits and handing it out.
LEMMA TakeStep ==
    ASSUME Blocks, cur \in chain, Fits(cur), need \in Nat,
           NEW n \in Nat, n > 0, need >= n + HEADER,
           SplitAndUse, wanted' = [wanted EXCEPT ![cur] = n]
    PROVE  /\ Blocks'
           /\ cur \notin Held
           /\ Held' = Held \cup {cur}
           /\ \A c \in Held : size'[c] = size[c] /\ wanted'[c] = wanted[c]
<1> DEFINE rest == cur + need
<1>1. /\ cur \in Addr /\ cur \in Nat /\ cur < HEAP_SIZE /\ ~used[cur]
      /\ size[cur] >= need /\ size[cur] \in Nat /\ cur \notin Held
      /\ BlockTypes
  BY Arena DEF Blocks, BlockTypes, HoldersSafe, Held, Fits
<1>2. /\ 0 \in chain /\ prev[0] = NULL
      /\ \A c \in chain :
          /\ size[c] >= HEADER
          /\ next[c] = c + size[c]
          /\ next[c] # NULL => next[c] \in chain /\ prev[next[c]] = c
          /\ prev[c] # NULL => prev[c] \in chain /\ next[prev[c]] = c
          /\ c # 0 => prev[c] # NULL
      /\ \A c, d \in chain : c < d => c + size[c] <= d
      /\ \A c \in chain : ~used[c] /\ next[c] # NULL => used[next[c]]
      /\ \A c \in chain : used[c] <=> wanted[c] > 0
      /\ \A c \in chain : /\ c \in Addr /\ c \in Nat /\ c < HEAP_SIZE
                          /\ size[c] \in Nat /\ next[c] \in Nat /\ prev[c] \in Nat
                          /\ wanted[c] \in Nat
  BY Arena DEF Blocks, BlockTypes, BlocksTile, Coalesced, HoldersSafe
<1>3. wanted' \in [Addr -> Nat] /\ Held' = Held \cup {cur}
      /\ \A c \in Addr : wanted'[c] = IF c = cur THEN n ELSE wanted[c]
  BY <1>1 DEF BlockTypes, Held
<1>4. \A c \in Held : c \in chain /\ c # cur /\ wanted[c] <= size[c] - HEADER
  BY <1>1 DEF Blocks, HoldersSafe
<1>5. CASE ~Splits
  <2>1. /\ used' = [used EXCEPT ![cur] = TRUE]
        /\ next' = next /\ prev' = prev /\ size' = size /\ chain' = chain
    BY <1>5 DEF SplitAndUse
  <2>2. BlockTypes'
    BY <1>1, <1>3, <2>1 DEF BlockTypes
  <2>3. \A c \in chain : used'[c] <=> used[c] \/ c = cur
    BY <1>1, <2>1 DEF BlockTypes
  <2>4. BlocksTile'
    BY <1>2, <2>1 DEF BlocksTile, NULL
  <2>5. Coalesced'
    BY <1>2, <2>1, <2>3 DEF Coalesced, NULL
  <2>6. HoldersSafe'
    <3>1. \A c \in chain : used'[c] <=> wanted'[c] > 0
      BY <1>2, <1>3, <2>3
    <3>2. \A c \in Held' : c \in chain /\ wanted'[c] <= size[c] - HEADER
      BY <1>1, <1>2, <1>3, <1>4, Arena
    <3>3. QED
      BY <2>1, <3>1, <3>2 DEF HoldersSafe
  <2>7. QED
    BY <1>1, <1>2, <1>3, <1>4, <2>1, <2>2, <2>4, <2>5, <2>6 DEF Blocks
<1>6. CASE Splits
  <2>1. /\ next' = [next EXCEPT ![rest] = next[cur], ![cur] = rest]
        /\ prev' = [b \in Addr |-> CASE b = rest      -> cur
                                     [] b = next[cur] -> rest
                                     [] OTHER         -> prev[b]]
        /\ size' = [size EXCEPT ![rest] = size[cur] - need, ![cur] = need]
        /\ used' = [used EXCEPT ![rest] = FALSE, ![cur] = TRUE]
        /\ chain' = chain \cup {rest}
    BY <1>6 DEF SplitAndUse, Remaining
  <2>2. size[cur] - need >= HEADER
    BY <1>1, <1>6, HeapAssumption DEF Splits, Remaining
  <2>3. next[cur] = cur + size[cur] /\ next[cur] <= HEAP_SIZE
    BY <1>1, <1>2, Arena DEF BlockTypes
  <2>4. /\ rest \in Nat /\ cur < rest /\ rest < next[cur] /\ rest < HEAP_SIZE
        /\ rest \in Addr /\ rest = cur + need
        /\ rest + (size[cur] - need) = next[cur]
    BY <1>1, <2>2, <2>3, Arena
  <2>5. \A c \in chain : c < rest => c <= cur
    BY <1>1, <1>2, <2>3, <2>4
  <2>6. \A c \in chain : c > cur => c >= next[cur]
    BY <1>1, <1>2, <2>3
  <2> HIDE DEF rest
  <2>7. rest \notin chain /\ rest # NULL
    BY <2>4, <2>6, <1>2, Arena
  <2>8. \A c \in chain :
          /\ next'[c] = IF c = cur THEN rest ELSE next[c]
          /\ prev'[c] = IF c = next[cur] THEN rest ELSE prev[c]
          /\ size'[c] = IF c = cur THEN need ELSE size[c]
          /\ used'[c] <=> used[c] \/ c = cur
    BY <1>1, <1>2, <2>1, <2>4, <2>7 DEF BlockTypes
  <2>9. /\ next'[rest] = next[cur] /\ prev'[rest] = cur
        /\ size'[rest] = size[cur] - need /\ ~used'[rest]
    BY <1>1, <2>1, <2>4 DEF BlockTypes
  <2>10. chain' = chain \cup {rest}
    BY <2>1
  <2>11. BlockTypes'
    <3>1. next' \in [Addr -> Link] /\ prev' \in [Addr -> Link]
      BY <1>1, <2>1, <2>4, Arena DEF BlockTypes
    <3>2. size' \in [Addr -> 0..HEAP_SIZE]
      BY <1>1, <2>1, <2>2, <2>3, <2>4, Arena DEF BlockTypes
    <3>3. used' \in [Addr -> BOOLEAN] /\ chain' \subseteq Addr
      BY <1>1, <2>1, <2>4 DEF BlockTypes
    <3>4. QED
      BY <1>3, <3>1, <3>2, <3>3 DEF BlockTypes
  <2>12. BlocksTile'
    <3>1. 0 \in chain' /\ prev'[0] = NULL
      BY <1>1, <1>2, <2>10, <2>3, <2>4, <2>8
    <3>2. \A c \in chain' :
            /\ size'[c] >= HEADER
            /\ next'[c] = c + size'[c]
      BY <1>1, <1>2, <2>10, <2>2, <2>3, <2>4, <2>8, <2>9, Arena
    <3>3. \A c \in chain' :
            next'[c] # NULL => next'[c] \in chain' /\ prev'[next'[c]] = c
      <4>1. \A c \in chain \ {cur} : next[c] # next[cur] \/ next[c] = NULL
        BY <1>1, <1>2
      <4>2. QED
        BY <1>1, <1>2, <2>10, <2>4, <2>7, <2>8, <2>9, <4>1
    <3>4. \A c \in chain' :
            prev'[c] # NULL => prev'[c] \in chain' /\ next'[prev'[c]] = c
      <4>1. \A c \in chain : c # next[cur] => prev[c] # cur
        BY <1>1, <1>2, Arena
      <4>2. QED
        BY <1>1, <1>2, <2>10, <2>4, <2>7, <2>8, <2>9, <4>1
    <3>5. \A c \in chain' : c # 0 => prev'[c] # NULL
      BY <1>1, <1>2, <2>10, <2>4, <2>7, <2>8, <2>9, Arena
    <3>6. \A c, d \in chain' : c < d => c + size'[c] <= d
      BY <1>1, <1>2, <2>10, <2>3, <2>4, <2>5, <2>6, <2>8, <2>9
    <3>7. QED
      BY <3>1, <3>2, <3>3, <3>4, <3>5, <3>6 DEF BlocksTile, NULL
  <2>13. Coalesced'
    BY <1>1, <1>2, <2>10, <2>4, <2>7, <2>8, <2>9 DEF Coalesced, NULL
  <2>14. HoldersSafe'
    <3>1. wanted[rest] = 0
      <4>1. rest \notin Held
        BY <1>4, <2>7
      <4>2. QED
        BY <4>1, <1>1, <2>4 DEF Held, BlockTypes
    <3>2. \A c \in chain' : used'[c] <=> wanted'[c] > 0
      BY <1>2, <1>3, <2>10, <2>4, <2>8, <2>9, <3>1
    <3>3. \A c \in Held : wanted'[c] <= size'[c] - HEADER
      BY <1>1, <1>2, <1>3, <1>4, <2>8
    <3>4. wanted'[cur] <= size'[cur] - HEADER
      BY <1>1, <1>3, <2>8, Arena
    <3>5. Held' \subseteq chain'
      BY <1>3, <1>4, <2>10
    <3>6. QED
      BY <1>3, <3>2, <3>3, <3>4, <3>5 DEF HoldersSafe
  <2>15. QED
    BY <1>1, <1>2, <1>3, <1>4, <2>8, <2>11, <2>12, <2>13, <2>14 DEF Blocks
<1>7. QED
  BY <1>5, <1>6

-----------------------------------------------------------------------------
(* The inductive invariant                                                 *)

\* The calls in progress and their local variables.
CallTypes ==
    /\ finder  \in Task \cup {NoTask}
    /\ cur     \in Link
    /\ need    \in 0..(WORD - 1)
    /\ pc      \in [Task -> {"idle", "alloc", "realloc", "copy"}]
    /\ ask     \in [Task -> Nat]
    /\ old     \in [Task -> Addr]
    /\ oldSize \in [Task -> Int]
    /\ new     \in [Task -> Addr]

\* The statistics are numbers.
StatTypes == usedSize \in Int /\ freeSize \in Int /\ fragments \in Int

\* The invariant, and its primed form, sorted into parts that a step treats alike.
LEMMA InvariantParts ==
    /\ IInv <=> Blocks /\ CallTypes /\ StatTypes /\ FirstFit /\ CopySafe /\ CallsApart
    /\ IInv' <=> Blocks' /\ CallTypes' /\ StatTypes' /\ FirstFit' /\ CopySafe' /\ CallsApart'
<1>1. TypeOK <=> BlockTypes /\ CallTypes /\ StatTypes
  BY DEF TypeOK, BlockTypes, CallTypes, StatTypes
<1>2. TypeOK' <=> BlockTypes' /\ CallTypes' /\ StatTypes'
  BY DEF TypeOK, BlockTypes, CallTypes, StatTypes
<1>3. QED
  BY <1>1, <1>2 DEF IInv, Blocks

\* The blocks stay as they are when no call touches them.
LEMMA BlocksKept ==
    ASSUME UNCHANGED <<blockVars, wanted>>
    PROVE  (Blocks <=> Blocks') /\ Held' = Held
  BY DEF blockVars, Blocks, BlockTypes, BlocksTile, Coalesced, HoldersSafe, Held, NULL

\* The initial state: one free block.
LEMMA InitInvariant == Init => IInv
<1> SUFFICES ASSUME Init PROVE IInv
  OBVIOUS
<1> USE Arena
<1>1. 0 \in Addr /\ 0 \in Link /\ NULL \in Link
  OBVIOUS
<1>2. BlockTypes
  BY <1>1 DEF Init, BlockTypes
<1>3. CallTypes /\ StatTypes
  BY <1>1, HeapAssumption DEF Init, CallTypes, StatTypes
<1>4. BlocksTile
  BY <1>1 DEF Init, BlocksTile
<1>5. Coalesced
  BY <1>1 DEF Init, Coalesced
<1>6. HoldersSafe
  BY <1>1 DEF Init, HoldersSafe, Held
<1>7. FirstFit /\ CopySafe /\ CallsApart
  BY DEF Init, FirstFit, CopySafe, CallsApart, InUse
<1>8. QED
  BY <1>2, <1>3, <1>4, <1>5, <1>6, <1>7, InvariantParts DEF Blocks

\* A search begins: for alloc, calloc and realloc alike.
LEMMA SearchStep ==
    ASSUME IInv, NEW t \in Task, NEW n \in Nat, n > 0,
           n + ALIGNMENT - 1 + HEADER < WORD,
           Search(t, n), UNCHANGED <<blockVars, statVars, wanted, old, oldSize, new>>,
           \/ /\ pc[t] = "idle"
              /\ pc'  = [pc EXCEPT ![t] = "alloc"]
              /\ ask' = [ask EXCEPT ![t] = n]
           \/ /\ pc[t] = "realloc" /\ ask[t] = n
              /\ UNCHANGED <<pc, ask>>
    PROVE  IInv'
<1> USE InvariantParts
<1>1. Blocks' /\ Held' = Held
  BY BlocksKept
<1>2. finder = NoTask /\ finder' = t /\ cur' = 0 /\ need' = BlockSize(n)
  BY DEF Search
<1>3. need' \in 0..(WORD - 1) /\ need' >= n + HEADER
  BY <1>2, BlockSizeFacts
<1>4. t # NoTask /\ NoTask \notin Task
  BY HeapAssumption
<1>5. CallTypes' /\ StatTypes'
  <2>1. pc' \in [Task -> {"idle", "alloc", "realloc", "copy"}] /\ ask' \in [Task -> Nat]
    BY DEF CallTypes
  <2>2. QED
    BY <1>2, <1>3, <2>1, Arena DEF CallTypes, StatTypes, statVars
<1>6. FirstFit'
  <2>1. 0 \in chain' /\ \A b \in chain' : b \in Nat
    BY <1>1, Arena DEF Blocks, BlockTypes, BlocksTile
  <2>2. QED
    BY <1>2, <2>1, Arena DEF FirstFit, NULL
<1>7. /\ pc'[t] \in {"alloc", "realloc"} /\ ask'[t] = n
      /\ (pc'[t] = "realloc" => pc[t] = "realloc")
      /\ pc'[t] # "copy"
      /\ \A u \in Task : u # t => pc'[u] = pc[u] /\ ask'[u] = ask[u]
      /\ \A u \in Task : pc[u] # "alloc"
  BY <1>2, <1>4 DEF CallTypes, CallsApart
<1>8. CopySafe'
  <2>1. size' = size
    BY DEF blockVars
  <2>2. \A u \in Task : pc'[u] \in {"realloc", "copy"} => pc'[u] = pc[u]
    BY <1>7
  <2>3. QED
    BY <1>1, <2>1, <2>2 DEF CopySafe
<1>9. CallsApart'
  <2>1. \A u \in Task : InUse(u)' \subseteq InUse(u)
    BY <1>7 DEF InUse
  <2>2. \A u, v \in Task : u # v => InUse(u)' \cap InUse(v)' = {}
    BY <2>1 DEF CallsApart
  <2>3. \A u \in Task : pc'[u] = "realloc" => /\ ask'[u] > oldSize'[u]
                                              /\ ask'[u] > 0
                                              /\ ask'[u] + ALIGNMENT - 1 + HEADER < WORD
    BY <1>7 DEF CallsApart
  <2>4. \A u \in Task : pc'[u] = "alloc" => u = finder'
    BY <1>2, <1>7
  <2>5. QED
    BY <1>2, <1>3, <1>7, <2>2, <2>3, <2>4 DEF CallsApart
<1>10. QED
  BY <1>1, <1>5, <1>6, <1>8, <1>9

\* One iteration of the search.
LEMMA FindPassStep == IInv /\ FindPass => IInv'
<1> SUFFICES ASSUME IInv, FindPass PROVE IInv'
  OBVIOUS
<1> USE InvariantParts
<1>1. Blocks' /\ Held' = Held
  BY BlocksKept DEF FindPass
<1>2. /\ finder # NoTask /\ cur # NULL /\ ~Fits(cur) /\ cur' = next[cur]
      /\ UNCHANGED <<chain, size, used, next, prev, finder, need, pc, ask, old, oldSize, new,
                     usedSize, freeSize, fragments>>
  BY DEF FindPass, blockVars, callVars, statVars
<1>3. cur \in chain
  BY <1>2 DEF FirstFit
<1>4. /\ next[cur] = cur + size[cur] /\ (next[cur] # NULL => next[cur] \in chain)
      /\ \A c \in chain : c < next[cur] => c <= cur
      /\ next[cur] \in Link
  <2>1. \A c \in chain : c \in Nat /\ size[c] \in Nat /\ next[c] \in Link
    BY Arena DEF Blocks, BlockTypes
  <2>2. next[cur] = cur + size[cur] /\ (next[cur] # NULL => next[cur] \in chain)
    BY <1>3 DEF Blocks, BlocksTile
  <2>3. \A c \in chain : cur < c => next[cur] <= c
    BY <1>3, <2>2 DEF Blocks, BlocksTile
  <2>4. \A c \in chain : c < next[cur] => c <= cur
    BY <1>3, <2>1, <2>2, <2>3
  <2>5. QED
    BY <1>3, <2>1, <2>2, <2>4
<1>5. FirstFit'
  <2>1. \A c \in chain : c \in Nat
    BY Arena DEF Blocks, BlockTypes
  <2>2. \A c \in chain : c < next[cur] => ~Fits(c)
    BY <1>2, <1>3, <1>4, <2>1 DEF FirstFit
  <2>3. \A c \in chain : Fits(c)' <=> Fits(c)
    BY <1>2 DEF Fits
  <2>4. QED
    BY <1>2, <1>4, <2>2, <2>3 DEF FirstFit, NULL
<1>6. CallTypes' /\ StatTypes'
  BY <1>2, <1>4 DEF CallTypes, StatTypes
<1>7. CopySafe'
  BY <1>1, <1>2 DEF CopySafe
<1>8. CallsApart'
  BY <1>2 DEF CallsApart, InUse
<1>9. QED
  BY <1>1, <1>5, <1>6, <1>7, <1>8

\* A call that returns leaves the calls of the other tasks as they are.
LEMMA ReturnStep ==
    ASSUME CallTypes, CallsApart, NEW t \in Task, Return(t),
           finder \in {t, NoTask},
           finder' = NoTask, cur' \in Link, need' \in 0..(WORD - 1)
    PROVE  /\ CallTypes' /\ CallsApart'
           /\ InUse(t)' = {}
           /\ \A u \in Task \ {t} : /\ pc'[u] = pc[u] /\ old'[u] = old[u]
                                    /\ oldSize'[u] = oldSize[u] /\ new'[u] = new[u]
                                    /\ InUse(u)' = InUse(u)
           /\ pc'[t] = "idle"
<1>1. /\ pc'[t] = "idle"
      /\ finder' = NoTask
      /\ \A u \in Task \ {t} : /\ pc'[u] = pc[u] /\ ask'[u] = ask[u] /\ old'[u] = old[u]
                               /\ oldSize'[u] = oldSize[u] /\ new'[u] = new[u]
  BY DEF Return, CallTypes
<1>2. CallTypes'
  <2>1. 0 \in Addr
    BY Arena
  <2>2. /\ pc' \in [Task -> {"idle", "alloc", "realloc", "copy"}]
        /\ ask' \in [Task -> Nat]
        /\ oldSize' \in [Task -> Int]
    BY DEF Return, CallTypes
  <2>3. old' \in [Task -> Addr] /\ new' \in [Task -> Addr]
    BY <2>1 DEF Return, CallTypes
  <2>4. QED
    BY <2>1, <2>2, <2>3 DEF CallTypes
<1>3. InUse(t)' = {} /\ \A u \in Task \ {t} : InUse(u)' = InUse(u)
  BY <1>1 DEF InUse
<1>4. \A u, v \in Task : u # v => InUse(u)' \cap InUse(v)' = {}
  BY <1>3 DEF CallsApart
<1>5. \A u \in Task : pc'[u] = "alloc" => FALSE
  BY <1>1, HeapAssumption DEF CallsApart
<1>6. \A u \in Task : pc'[u] = "realloc" => /\ ask'[u] > oldSize'[u]
                                            /\ ask'[u] > 0
                                            /\ ask'[u] + ALIGNMENT - 1 + HEADER < WORD
  BY <1>1 DEF CallsApart
<1>7. CallsApart'
  BY <1>1, <1>4, <1>5, <1>6 DEF CallsApart
<1>8. QED
  BY <1>1, <1>2, <1>3, <1>7

\* No block was found.
LEMMA FindFailStep == IInv /\ FindFail => IInv'
<1> SUFFICES ASSUME IInv, FindFail PROVE IInv'
  OBVIOUS
<1> USE InvariantParts
<1>1. Blocks' /\ Held' = Held /\ size' = size
  BY BlocksKept DEF FindFail, blockVars
<1>2. finder \in Task /\ Return(finder) /\ EndSearch /\ UNCHANGED statVars
  BY DEF FindFail, CallTypes
<1>3. /\ CallTypes' /\ CallsApart'
      /\ \A u \in Task \ {finder} : /\ pc'[u] = pc[u] /\ old'[u] = old[u]
                                    /\ oldSize'[u] = oldSize[u] /\ new'[u] = new[u]
      /\ pc'[finder] = "idle"
  <2>1. finder \in {finder, NoTask}
    OBVIOUS
  <2>2. finder' = NoTask /\ cur' \in Link /\ need' \in 0..(WORD - 1)
    BY <1>2, Arena, HeapAssumption DEF EndSearch
  <2>3. QED
    BY <1>2, <2>1, <2>2, ReturnStep
<1>4. CopySafe'
  BY <1>1, <1>3 DEF CopySafe
<1>5. FirstFit'
  BY <1>2 DEF EndSearch, FirstFit
<1>6. StatTypes'
  BY <1>2 DEF StatTypes, statVars
<1>7. QED
  BY <1>1, <1>3, <1>4, <1>5, <1>6

\* A block is taken.
LEMMA FindTakeStep == IInv /\ FindTake => IInv'
<1> SUFFICES ASSUME IInv, FindTake PROVE IInv'
  OBVIOUS
<1> USE InvariantParts
<1>0. PICK t \in Task : t = finder
  BY DEF FindTake, CallTypes
<1>1. /\ t \in Task /\ cur \in chain /\ Fits(cur) /\ need \in Nat
      /\ ask[t] \in Nat /\ ask[t] > 0 /\ need >= ask[t] + HEADER
      /\ SplitAndUse /\ wanted' = [wanted EXCEPT ![cur] = ask[t]]
  BY <1>0, HeapAssumption DEF FindTake, CallTypes, FirstFit, CallsApart
<1>2. /\ Blocks'
      /\ cur \notin Held
      /\ Held' = Held \cup {cur}
      /\ \A c \in Held : size'[c] = size[c] /\ wanted'[c] = wanted[c]
  BY <1>1, TakeStep
<1>3. wanted'[cur] = ask[t] /\ cur \in Addr /\ size'[cur] \in Nat
  BY <1>1, <1>2 DEF Blocks, BlockTypes
<1>4. ask[t] <= size'[cur] - HEADER
  BY <1>2, <1>3 DEF Blocks, HoldersSafe
<1>5. FirstFit'
  BY DEF FindTake, EndSearch, FirstFit
<1>6. StatTypes'
  <2>1. fragments' \in Int
    BY DEF FindTake, SplitAndUse, StatTypes
  <2>2. QED
    BY <1>3, <2>1 DEF FindTake, StatTypes
<1>7. \A u \in Task : pc[u] \in {"realloc", "copy"} =>
        /\ old[u] \in Held'
        /\ oldSize[u] = size'[old[u]] - HEADER
  BY <1>2 DEF CopySafe
<1>8. \A u \in Task : pc[u] = "copy" =>
        /\ new[u] \in Held'
        /\ new[u] # old[u]
        /\ oldSize[u] <= size'[new[u]] - HEADER
  BY <1>2 DEF CopySafe
<1>9. CASE pc[t] = "alloc" /\ Return(t) /\ EndSearch
  <2>1. /\ CallTypes' /\ CallsApart'
        /\ \A u \in Task \ {t} : /\ pc'[u] = pc[u] /\ old'[u] = old[u]
                                 /\ oldSize'[u] = oldSize[u] /\ new'[u] = new[u]
        /\ pc'[t] = "idle"
    <3>1. finder \in {t, NoTask}
      BY <1>0
    <3>2. finder' = NoTask /\ cur' \in Link /\ need' \in 0..(WORD - 1)
      BY <1>9, Arena, HeapAssumption DEF EndSearch
    <3>3. QED
      BY <1>9, <3>1, <3>2, ReturnStep
  <2>2. CopySafe'
    BY <1>7, <1>8, <2>1 DEF CopySafe
  <2>3. QED
    BY <1>2, <1>5, <1>6, <2>1, <2>2
<1>10. CASE /\ pc[t] = "realloc" /\ EndSearch
            /\ pc' = [pc EXCEPT ![t] = "copy"] /\ new' = [new EXCEPT ![t] = cur]
            /\ UNCHANGED <<ask, old, oldSize>>
  <2>1. /\ pc'[t] = "copy" /\ new'[t] = cur /\ finder' = NoTask
        /\ \A u \in Task \ {t} : pc'[u] = pc[u] /\ new'[u] = new[u]
    BY <1>1, <1>10 DEF CallTypes, EndSearch
  <2>2. CallTypes'
    <3>1. /\ pc' \in [Task -> {"idle", "alloc", "realloc", "copy"}]
          /\ new' \in [Task -> Addr]
      BY <1>3, <1>10 DEF CallTypes
    <3>2. 0 \in Link /\ 0 \in 0..(WORD - 1)
      BY Arena, HeapAssumption
    <3>3. QED
      BY <1>10, <3>1, <3>2 DEF CallTypes, EndSearch
  <2>3. /\ old[t] \in Held /\ oldSize[t] < ask[t] /\ oldSize[t] \in Int
    BY <1>1, <1>10 DEF CopySafe, CallsApart, CallTypes
  <2>4. CopySafe'
    <3>1. \A u \in Task : pc'[u] \in {"realloc", "copy"} =>
            old'[u] \in Held' /\ oldSize'[u] = size'[old'[u]] - HEADER
      BY <1>7, <1>10, <2>1
    <3>2. /\ new'[t] \in Held' /\ new'[t] # old'[t]
          /\ oldSize'[t] <= size'[new'[t]] - HEADER
      BY <1>1, <1>2, <1>3, <1>4, <1>10, <2>1, <2>3, Arena
    <3>3. \A u \in Task \ {t} : pc'[u] = "copy" =>
            /\ new'[u] \in Held' /\ new'[u] # old'[u]
            /\ oldSize'[u] <= size'[new'[u]] - HEADER
      BY <1>8, <1>10, <2>1
    <3>4. QED
      BY <3>1, <3>2, <3>3 DEF CopySafe
  <2>5. CallsApart'
    <3>1. \A u \in Task \ {t} : InUse(u)' = InUse(u) /\ InUse(u) \subseteq Held
      BY <1>10, <2>1 DEF InUse, CopySafe
    <3>2. InUse(t) = {old[t]} /\ InUse(t)' = {old[t], cur}
      BY <1>10, <2>1 DEF InUse
    <3>3. \A u, v \in Task : u # v => InUse(u)' \cap InUse(v)' = {}
      <4>1. \A u \in Task \ {t} : InUse(t)' \cap InUse(u)' = {}
        <5>1. \A u \in Task \ {t} : InUse(t) \cap InUse(u) = {}
          BY <1>1 DEF CallsApart
        <5>2. \A u \in Task \ {t} : old[t] \notin InUse(u)' /\ cur \notin InUse(u)'
          BY <5>1, <1>2, <3>1, <3>2
        <5>3. QED
          BY <5>2, <3>2
      <4>2. \A u, v \in Task \ {t} : u # v => InUse(u)' \cap InUse(v)' = {}
        BY <3>1 DEF CallsApart
      <4>3. QED
        BY <4>1, <4>2
    <3>4. \A u \in Task : pc'[u] # "alloc"
      <4>1. \A u \in Task \ {t} : pc[u] # "alloc"
        BY <1>0 DEF CallsApart
      <4>2. QED
        BY <4>1, <2>1
    <3>5. \A u \in Task : pc'[u] = "realloc" => pc[u] = "realloc"
      BY <2>1
    <3>6. QED
      BY <1>10, <2>1, <3>3, <3>4, <3>5 DEF CallsApart
  <2>6. QED
    BY <1>2, <1>5, <1>6, <2>2, <2>4, <2>5
<1>11. QED
  BY <1>0, <1>9, <1>10 DEF FindTake

\* The parts of flyos_mem_free and of the end of realloc: the other tasks'
\* blocks stay as they are.
LEMMA ReleaseCalls ==
    ASSUME IInv, NEW b \in Held, Release(b), finder' = NoTask,
           CallTypes', CallsApart',
           \A u \in Task : pc'[u] \in {"realloc", "copy"} =>
                /\ pc'[u] = pc[u] /\ old'[u] = old[u]
                /\ oldSize'[u] = oldSize[u] /\ new'[u] = new[u]
                /\ b \notin InUse(u)
    PROVE  IInv'
<1> USE InvariantParts
<1>1. /\ Blocks'
      /\ Held' = Held \ {b}
      /\ \A c \in Held \ {b} : size'[c] = size[c] /\ wanted'[c] = wanted[c]
  BY ReleaseStep
<1>2. FirstFit'
  BY DEF FirstFit
<1>3. StatTypes'
  <2>1. Cardinality(Merged(b)) \in Nat
    <3>1. Merged(b) \subseteq {next[b], b}
      BY DEF Merged
    <3>2. IsFiniteSet({next[b], b})
      <4>1. IsFiniteSet({b})
        BY FS_Singleton
      <4>2. IsFiniteSet({b} \cup {next[b]})
        BY <4>1, FS_AddElement
      <4>3. {next[b], b} = {b} \cup {next[b]}
        OBVIOUS
      <4>4. QED
        BY <4>2, <4>3
    <3>3. IsFiniteSet(Merged(b))
      BY <3>1, <3>2, FS_Subset
    <3>4. QED
      BY <3>3, FS_CardinalityType
  <2>2. size[b] \in Int
    BY Arena DEF Held, Blocks, BlockTypes
  <2>3. QED
    BY <2>1, <2>2 DEF Release, StatTypes
<1>4. CopySafe'
  <2>1. \A u \in Task : pc'[u] \in {"realloc", "copy"} => old[u] # b
    BY DEF InUse
  <2>2. \A u \in Task : pc'[u] = "copy" => new[u] # b
    BY DEF InUse
  <2>3. QED
    BY <1>1, <2>1, <2>2 DEF CopySafe
<1>5. QED
  BY <1>1, <1>2, <1>3, <1>4

\* flyos_mem_free.
LEMMA FreeStep ==
    ASSUME IInv, NEW t \in Task, NEW b \in Addr, Free(t, b)
    PROVE  IInv'
<1> USE InvariantParts
<1>1. /\ finder = NoTask /\ b \in Releasable /\ Release(b)
      /\ UNCHANGED <<finder, cur, need, pc, ask, old, oldSize, new>>
  BY DEF Free, searchVars, callVars
<1>2. b \in Held /\ \A u \in Task : b \notin InUse(u)
  BY <1>1 DEF Releasable
<1>3. CallTypes' /\ CallsApart'
  BY <1>1 DEF CallTypes, CallsApart, InUse
<1>4. QED
  BY <1>1, <1>2, <1>3, ReleaseCalls

\* realloc frees the old block after the copy.
LEMMA ReallocFreeStep ==
    ASSUME IInv, NEW t \in Task, ReallocFree(t)
    PROVE  IInv'
<1> USE InvariantParts
<1>1. /\ finder = NoTask /\ pc[t] = "copy" /\ Release(old[t]) /\ Return(t)
      /\ UNCHANGED <<finder, cur, need>>
  BY DEF ReallocFree, searchVars
<1>2. old[t] \in Held
  BY <1>1 DEF CopySafe
<1>3. old[t] \in InUse(t)
  BY <1>1 DEF InUse
<1>4. \A u \in Task \ {t} : old[t] \notin InUse(u)
  BY <1>3 DEF CallsApart
<1>5. CallTypes' /\ CallsApart' /\ pc'[t] = "idle"
      /\ \A u \in Task \ {t} : /\ pc'[u] = pc[u] /\ old'[u] = old[u]
                               /\ oldSize'[u] = oldSize[u] /\ new'[u] = new[u]
  <2>1. finder' = NoTask /\ cur' \in Link /\ need' \in 0..(WORD - 1)
    BY <1>1 DEF CallTypes
  <2>2. QED
    BY <1>1, <2>1, ReturnStep
<1>6. \A u \in Task : pc'[u] \in {"realloc", "copy"} =>
        /\ pc'[u] = pc[u] /\ old'[u] = old[u]
        /\ oldSize'[u] = oldSize[u] /\ new'[u] = new[u]
        /\ old[t] \notin InUse(u)
  BY <1>4, <1>5
<1>7. QED
  BY <1>1, <1>2, <1>5, <1>6, ReleaseCalls

\* realloc finds that the block is long enough.
LEMMA ReallocKeepStep ==
    ASSUME IInv, NEW t \in Task, NEW b \in Addr, NEW n \in Nat, n > 0, ReallocKeep(t, b, n)
    PROVE  IInv'
<1> USE InvariantParts
<1>1. /\ b \in Held /\ n <= size[b] - HEADER
      /\ wanted' = [wanted EXCEPT ![b] = n]
      /\ UNCHANGED <<blockVars, searchVars, callVars, statVars>>
  BY DEF ReallocKeep, Releasable
<1>2. /\ UNCHANGED <<next, prev, size, used, chain, finder, cur, need, pc, ask, old, oldSize, new>>
      /\ UNCHANGED <<usedSize, freeSize, fragments>>
  BY <1>1 DEF blockVars, searchVars, callVars, statVars
<1>3. /\ wanted' \in [Addr -> Nat] /\ Held' = Held
      /\ \A c \in Addr : wanted'[c] = IF c = b THEN n ELSE wanted[c]
  BY <1>1 DEF Held, Blocks, BlockTypes
<1>4. BlockTypes'
  BY <1>2, <1>3 DEF Blocks, BlockTypes
<1>5. BlocksTile' /\ Coalesced'
  BY <1>2 DEF Blocks, BlocksTile, Coalesced, NULL
<1>6. HoldersSafe'
  <2>1. chain \subseteq Addr /\ wanted[b] > 0
    BY <1>1 DEF Blocks, BlockTypes, Held
  <2>2. \A c \in chain : used'[c] <=> wanted'[c] > 0
    BY <1>2, <1>3, <2>1 DEF Blocks, HoldersSafe
  <2>3. \A c \in Held : c \in chain /\ wanted'[c] <= size[c] - HEADER
    BY <1>1, <1>3, <2>1 DEF Blocks, HoldersSafe
  <2>4. QED
    BY <1>2, <1>3, <2>2, <2>3 DEF HoldersSafe
<1>7. FirstFit'
  BY <1>2 DEF FirstFit, Fits, NULL
<1>8. CopySafe' /\ CallsApart'
  BY <1>2, <1>3 DEF CopySafe, CallsApart, InUse
<1>9. CallTypes' /\ StatTypes'
  BY <1>2 DEF CallTypes, StatTypes
<1>10. QED
  BY <1>4, <1>5, <1>6, <1>7, <1>8, <1>9 DEF Blocks

\* realloc finds that it has to move the block.
LEMMA ReallocBeginStep ==
    ASSUME IInv, NEW t \in Task, NEW b \in Addr, NEW n \in Nat, n > 0,
           n + ALIGNMENT - 1 + HEADER < WORD, ReallocBegin(t, b, n)
    PROVE  IInv'
<1> USE InvariantParts
<1>1. /\ finder = NoTask /\ pc[t] = "idle" /\ b \in Releasable
      /\ n > size[b] - HEADER
      /\ pc'  = [pc EXCEPT ![t] = "realloc"]
      /\ ask' = [ask EXCEPT ![t] = n]
      /\ old' = [old EXCEPT ![t] = b]
      /\ oldSize' = [oldSize EXCEPT ![t] = size[b] - HEADER]
      /\ UNCHANGED <<finder, cur, need, new, size, usedSize, freeSize, fragments>>
  BY DEF ReallocBegin, searchVars, blockVars, statVars
<1>2. Blocks' /\ Held' = Held
  BY BlocksKept DEF ReallocBegin
<1>3. b \in Held /\ \A u \in Task : b \notin InUse(u)
  BY <1>1 DEF Releasable
<1>4. size[b] - HEADER \in Int
  BY Arena DEF Blocks, BlockTypes
<1>5. /\ pc'[t] = "realloc" /\ ask'[t] = n /\ old'[t] = b
      /\ oldSize'[t] = size[b] - HEADER
      /\ \A u \in Task \ {t} : /\ pc'[u] = pc[u] /\ ask'[u] = ask[u]
                               /\ old'[u] = old[u] /\ oldSize'[u] = oldSize[u]
  BY <1>1 DEF CallTypes
<1>6. CallTypes' /\ StatTypes'
  <2>1. /\ pc' \in [Task -> {"idle", "alloc", "realloc", "copy"}]
        /\ ask' \in [Task -> Nat]
    BY <1>1 DEF CallTypes
  <2>2. old' \in [Task -> Addr] /\ oldSize' \in [Task -> Int]
    BY <1>1, <1>4 DEF CallTypes
  <2>3. QED
    BY <1>1, <2>1, <2>2 DEF CallTypes, StatTypes
<1>7. FirstFit'
  BY <1>1 DEF FirstFit
<1>8. CopySafe'
  BY <1>1, <1>2, <1>3, <1>5 DEF CopySafe
<1>9. CallsApart'
  <2>1. InUse(t)' = {b} /\ \A u \in Task \ {t} : InUse(u)' = InUse(u)
    BY <1>1, <1>5 DEF InUse
  <2>2. \A u, v \in Task : u # v => InUse(u)' \cap InUse(v)' = {}
    BY <1>3, <2>1 DEF CallsApart
  <2>3. \A u \in Task : pc'[u] # "alloc"
    BY <1>1, <1>5, HeapAssumption DEF CallsApart
  <2>4. \A u \in Task : pc'[u] = "realloc" => /\ ask'[u] > oldSize'[u]
                                              /\ ask'[u] > 0
                                              /\ ask'[u] + ALIGNMENT - 1 + HEADER < WORD
    BY <1>1, <1>5 DEF CallsApart
  <2>5. QED
    BY <1>1, <2>2, <2>3, <2>4 DEF CallsApart
<1>10. QED
  BY <1>2, <1>6, <1>7, <1>8, <1>9

\* Every step preserves the invariant if no size wraps around.
LEMMA NextInvariant ==
    ASSUME NoWrap, IInv, [Next]_vars
    PROVE  IInv'
<1> USE InvariantParts
<1>1. \A n \in Sizes : n \in Nat /\ n > 0 /\ n + ALIGNMENT - 1 + HEADER < WORD
  BY HeapAssumption DEF NoWrap
<1>2. CASE Find
  BY <1>2, FindPassStep, FindFailStep, FindTakeStep DEF Find
<1>3. ASSUME NEW t \in Task, Call(t) PROVE IInv'
  <2>1. ASSUME NEW n \in Sizes, Alloc(t, n) PROVE IInv'
    <3>1. /\ pc[t] = "idle" /\ Search(t, n)
          /\ pc'  = [pc EXCEPT ![t] = "alloc"]
          /\ ask' = [ask EXCEPT ![t] = n]
          /\ UNCHANGED <<blockVars, statVars, wanted, old, oldSize, new>>
      BY <2>1 DEF Alloc
    <3>2. n \in Nat /\ n > 0 /\ n + ALIGNMENT - 1 + HEADER < WORD
      BY <1>1
    <3>3. QED
      BY <3>1, <3>2, SearchStep
  <2>2. ASSUME NEW count \in Counts, NEW n \in Sizes, Calloc(t, count, n) PROVE IInv'
    <3>1. count \in Nat \ {0} /\ n \in Nat /\ n > 0 /\ WORD \in Nat \ {0}
      BY HeapAssumption
    <3>2. ~Overflows(count, n) /\ (count * n) % WORD # 0
      BY <2>2 DEF Calloc
    <3>3. count * n \in Nat /\ count * n < WORD
      BY <3>1, <3>2, ProductFits
    <3>4. count * n + ALIGNMENT - 1 + HEADER < WORD \/ count * n >= WORD
      BY DEF NoWrap
    <3> DEFINE p == count * n
    <3>5. /\ pc[t] = "idle" /\ Search(t, p % WORD)
          /\ pc'  = [pc EXCEPT ![t] = "alloc"]
          /\ ask' = [ask EXCEPT ![t] = p]
          /\ UNCHANGED <<blockVars, statVars, wanted, old, oldSize, new>>
      BY <2>2 DEF Calloc
    <3>6. p \in Nat /\ p < WORD /\ p % WORD # 0
          /\ (p + ALIGNMENT - 1 + HEADER < WORD \/ p >= WORD)
      BY <3>2, <3>3, <3>4
    <3> HIDE DEF p
    <3>7. p % WORD = p
      <4>1. p \in Int /\ p \in 0..(WORD - 1)
        BY <3>1, <3>6
      <4>2. QED
        BY <4>1, <3>1, Remainders
    <3>8. p > 0 /\ p + ALIGNMENT - 1 + HEADER < WORD
      BY <3>1, <3>6, <3>7
    <3>9. Search(t, p)
      BY <3>5, <3>7
    <3>10. QED
      BY <3>5, <3>6, <3>8, <3>9, SearchStep
  <2>3. ASSUME NEW b \in Addr, Free(t, b) PROVE IInv'
    BY <2>3, FreeStep
  <2>4. ASSUME NEW b \in Addr, NEW n \in Sizes, ReallocKeep(t, b, n) PROVE IInv'
    BY <1>1, <2>4, ReallocKeepStep
  <2>5. ASSUME NEW b \in Addr, NEW n \in Sizes, ReallocBegin(t, b, n) PROVE IInv'
    BY <1>1, <2>5, ReallocBeginStep
  <2>6. CASE ReallocAlloc(t)
    <3>1. /\ pc[t] = "realloc" /\ Search(t, ask[t])
          /\ UNCHANGED <<pc, ask, blockVars, statVars, wanted, old, oldSize, new>>
      BY <2>6 DEF ReallocAlloc, callVars
    <3>2. ask[t] \in Nat /\ ask[t] > 0 /\ ask[t] + ALIGNMENT - 1 + HEADER < WORD
      BY <3>1 DEF CallTypes, CallsApart
    <3>3. QED
      BY <3>1, <3>2, SearchStep
  <2>7. CASE ReallocFree(t)
    BY <2>7, ReallocFreeStep
  <2>8. QED
    BY <1>3, <2>1, <2>2, <2>3, <2>4, <2>5, <2>6, <2>7 DEF Call
<1>4. CASE UNCHANGED vars
  <2>1. UNCHANGED <<blockVars, wanted>>
    BY <1>4 DEF vars
  <2>2. Blocks' /\ Held' = Held
    BY <2>1, BlocksKept
  <2>3. UNCHANGED <<chain, size, used, next, finder, cur, need, pc, ask, old, oldSize, new,
                    usedSize, freeSize, fragments>>
    BY <1>4 DEF vars, blockVars, searchVars, callVars, statVars
  <2>4. CallTypes' /\ StatTypes' /\ FirstFit'
    BY <2>3 DEF CallTypes, StatTypes, FirstFit, Fits, NULL
  <2>5. CopySafe' /\ CallsApart'
    BY <2>2, <2>3 DEF CopySafe, CallsApart, InUse
  <2>6. QED
    BY <2>2, <2>4, <2>5
<1>5. QED
  BY <1>2, <1>3, <1>4 DEF Next

\* The inductive invariant holds in every reachable state.
THEOREM Invariance == ASSUME NoWrap PROVE Spec => []IInv
<1>1. Init => IInv
  BY InitInvariant
<1>2. IInv /\ [Next]_vars => IInv'
  BY NextInvariant
<1>3. QED
  BY <1>1, <1>2, PTL DEF Spec

\* The variables stay in their types: no block is larger than the arena, no
\* search looks for more than flyos_u32_t can hold.
THEOREM TypeCorrect == ASSUME NoWrap PROVE Spec => []TypeOK
<1>1. IInv => TypeOK
  BY DEF IInv
<1>2. QED
  BY <1>1, Invariance, PTL

\* The blocks cover the arena without gap or overlap, linked both ways.
THEOREM ArenaCovered == ASSUME NoWrap PROVE Spec => []BlocksTile
<1>1. IInv => BlocksTile
  BY DEF IInv
<1>2. QED
  BY <1>1, Invariance, PTL

\* No two neighbours are free: merge_free_blocks needs no second round.
THEOREM MergingComplete == ASSUME NoWrap PROVE Spec => []Coalesced
<1>1. IInv => Coalesced
  BY DEF IInv
<1>2. QED
  BY <1>1, Invariance, PTL

\* What is handed out is a used block of its own, and long enough.
THEOREM HoldersKept == ASSUME NoWrap PROVE Spec => []HoldersSafe
<1>1. IInv => HoldersSafe
  BY DEF IInv
<1>2. QED
  BY <1>1, Invariance, PTL

\* find_first_fit passes no block that fits.
THEOREM FirstTaken == ASSUME NoWrap PROVE Spec => []FirstFit
<1>1. IInv => FirstFit
  BY DEF IInv
<1>2. QED
  BY <1>1, Invariance, PTL

\* realloc copies from a block that is still there into one that is long
\* enough, whatever other tasks did between its critical sections.
THEOREM CopiesSafe == ASSUME NoWrap PROVE Spec => []CopySafe
<1>1. IInv => CopySafe
  BY DEF IInv
<1>2. QED
  BY <1>1, Invariance, PTL

\* Once everything has been given back the arena is one free block.
THEOREM NothingLost == ASSUME NoWrap PROVE Spec => []EmptyIsWhole
<1>1. ASSUME IInv PROVE EmptyIsWhole
  <2> SUFFICES ASSUME Held = {} PROVE chain = {0} /\ size[0] = HEAP_SIZE /\ ~used[0]
    BY DEF EmptyIsWhole
  <2>1. Blocks
    BY <1>1, InvariantParts
  <2>2. \A b \in chain : b \in Nat /\ b < HEAP_SIZE /\ size[b] \in Nat /\ b \in Addr
                         /\ wanted[b] \in Nat
    BY <2>1, Arena DEF Blocks, BlockTypes
  <2>3. \A b \in chain : ~used[b]
    BY <2>1, <2>2 DEF Blocks, HoldersSafe, Held
  <2>4. 0 \in chain /\ next[0] = 0 + size[0] /\ (next[0] # NULL => next[0] \in chain)
    BY <2>1 DEF Blocks, BlocksTile
  <2>5. next[0] = NULL
    BY <2>1, <2>3, <2>4 DEF Blocks, Coalesced
  <2>6. size[0] = HEAP_SIZE
    BY <2>2, <2>4, <2>5, Arena
  <2>7. \A b \in chain : b > 0 => 0 + size[0] <= b
    BY <2>1, <2>4 DEF Blocks, BlocksTile
  <2>8. \A b \in chain : b = 0
    BY <2>2, <2>6, <2>7, Arena
  <2>9. QED
    BY <2>3, <2>4, <2>6, <2>8
<1>2. QED
  BY <1>1, Invariance, PTL

-----------------------------------------------------------------------------
(* The heap implements the allocator                                       *)

\* The region that the holder of block b sees.
Region(b) == [start  |-> b + HEADER,
              length |-> size[b] - HEADER,
              wanted |-> wanted[b]]

Regions == {Region(b) : b \in Held}

\* Nothing has changed for those who hold a block.
LEMMA RegionsKept ==
    ASSUME Held' = Held, \A c \in Held : size'[c] = size[c] /\ wanted'[c] = wanted[c]
    PROVE  Regions' = Regions
  BY DEF Regions, Region

\* After a step, the region of a held block is sound, and those of two blocks
\* are disjoint.
LEMMA RegionFacts ==
    ASSUME Blocks'
    PROVE  /\ \A b \in Held' : Abstract!Sound(Region(b)')
           /\ \A b, c \in Held' : b # c => Abstract!Disjoint(Region(b)', Region(c)')
<1>1. \A b \in Held' : /\ b \in chain' /\ b \in Nat /\ wanted'[b] \in Nat /\ wanted'[b] > 0
                       /\ size'[b] \in Nat /\ wanted'[b] <= size'[b] - HEADER
                       /\ next'[b] = b + size'[b] /\ next'[b] <= HEAP_SIZE
  BY Arena DEF Blocks, BlockTypes, BlocksTile, HoldersSafe, Held
<1>2. \A b \in Held' : Abstract!Sound(Region(b)')
  BY <1>1, Arena DEF Abstract!Sound, Region
<1>3. \A b, c \in Held' : b < c => b + size'[b] <= c
  BY <1>1 DEF Blocks, BlocksTile
<1>4. \A b, c \in Held' : b # c => Abstract!Disjoint(Region(b)', Region(c)')
  BY <1>1, <1>3, Arena DEF Abstract!Disjoint, Region
<1>5. QED
  BY <1>2, <1>4

\* Regions are told apart by where they start.
LEMMA RegionsApart ==
    ASSUME Blocks
    PROVE  \A b, c \in Held : Region(b) = Region(c) => b = c
<1>1. \A b \in Held : b \in Nat
  BY Arena DEF Held
<1>2. QED
  BY <1>1, Arena DEF Region

\* Handing out a block obtains a region.
LEMMA TakeObtains ==
    ASSUME Blocks', NEW b, b \notin Held, Held' = Held \cup {b},
           \A c \in Held : size'[c] = size[c] /\ wanted'[c] = wanted[c]
    PROVE  Abstract!Obtain
<1>1. \A c \in Held : Region(c)' = Region(c)
  BY DEF Region
<1>2. Regions' = Regions \cup {Region(b)'}
  BY <1>1 DEF Regions
<1>3. Abstract!Sound(Region(b)')
  BY RegionFacts
<1>4. \A s \in Regions : Abstract!Disjoint(Region(b)', s)
  <2>1. \A c \in Held : Abstract!Disjoint(Region(b)', Region(c)')
    BY RegionFacts
  <2>2. QED
    BY <1>1, <2>1 DEF Regions
<1>5. QED
  BY <1>2, <1>3, <1>4 DEF Abstract!Obtain, Regions, Region

\* Giving a block back releases its region.
LEMMA FreeReleases ==
    ASSUME Blocks, NEW b \in Held, Held' = Held \ {b},
           \A c \in Held \ {b} : size'[c] = size[c] /\ wanted'[c] = wanted[c]
    PROVE  Abstract!Release
<1>1. \A c \in Held \ {b} : Region(c)' = Region(c)
  BY DEF Region
<1>2. Regions' = Regions \ {Region(b)}
  <2>1. Regions' = {Region(c) : c \in Held \ {b}}
    BY <1>1 DEF Regions
  <2>2. QED
    BY <2>1, RegionsApart DEF Regions
<1>3. QED
  BY <1>2 DEF Abstract!Release, Regions, Region

\* A realloc that keeps the block resizes its region.
LEMMA KeepResizes ==
    ASSUME IInv, IInv', NEW t \in Task, NEW b \in Addr, NEW n \in Nat, n > 0,
           ReallocKeep(t, b, n)
    PROVE  Abstract!Resize
<1>1. /\ b \in Held /\ wanted' = [wanted EXCEPT ![b] = n] /\ size' = size
  BY DEF ReallocKeep, Releasable, blockVars
<1>2. Held' = Held /\ \A c \in Held \ {b} : Region(c)' = Region(c)
  BY <1>1 DEF Held, Region, IInv, TypeOK
<1>3. Regions' = (Regions \ {Region(b)}) \cup {Region(b)'}
  <2>1. Regions \ {Region(b)} = {Region(c) : c \in Held \ {b}}
    BY <1>1, RegionsApart, InvariantParts DEF Regions
  <2>2. Regions' = {Region(c)' : c \in Held}
    BY <1>2 DEF Regions
  <2>3. QED
    BY <1>1, <1>2, <2>1, <2>2
<1>4. Abstract!Sound(Region(b)')
  BY <1>1, <1>2, RegionFacts, InvariantParts
<1>5. Region(b).start = Region(b)'.start /\ Region(b).length = Region(b)'.length
  BY <1>1 DEF Region
<1>6. QED
  BY <1>1, <1>3, <1>4, <1>5 DEF Abstract!Resize, Regions, Region

\* The heap of blocks, with its search, splits, merges and moves, behaves as an
\* allocator of disjoint regions that are as long as asked for.
THEOREM Implementation == ASSUME NoWrap PROVE Spec => AllocatorSpec
<1>1. Init => Abstract!Init
  BY DEF Init, Abstract!Init, Held
<1>2. ASSUME IInv, IInv', [Next]_vars
      PROVE  [Abstract!Next]_Regions
  <2>1. Blocks /\ Blocks'
    BY <1>2, InvariantParts
  <2>2. ASSUME UNCHANGED <<blockVars, wanted>> PROVE UNCHANGED Regions
    <3>1. Held' = Held /\ UNCHANGED <<size, wanted>>
      BY <2>2, BlocksKept DEF blockVars
    <3>2. QED
      BY <3>1, RegionsKept
  <2>3. CASE FindPass \/ FindFail
    BY <2>2, <2>3 DEF FindPass, FindFail
  <2>4. CASE FindTake
    <3>1. /\ finder \in Task /\ cur \in chain /\ Fits(cur) /\ need \in Nat
          /\ ask[finder] \in Nat /\ ask[finder] > 0 /\ need >= ask[finder] + HEADER
          /\ SplitAndUse /\ wanted' = [wanted EXCEPT ![cur] = ask[finder]]
      BY <1>2, <2>4, HeapAssumption
      DEF FindTake, IInv, TypeOK, FirstFit, CallsApart
    <3>2. /\ cur \notin Held
          /\ Held' = Held \cup {cur}
          /\ \A c \in Held : size'[c] = size[c] /\ wanted'[c] = wanted[c]
      BY <2>1, <3>1, TakeStep
    <3>3. QED
      BY <2>1, <3>2, TakeObtains DEF Abstract!Next
  <2>5. ASSUME NEW b \in Held, Release(b) PROVE Abstract!Next
    <3>1. /\ Held' = Held \ {b}
          /\ \A c \in Held \ {b} : size'[c] = size[c] /\ wanted'[c] = wanted[c]
      BY <2>1, <2>5, ReleaseStep
    <3>2. QED
      BY <2>1, <3>1, FreeReleases DEF Abstract!Next
  <2>6. ASSUME NEW t \in Task, Call(t) PROVE [Abstract!Next]_Regions
    <3>1. ASSUME NEW n \in Sizes, Alloc(t, n) PROVE UNCHANGED Regions
      BY <2>2, <3>1 DEF Alloc
    <3>2. ASSUME NEW count \in Counts, NEW n \in Sizes, Calloc(t, count, n)
          PROVE  UNCHANGED Regions
      BY <2>2, <3>2 DEF Calloc
    <3>3. ASSUME NEW b \in Addr, Free(t, b) PROVE Abstract!Next
      BY <2>5, <3>3 DEF Free, Releasable
    <3>4. ASSUME NEW b \in Addr, NEW n \in Sizes, ReallocKeep(t, b, n) PROVE Abstract!Next
      <4>1. n \in Nat /\ n > 0
        BY HeapAssumption
      <4>2. QED
        BY <1>2, <3>4, <4>1, KeepResizes DEF Abstract!Next
    <3>5. ASSUME NEW b \in Addr, NEW n \in Sizes, ReallocBegin(t, b, n) PROVE UNCHANGED Regions
      BY <2>2, <3>5 DEF ReallocBegin
    <3>6. CASE ReallocAlloc(t)
      BY <2>2, <3>6 DEF ReallocAlloc
    <3>7. CASE ReallocFree(t)
      <4>1. old[t] \in Held
        BY <1>2, <3>7 DEF ReallocFree, IInv, CopySafe
      <4>2. QED
        BY <2>5, <3>7, <4>1 DEF ReallocFree
    <3>8. QED
      BY <2>6, <3>1, <3>2, <3>3, <3>4, <3>5, <3>6, <3>7 DEF Call
  <2>7. CASE UNCHANGED vars
    BY <2>2, <2>7 DEF vars
  <2>8. QED
    BY <1>2, <2>3, <2>4, <2>6, <2>7 DEF Next, Find
<1>3. QED
  BY <1>1, <1>2, Invariance, PTL DEF Spec, AllocatorSpec, Abstract!Spec, Regions, Region

-----------------------------------------------------------------------------
(* Sums over the blocks                                                    *)

Pick(T) == CHOOSE x \in T : TRUE

\* The sums over the subsets of S, as MapThenSumSet computes them.
Sums(s, S) ==
    CHOOSE sum : sum = [T \in SUBSET S |->
        IF T = {} THEN 0 ELSE s[Pick(T)] + sum[T \ {Pick(T)}]]

LEMMA TotalIs ==
    ASSUME NEW s, NEW S
    PROVE  Total(s, S) = Sums(s, S)[S]
  BY DEF Total, MapThenSumSet, MapThenFoldSet, Pick, Sums

\* A set without its picked element is smaller.
LEMMA Picked ==
    ASSUME NEW T, IsFiniteSet(T)
    PROVE  /\ Cardinality(T) \in Nat
           /\ T = {} <=> Cardinality(T) = 0
           /\ T # {} => Pick(T) \in T
           /\ \A x \in T : /\ IsFiniteSet(T \ {x})
                           /\ Cardinality(T \ {x}) \in Nat
                           /\ Cardinality(T \ {x}) = Cardinality(T) - 1
<1>1. Cardinality(T) \in Nat /\ (T = {} <=> Cardinality(T) = 0)
  BY FS_CardinalityType, FS_EmptySet
<1>2. T # {} => Pick(T) \in T
  BY DEF Pick
<1>3. ASSUME NEW x \in T
      PROVE  /\ IsFiniteSet(T \ {x})
             /\ Cardinality(T \ {x}) \in Nat
             /\ Cardinality(T \ {x}) = Cardinality(T) - 1
  BY <1>3, FS_RemoveElement, FS_CardinalityType
<1>. QED
  BY <1>1, <1>2, <1>3

\* A set of naturals has a smallest element.
LEMMA Smallest ==
    ASSUME NEW T, T \subseteq Nat, T # {}
    PROVE  \E x \in T : \A y \in T : x <= y
<1>1. PICK x \in T : \A y \in T : <<y, x>> \notin OpToRel(<, Nat)
  BY WFMin, NatLessThanWellFounded, Zenon
<1>2. \A y \in T : ~(y < x)
  BY <1>1, Zenon DEF OpToRel
<1>3. QED
  BY <1>2

\* Among some finite sets there is a smallest one.
LEMMA SmallestSet ==
    ASSUME NEW C, C # {}, \A T \in C : IsFiniteSet(T)
    PROVE  \E T \in C : \A U \in C : Cardinality(T) <= Cardinality(U)
<1> DEFINE N == {Cardinality(T) : T \in C}
<1>1. N \subseteq Nat /\ N # {}
  BY FS_CardinalityType
<1> HIDE DEF N
<1>2. PICK n \in N : \A m \in N : n <= m
  BY <1>1, Smallest
<1>. QED
  BY <1>2 DEF N

\* There are functions that sum up the subsets of at most n elements.
LEMMA SumsExist ==
    ASSUME NEW s, NEW S, IsFiniteSet(S)
    PROVE  \A T \in SUBSET S : Sums(s, S)[T] =
               IF T = {} THEN 0 ELSE s[Pick(T)] + Sums(s, S)[T \ {Pick(T)}]
<1> DEFINE Step(f, T) == IF T = {} THEN 0 ELSE s[Pick(T)] + f[T \ {Pick(T)}]
           Good(f, n) == \A T \in SUBSET S : Cardinality(T) <= n => f[T] = Step(f, T)
           Bad == {n \in Nat : \A f : ~Good(f, n)}
<1>1. \A T \in SUBSET S : /\ IsFiniteSet(T) /\ Cardinality(T) \in Nat
                          /\ T = {} <=> Cardinality(T) = 0
                          /\ T # {} => /\ Pick(T) \in T /\ T \ {Pick(T)} \in SUBSET S
                                       /\ Cardinality(T \ {Pick(T)}) = Cardinality(T) - 1
  <2>1. \A T \in SUBSET S : IsFiniteSet(T)
    BY FS_Subset
  <2>. QED
    BY <2>1, Picked
<1>2. Bad = {}
  <2>1. SUFFICES ASSUME Bad # {} PROVE FALSE
    OBVIOUS
  <2>0. Bad \subseteq Nat /\ \A n \in Nat : n \in Bad <=> \A f : ~Good(f, n)
    <3> HIDE DEF Good
    <3>. QED
      OBVIOUS
  <2> HIDE DEF Bad
  <2>2. PICK n \in Bad : \A m \in Bad : n <= m
    BY <2>0, <2>1, Smallest
  <2>5. n \in Nat /\ \A f : ~Good(f, n)
    BY <2>0, <2>2
  <2>3. CASE n = 0
    <3> DEFINE f == [T \in SUBSET S |-> 0]
    <3>1. ASSUME NEW T \in SUBSET S, Cardinality(T) <= 0
          PROVE  f[T] = Step(f, T)
      <4>1. Cardinality(T) \in Nat /\ (T = {} <=> Cardinality(T) = 0)
        BY <1>1
      <4>2. T = {}
        BY <4>1, <3>1
      <4>. QED
        BY <4>2
    <3> HIDE DEF f, Step
    <3>2. Good(f, 0)
      BY <3>1
    <3>. QED
      BY <2>3, <2>5, <3>2
  <2>4. CASE n > 0
    <3>1. n - 1 \in Nat /\ n - 1 \notin Bad
      BY <2>0, <2>2, <2>4, <2>5
    <3>2. PICK f : Good(f, n - 1)
      <4> HIDE DEF Good
      <4>. QED
        BY <2>0, <3>1
    <3> DEFINE g == [T \in SUBSET S |-> Step(f, T)]
    <3>3. ASSUME NEW T \in SUBSET S, Cardinality(T) <= n
          PROVE  g[T] = Step(g, T)
      <4>1. CASE T = {}
        BY <4>1
      <4>2. CASE T # {}
        <5> DEFINE V == T \ {Pick(T)}
        <5>1. V \in SUBSET S /\ Cardinality(V) <= n - 1
          BY <1>1, <3>3, <4>2, <2>5
        <5> HIDE DEF V
        <5>2. f[V] = Step(f, V)
          BY <5>1, <3>2
        <5>3. g[V] = Step(f, V)
          BY <5>1
        <5>4. g[T] = s[Pick(T)] + f[V]
          BY <4>2 DEF V
        <5>5. Step(g, T) = s[Pick(T)] + g[V]
          BY <4>2 DEF V
        <5>. QED
          BY <5>2, <5>3, <5>4, <5>5
      <4>. QED
        BY <4>1, <4>2
    <3> HIDE DEF g, Step
    <3>4. Good(g, n)
      BY <3>3
    <3>. QED
      BY <2>5, <3>4
  <2>. QED
    BY <2>3, <2>4, <2>5
<1>3. PICK f : Good(f, Cardinality(S))
  <2>1. Cardinality(S) \in Nat /\ Cardinality(S) \notin Bad
    BY <1>1, <1>2
  <2> HIDE DEF Good
  <2>. QED
    BY <2>1
<1> DEFINE g == [T \in SUBSET S |-> f[T]]
<1>4. \A T \in SUBSET S : Cardinality(T) <= Cardinality(S)
  BY FS_Subset
<1>5. g = [T \in SUBSET S |-> Step(g, T)]
  <2>1. ASSUME NEW T \in SUBSET S PROVE f[T] = Step(g, T)
    <3>1. f[T] = Step(f, T)
      BY <1>3, <1>4
    <3>2. T # {} => g[T \ {Pick(T)}] = f[T \ {Pick(T)}]
      BY <1>1
    <3>. QED
      BY <3>1, <3>2
  <2>. QED
    BY <2>1
<1> HIDE DEF g
<1>6. \E h : h = [T \in SUBSET S |-> Step(h, T)]
  BY <1>5
<1>7. PICK h : h = [T \in SUBSET S |-> Step(h, T)] /\ h = Sums(s, S)
  BY <1>6 DEF Sums
<1>. QED
  BY <1>7

\* A sum over the subsets of a larger set is a sum.
LEMMA SumsAgree ==
    ASSUME NEW s, NEW S, IsFiniteSet(S), NEW R \in SUBSET S
    PROVE  Sums(s, S)[R] = Sums(s, R)[R]
<1> DEFINE f == Sums(s, S)
           g == Sums(s, R)
           Bad == {T \in SUBSET R : f[T] # g[T]}
<1>1. IsFiniteSet(R) /\ \A T \in SUBSET R : T \in SUBSET S /\ IsFiniteSet(T)
  BY FS_Subset
<1>2. /\ \A T \in SUBSET S : f[T] = IF T = {} THEN 0 ELSE s[Pick(T)] + f[T \ {Pick(T)}]
      /\ \A T \in SUBSET R : g[T] = IF T = {} THEN 0 ELSE s[Pick(T)] + g[T \ {Pick(T)}]
  BY <1>1, SumsExist
<1> HIDE DEF f, g
<1>3. Bad = {}
  <2>1. SUFFICES ASSUME Bad # {} PROVE FALSE
    OBVIOUS
  <2>2. \A T \in Bad : IsFiniteSet(T)
    BY <1>1
  <2>3. PICK T \in Bad : \A U \in Bad : Cardinality(T) <= Cardinality(U)
    <3> HIDE DEF Bad
    <3>. QED
      BY <2>1, <2>2, SmallestSet
  <2>4. T \in SUBSET R /\ f[T] # g[T] /\ IsFiniteSet(T)
    BY <2>2, <2>3
  <2>5. T # {}
    BY <1>1, <1>2, <2>4
  <2>6. /\ T \ {Pick(T)} \in SUBSET R
        /\ Cardinality(T \ {Pick(T)}) \in Nat /\ Cardinality(T) \in Nat
        /\ Cardinality(T \ {Pick(T)}) < Cardinality(T)
    BY <2>4, <2>5, Picked
  <2>7. T \ {Pick(T)} \notin Bad
    BY <2>3, <2>6
  <2>8. f[T \ {Pick(T)}] = g[T \ {Pick(T)}]
    BY <2>6, <2>7
  <2>9. f[T] = s[Pick(T)] + f[T \ {Pick(T)}] /\ g[T] = s[Pick(T)] + g[T \ {Pick(T)}]
    BY <1>1, <1>2, <2>4, <2>5
  <2>. QED
    BY <2>4, <2>8, <2>9
<1>4. R \in SUBSET R /\ R \notin Bad
  BY <1>3
<1>. QED
  BY <1>4 DEF f, g

\* The sum over a set is that of its picked element and the others.
LEMMA TotalStep ==
    ASSUME NEW s, NEW S, IsFiniteSet(S)
    PROVE  Total(s, S) = IF S = {} THEN 0 ELSE s[Pick(S)] + Total(s, S \ {Pick(S)})
<1> DEFINE f == Sums(s, S)
<1>2. f[S] = IF S = {} THEN 0 ELSE s[Pick(S)] + f[S \ {Pick(S)}]
  BY SumsExist
<1> HIDE DEF f
<1>3. Total(s, S) = f[S]
  BY TotalIs DEF f
<1>4. f[S \ {Pick(S)}] = Total(s, S \ {Pick(S)})
  BY SumsAgree, TotalIs DEF f
<1>. QED
  BY <1>2, <1>3, <1>4

\* Sums of integers are integers, and depend on what is summed up only.
LEMMA TotalFacts ==
    ASSUME NEW s, NEW S, IsFiniteSet(S), \A x \in S : s[x] \in Int
    PROVE  /\ Total(s, S) \in Int
           /\ \A r : (\A x \in S : r[x] = s[x]) => Total(r, S) = Total(s, S)
<1> DEFINE Fine(T) == /\ Total(s, T) \in Int
                      /\ \A r : (\A x \in S : r[x] = s[x]) => Total(r, T) = Total(s, T)
           Bad == {T \in SUBSET S : ~Fine(T)}
<1>1. \A T \in SUBSET S : IsFiniteSet(T)
  BY FS_Subset
<1>2. Bad = {}
  <2>1. SUFFICES ASSUME Bad # {} PROVE FALSE
    OBVIOUS
  <2>2. \A T \in Bad : T \in SUBSET S /\ ~Fine(T) /\ IsFiniteSet(T)
    <3> HIDE DEF Fine
    <3>. QED
      BY <1>1
  <2>3. PICK T \in Bad : \A U \in Bad : Cardinality(T) <= Cardinality(U)
    <3> HIDE DEF Bad
    <3>. QED
      BY <2>1, <2>2, SmallestSet
  <2> DEFINE U == T \ {Pick(T)}
  <2>4. T \in SUBSET S /\ ~Fine(T) /\ IsFiniteSet(T)
    <3> HIDE DEF Bad, Fine
    <3>. QED
      BY <2>2, <2>3
  <2>5. \A r : Total(r, T) = IF T = {} THEN 0 ELSE r[Pick(T)] + Total(r, U)
    BY <2>4, TotalStep
  <2>6. CASE T = {}
    BY <2>4, <2>5, <2>6
  <2>7. CASE T # {}
    <3>1. /\ U \in SUBSET S /\ Pick(T) \in S
          /\ Cardinality(U) \in Nat /\ Cardinality(T) \in Nat
          /\ Cardinality(U) < Cardinality(T)
      <4>1. /\ Pick(T) \in T /\ Cardinality(T) \in Nat
            /\ Cardinality(U) \in Nat /\ Cardinality(U) = Cardinality(T) - 1
        BY <2>4, <2>7, Picked
      <4>. QED
        BY <2>4, <4>1
    <3> HIDE DEF U
    <3>2. Fine(U)
      <4> HIDE DEF Fine
      <4>1. U \notin Bad
        <5> HIDE DEF Bad
        <5>. QED
          BY <2>3, <3>1
      <4>. QED
        BY <3>1, <4>1
    <3>3. s[Pick(T)] \in Int
      BY <3>1
    <3>4. \A r : Total(r, T) = r[Pick(T)] + Total(r, U)
      BY <2>5, <2>7
    <3>5. Total(s, T) \in Int
      BY <3>2, <3>3, <3>4
    <3>6. ASSUME NEW r, \A x \in S : r[x] = s[x]
          PROVE  Total(r, T) = Total(s, T)
      <4>1. Total(r, U) = Total(s, U)
        BY <3>2, <3>6
      <4>2. r[Pick(T)] = s[Pick(T)]
        BY <3>1, <3>6
      <4>. QED
        BY <4>1, <4>2, <3>4
    <3>. QED
      BY <2>4, <3>5, <3>6
  <2>. QED
    BY <2>6, <2>7
<1>3. Fine(S)
  <2>1. S \in SUBSET S /\ S \notin Bad
    BY <1>2
  <2> HIDE DEF Fine
  <2>. QED
    BY <2>1
<1>. QED
  BY <1>3

\* Any element can be taken out of a sum.
LEMMA TotalWithout ==
    ASSUME NEW s, NEW S, IsFiniteSet(S), \A x \in S : s[x] \in Int
    PROVE  \A x \in S : Total(s, S) = s[x] + Total(s, S \ {x})
<1> DEFINE Fine(T) == \A x \in T : Total(s, T) = s[x] + Total(s, T \ {x})
           Bad == {T \in SUBSET S : ~Fine(T)}
<1>1. \A T \in SUBSET S : IsFiniteSet(T)
  BY FS_Subset
<1>2. \A T \in SUBSET S : Total(s, T) \in Int
  <2>1. SUFFICES ASSUME NEW T \in SUBSET S PROVE Total(s, T) \in Int
    OBVIOUS
  <2>2. IsFiniteSet(T) /\ \A x \in T : s[x] \in Int
    BY <1>1
  <2>. QED
    BY <2>2, TotalFacts
<1>3. Bad = {}
  <2>1. SUFFICES ASSUME Bad # {} PROVE FALSE
    OBVIOUS
  <2>2. \A T \in Bad : T \in SUBSET S /\ ~Fine(T) /\ IsFiniteSet(T)
    <3> HIDE DEF Fine
    <3>. QED
      BY <1>1
  <2>3. PICK T \in Bad : \A U \in Bad : Cardinality(T) <= Cardinality(U)
    <3> HIDE DEF Bad
    <3>. QED
      BY <2>1, <2>2, SmallestSet
  <2>4. T \in SUBSET S /\ ~Fine(T) /\ IsFiniteSet(T)
    <3> HIDE DEF Bad, Fine
    <3>. QED
      BY <2>2, <2>3
  <2>5. PICK x \in T : Total(s, T) # s[x] + Total(s, T \ {x})
    BY <2>4
  <2> DEFINE p == Pick(T)
             A == T \ {x}
             B == T \ {p}
             C == T \ {x, p}
  <2>6. p \in T /\ Total(s, T) = s[p] + Total(s, B)
    BY <2>4, <2>5, TotalStep DEF Pick
  <2>7. p # x
    BY <2>5, <2>6
  <2>8. /\ A \in SUBSET S /\ B \in SUBSET S /\ C \in SUBSET S
        /\ x \in B /\ p \in A /\ C = A \ {p} /\ C = B \ {x}
    BY <2>4, <2>5, <2>6, <2>7
  <2>9. /\ Cardinality(T) \in Nat
        /\ Cardinality(A) \in Nat /\ Cardinality(A) < Cardinality(T)
        /\ Cardinality(B) \in Nat /\ Cardinality(B) < Cardinality(T)
    <3>1. /\ Cardinality(T) \in Nat
          /\ Cardinality(A) \in Nat /\ Cardinality(A) = Cardinality(T) - 1
      BY <2>4, <2>5, Picked
    <3>2. Cardinality(B) \in Nat /\ Cardinality(B) = Cardinality(T) - 1
      BY <2>4, <2>6, Picked
    <3>. QED
      BY <3>1, <3>2
  <2>10. s[p] \in Int /\ s[x] \in Int
    BY <2>4, <2>5, <2>6
  <2> HIDE DEF A, B, C, p
  <2>11. Fine(A) /\ Fine(B)
    <3>1. A \notin Bad /\ B \notin Bad
      <4> HIDE DEF Bad
      <4>. QED
        BY <2>3, <2>9
    <3> HIDE DEF Fine
    <3>. QED
      BY <2>8, <3>1
  <2>12. /\ Total(s, A) = s[p] + Total(s, C)
         /\ Total(s, B) = s[x] + Total(s, C)
    BY <2>8, <2>11
  <2>13. Total(s, T) # s[x] + Total(s, A)
    BY <2>5 DEF A
  <2>. QED
    BY <1>2, <2>6, <2>8, <2>10, <2>12, <2>13
<1>4. Fine(S)
  <2>1. S \in SUBSET S /\ S \notin Bad
    BY <1>3
  <2> HIDE DEF Fine
  <2>. QED
    BY <2>1
<1>. QED
  BY <1>4

-----------------------------------------------------------------------------
(* The statistics                                                          *)

\* The used blocks are those that somebody holds, and blocks are finitely many.
LEMMA UsedBlocks ==
    ASSUME Blocks
    PROVE  /\ {b \in chain : used[b]} = Held
           /\ Held \subseteq chain
           /\ IsFiniteSet(chain) /\ IsFiniteSet(Held)
           /\ \A b \in Held : size[b] \in Int
<1>1. /\ \A b \in chain : used[b] <=> wanted[b] > 0
      /\ Held \subseteq chain /\ chain \subseteq Addr
      /\ \A b \in Addr : size[b] \in Int
  BY Arena DEF Blocks, BlockTypes, HoldersSafe
<1>2. IsFiniteSet(Addr)
  BY FS_Interval, Arena DEF Addr
<1>3. IsFiniteSet(chain) /\ IsFiniteSet(Held)
  BY <1>1, <1>2, FS_Subset
<1>. QED
  BY <1>1, <1>3 DEF Held

\* What mem_stats says, in terms of the blocks that are held.
LEMMA StatsMean ==
    ASSUME Blocks
    PROVE  /\ StatsExact <=> /\ usedSize = HEADER + Total(size, Held)
                             /\ usedSize + freeSize = HEAP_SIZE
                             /\ fragments = Cardinality(chain)
           /\ Total(size, Held) \in Int
           /\ Cardinality(chain) \in Nat
<1>1. Total(size, Held) \in Int
  BY UsedBlocks, TotalFacts
<1>2. Cardinality(chain) \in Nat
  BY UsedBlocks, FS_CardinalityType
<1>. QED
  BY <1>1, <1>2, UsedBlocks DEF StatsExact

\* The same about the state after a step.
LEMMA UsedBlocksNext ==
    ASSUME Blocks'
    PROVE  /\ {b \in chain' : used'[b]} = Held'
           /\ IsFiniteSet(chain') /\ IsFiniteSet(Held')
           /\ \A b \in Held' : size'[b] \in Int
<1>1. /\ \A b \in chain' : used'[b] <=> wanted'[b] > 0
      /\ Held' \subseteq chain' /\ chain' \subseteq Addr
      /\ \A b \in Addr : size'[b] \in Int
  BY Arena DEF Blocks, BlockTypes, HoldersSafe
<1>2. IsFiniteSet(Addr)
  BY FS_Interval, Arena DEF Addr
<1>3. IsFiniteSet(chain') /\ IsFiniteSet(Held')
  BY <1>1, <1>2, FS_Subset
<1>4. Held' = {b \in Addr : wanted'[b] > 0} /\ \A b \in Held' : b \in Addr
  BY DEF Held
<1>5. {b \in chain' : used'[b]} = Held'
  BY <1>1, <1>4
<1>. QED
  BY <1>1, <1>3, <1>4, <1>5

\* mem_stats is exact after a step if it is so for what is held then.
LEMMA StatsNext ==
    ASSUME Blocks',
           usedSize' = HEADER + Total(size', Held'),
           usedSize' + freeSize' = HEAP_SIZE,
           fragments' = Cardinality(chain')
    PROVE  StatsExact'
<1>1. {b \in chain' : used'[b]} = Held'
  BY UsedBlocksNext
<1>. QED
  BY <1>1 DEF StatsExact

\* Nothing moves.
LEMMA StatsKept ==
    ASSUME StatsExact, UNCHANGED <<blockVars, statVars>>
    PROVE  StatsExact'
  BY DEF StatsExact, blockVars, statVars

\* flyos_mem_alloc takes a block.
LEMMA StatsTake ==
    ASSUME IInv, IInv', StatsExact, FindTake
    PROVE  StatsExact'
<1>1. /\ Blocks /\ Blocks'
      /\ usedSize \in Int /\ freeSize \in Int
  BY InvariantParts DEF StatTypes
<1>2. PICK t \in Task : t = finder
  BY InvariantParts DEF FindTake, CallTypes
<1>3. /\ cur \in chain /\ Fits(cur) /\ need \in Nat
      /\ ask[t] \in Nat /\ ask[t] > 0 /\ need >= ask[t] + HEADER
      /\ SplitAndUse /\ wanted' = [wanted EXCEPT ![cur] = ask[t]]
  BY <1>2, InvariantParts, HeapAssumption DEF FindTake, CallTypes, FirstFit, CallsApart
<1>4. usedSize' = usedSize + size'[cur] /\ freeSize' = freeSize - size'[cur]
  BY DEF FindTake
<1>5. /\ cur \notin Held /\ Held' = Held \cup {cur}
      /\ \A b \in Held : size'[b] = size[b]
  BY <1>1, <1>3, TakeStep
<1>6. Total(size', Held') = size'[cur] + Total(size, Held)
  <2>1. /\ IsFiniteSet(Held) /\ IsFiniteSet(Held')
        /\ \A b \in Held : size[b] \in Int
        /\ \A b \in Held' : size'[b] \in Int
    BY <1>1, UsedBlocks, UsedBlocksNext
  <2>2. Total(size', Held) = Total(size, Held)
    BY <1>5, <2>1, TotalFacts
  <2>3. Held' \ {cur} = Held /\ cur \in Held'
    BY <1>5
  <2>. QED
    BY <2>1, <2>2, <2>3, TotalWithout
<1>7. fragments' = Cardinality(chain')
  <2>1. IsFiniteSet(chain) /\ fragments = Cardinality(chain)
    BY <1>1, UsedBlocks DEF StatsExact
  <2>2. CASE Splits
    <3> DEFINE rest == cur + need
    <3>1. chain' = chain \cup {rest} /\ fragments' = fragments + 1
      BY <1>3, <2>2 DEF SplitAndUse
    <3>2. rest \notin chain
      <4>1. /\ cur \in Nat /\ size[cur] \in Nat
            /\ \A c \in chain : cur < c => cur + size[cur] <= c
        BY <1>1, <1>3, Arena DEF Blocks, BlockTypes, BlocksTile
      <4>2. need > 0 /\ need < size[cur]
        BY <1>3, <2>2, <4>1, HeapAssumption DEF Splits, Remaining
      <4>. QED
        BY <1>3, <4>1, <4>2
    <3> HIDE DEF rest
    <3>. QED
      BY <2>1, <3>1, <3>2, FS_AddElement
  <2>3. CASE ~Splits
    BY <1>3, <2>1, <2>3 DEF SplitAndUse
  <2>. QED
    BY <2>2, <2>3
<1>8. usedSize = HEADER + Total(size, Held) /\ usedSize + freeSize = HEAP_SIZE
  BY <1>1, StatsMean
<1>9. /\ Total(size, Held) \in Int /\ Total(size', Held') \in Int
      /\ HEADER \in Int /\ HEAP_SIZE \in Int /\ size'[cur] \in Int
  <2>1. cur \in Held'
    BY <1>5
  <2>2. IsFiniteSet(Held') /\ \A b \in Held' : size'[b] \in Int
    BY <1>1, UsedBlocksNext
  <2>3. Total(size, Held) \in Int
    BY <1>1, StatsMean
  <2>4. Total(size', Held') \in Int
    BY <2>2, TotalFacts
  <2>. QED
    BY <2>1, <2>2, <2>3, <2>4, HeapAssumption
<1>10. /\ usedSize' = HEADER + Total(size', Held')
       /\ usedSize' + freeSize' = HEAP_SIZE
  BY <1>1, <1>4, <1>6, <1>8, <1>9
<1>. QED
  BY <1>1, <1>7, <1>10, StatsNext

\* flyos_mem_free gives one back.
LEMMA StatsRelease ==
    ASSUME IInv, IInv', StatsExact, NEW b \in Held, Release(b)
    PROVE  StatsExact'
<1>1. /\ Blocks /\ Blocks'
      /\ usedSize \in Int /\ freeSize \in Int
  BY InvariantParts DEF StatTypes
<1> DEFINE gone == Merged(b)
<1>2. /\ chain' = chain \ gone
      /\ fragments' = fragments - Cardinality(gone)
      /\ usedSize'  = usedSize - size[b]
      /\ freeSize'  = freeSize + size[b]
  BY DEF Release
<1>3. gone \subseteq chain
  BY <1>1, ReleaseShape
<1> HIDE DEF gone
<1>4. Held' = Held \ {b} /\ \A c \in Held \ {b} : size'[c] = size[c]
  BY <1>1, ReleaseStep
<1>5. /\ IsFiniteSet(Held) /\ IsFiniteSet(Held') /\ IsFiniteSet(chain)
      /\ \A c \in Held : size[c] \in Int
      /\ size[b] \in Int
      /\ \A c \in Held' : size'[c] \in Int
  BY <1>1, UsedBlocks, UsedBlocksNext
<1>6. Total(size, Held) = size[b] + Total(size', Held')
  <2>1. Total(size, Held) = size[b] + Total(size, Held \ {b})
    BY <1>5, TotalWithout
  <2>2. Total(size', Held') = Total(size, Held')
    BY <1>4, <1>5, TotalFacts
  <2>. QED
    BY <1>4, <2>1, <2>2
<1>7. fragments' = Cardinality(chain')
  <2>1. fragments = Cardinality(chain)
    BY DEF StatsExact
  <2>2. Cardinality(chain \ gone) = Cardinality(chain) - Cardinality(chain \cap gone)
    BY <1>5, FS_Difference
  <2>3. chain \cap gone = gone
    BY <1>3
  <2>. QED
    BY <1>2, <2>1, <2>2, <2>3
<1>8. /\ usedSize = HEADER + Total(size, Held) /\ usedSize + freeSize = HEAP_SIZE
      /\ Total(size, Held) \in Int /\ Total(size', Held') \in Int
      /\ HEADER \in Int /\ HEAP_SIZE \in Int
  <2>1. Total(size', Held') \in Int
    BY <1>5, TotalFacts
  <2>. QED
    BY <1>1, <2>1, StatsMean, HeapAssumption
<1>9. /\ usedSize' = HEADER + Total(size', Held')
      /\ usedSize' + freeSize' = HEAP_SIZE
  BY <1>1, <1>2, <1>5, <1>6, <1>8
<1>. QED
  BY <1>1, <1>7, <1>9, StatsNext

\* flyos_mem_get_stats tells the truth: what is used and what is free adds up to
\* the arena, and the blocks are counted (flyos_mem.c 166-169, 262-266, 300-304).
THEOREM StatsAgree == ASSUME NoWrap PROVE Spec => []StatsExact
<1>1. Init => StatsExact
  <2>1. SUFFICES ASSUME Init PROVE StatsExact
    OBVIOUS
  <2>2. Total(size, {}) = 0 /\ Cardinality({0}) = 1
    BY TotalStep, FS_EmptySet, FS_Singleton
  <2>3. {b \in chain : used[b]} = {}
    BY <2>1, HeapAssumption DEF Init, Addr
  <2>4. HEADER \in Int /\ HEAP_SIZE \in Int
    BY HeapAssumption
  <2>5. Total(size, {b \in chain : used[b]}) = 0 /\ Cardinality(chain) = 1
    BY <2>1, <2>2, <2>3 DEF Init
  <2>6. usedSize = HEADER /\ freeSize = HEAP_SIZE - HEADER /\ fragments = 1
    BY <2>1 DEF Init
  <2>. QED
    BY <2>4, <2>5, <2>6 DEF StatsExact
<1>2. ASSUME IInv, IInv', StatsExact, [Next]_vars
      PROVE  StatsExact'
  <2>1. CASE FindTake
    BY <1>2, <2>1, StatsTake
  <2>2. ASSUME NEW t \in Task, NEW b \in Addr, Free(t, b) PROVE StatsExact'
    BY <1>2, <2>2, StatsRelease DEF Free, Releasable
  <2>3. ASSUME NEW t \in Task, ReallocFree(t) PROVE StatsExact'
    <3>1. old[t] \in Held
      BY <1>2, <2>3, InvariantParts DEF ReallocFree, CopySafe
    <3>. QED
      BY <1>2, <2>3, <3>1, StatsRelease DEF ReallocFree
  <2>4. CASE UNCHANGED <<blockVars, statVars>>
    BY <1>2, <2>4, StatsKept
  <2>5. CASE FindPass \/ FindFail
    BY <2>4, <2>5 DEF FindPass, FindFail
  <2>6. ASSUME NEW t \in Task, Call(t) PROVE StatsExact'
    BY <2>2, <2>3, <2>4, <2>6 DEF Call, Alloc, Calloc, ReallocKeep, ReallocBegin, ReallocAlloc
  <2>7. CASE UNCHANGED vars
    BY <2>4, <2>7 DEF vars
  <2>. QED
    BY <1>2, <2>1, <2>5, <2>6, <2>7 DEF Next, Find
<1>. QED
  BY <1>1, <1>2, Invariance, PTL DEF Spec
=============================================================================
