------------------------- MODULE FlyosKernelProofs --------------------------
(***************************************************************************)
(* The kernel of flyos_kernel.c with any number of tasks, priorities and   *)
(* delays, and one supervisor: its lists agree with its task states, it    *)
(* runs the most urgent task, it respects the scheduler lock, and no delay *)
(* is cut short.                                                           *)
(***************************************************************************)
EXTENDS FlyosKernel, Integers, SequenceTheorems, WellFoundedInduction, TLAPS

-----------------------------------------------------------------------------
(* Sequences: the delta queue and the ready lists                          *)

\* No element occurs twice in s.
NoDuplicates(s) == \A i, j \in 1..Len(s) : s[i] = s[j] => i = j

\* A stretch of a list keeps the order of its nodes.
LEMMA PartOf ==
    ASSUME NEW S, NEW s \in Seq(S), NEW j \in 1..(Len(s) + 1), NEW k \in 0..Len(s), j <= k + 1
    PROVE  /\ SubSeq(s, j, k) \in Seq(S) /\ Len(SubSeq(s, j, k)) = k - j + 1
           /\ \A i \in 1..(k - j + 1) : SubSeq(s, j, k)[i] = s[j + i - 1]
<1>1. /\ j \in Int /\ k \in Int /\ \A i \in j..k : s[i] \in S
  BY LenProperties, ElementOfSeq
<1>. QED
  BY <1>1, SubSeqProperties

\* Linking a node (delta_queue_insert) shifts the nodes that follow it by one.
LEMMA InsertAtProperties ==
    ASSUME NEW S, NEW s \in Seq(S), NEW k \in 1..(Len(s) + 1), NEW e \in S
    PROVE  /\ InsertAt(s, k, e) \in Seq(S)
           /\ Len(InsertAt(s, k, e)) = Len(s) + 1
           /\ \A i \in 1..(Len(s) + 1) :
                 InsertAt(s, k, e)[i] = IF i < k THEN s[i]
                                        ELSE IF i = k THEN e ELSE s[i - 1]
<1> DEFINE a == SubSeq(s, 1, k - 1)
           b == SubSeq(s, k, Len(s))
<1>1. Len(s) \in Nat
  OBVIOUS
<1>2. /\ a \in Seq(S) /\ Len(a) = k - 1 /\ \A i \in 1..(k - 1) : a[i] = s[i]
      /\ b \in Seq(S) /\ Len(b) = Len(s) - k + 1
      /\ \A i \in 1..(Len(s) - k + 1) : b[i] = s[k + i - 1]
  BY <1>1, PartOf
<1> DEFINE ae == a \o <<e>>
<1>3. InsertAt(s, k, e) = ae \o b
  BY DEF InsertAt
<1> HIDE DEF a, b
<1>4. /\ ae \in Seq(S) /\ Len(ae) = k
      /\ \A i \in 1..k : ae[i] = IF i < k THEN a[i] ELSE e
  BY <1>1, <1>2
<1> HIDE DEF ae
<1>5. /\ ae \o b \in Seq(S) /\ Len(ae \o b) = Len(s) + 1
      /\ \A i \in 1..(Len(s) + 1) : (ae \o b)[i] = IF i <= k THEN ae[i] ELSE b[i - k]
  <2>1. Len(ae) + Len(b) = Len(s) + 1
    BY <1>1, <1>2, <1>4
  <2>2. /\ ae \o b \in Seq(S) /\ Len(ae \o b) = Len(ae) + Len(b)
        /\ \A i \in 1..(Len(ae) + Len(b)) :
              (ae \o b)[i] = IF i <= Len(ae) THEN ae[i] ELSE b[i - Len(ae)]
    BY <1>2, <1>4, ConcatProperties
  <2>. QED
    BY <1>4, <2>1, <2>2
<1>6. \A i \in (k + 1)..(Len(s) + 1) : b[i - k] = s[k + (i - k) - 1] /\ k + (i - k) - 1 = i - 1
  BY <1>1, <1>2
<1>7. \A i \in 1..(Len(s) + 1) :
         (ae \o b)[i] = IF i < k THEN s[i] ELSE IF i = k THEN e ELSE s[i - 1]
  BY <1>1, <1>2, <1>4, <1>5, <1>6
<1>. QED
  BY <1>3, <1>5, <1>7

\* Unlinking a node (delta_queue_remove) shifts back those that follow it.
LEMMA RemoveAtProperties ==
    ASSUME NEW S, NEW s \in Seq(S), NEW k \in 1..Len(s)
    PROVE  /\ RemoveAt(s, k) \in Seq(S)
           /\ Len(RemoveAt(s, k)) = Len(s) - 1
           /\ \A i \in 1..(Len(s) - 1) :
                 RemoveAt(s, k)[i] = IF i < k THEN s[i] ELSE s[i + 1]
<1> DEFINE a == SubSeq(s, 1, k - 1)
           b == SubSeq(s, k + 1, Len(s))
<1>1. Len(s) \in Nat
  OBVIOUS
<1>2. /\ a \in Seq(S) /\ Len(a) = k - 1 /\ \A i \in 1..(k - 1) : a[i] = s[i]
      /\ b \in Seq(S) /\ Len(b) = Len(s) - k
      /\ \A i \in 1..(Len(s) - k) : b[i] = s[k + i]
  BY <1>1, PartOf
<1>3. RemoveAt(s, k) = a \o b
  BY DEF RemoveAt
<1> HIDE DEF a, b
<1>4. /\ a \o b \in Seq(S) /\ Len(a \o b) = Len(s) - 1
      /\ \A i \in 1..(Len(s) - 1) : (a \o b)[i] = IF i < k THEN a[i] ELSE b[i - (k - 1)]
  <2>1. Len(a) + Len(b) = Len(s) - 1
    BY <1>1, <1>2
  <2>2. /\ a \o b \in Seq(S) /\ Len(a \o b) = Len(a) + Len(b)
        /\ \A i \in 1..(Len(a) + Len(b)) :
              (a \o b)[i] = IF i <= Len(a) THEN a[i] ELSE b[i - Len(a)]
    BY <1>2, ConcatProperties
  <2>. QED
    BY <1>1, <1>2, <2>1, <2>2
<1>5. \A i \in k..(Len(s) - 1) : b[i - (k - 1)] = s[k + (i - (k - 1))] /\ k + (i - (k - 1)) = i + 1
  BY <1>1, <1>2
<1>6. \A i \in 1..(Len(s) - 1) : (a \o b)[i] = IF i < k THEN s[i] ELSE s[i + 1]
  BY <1>1, <1>2, <1>4, <1>5
<1>. QED
  BY <1>3, <1>4, <1>6

\* The elements of a sequence are what stands at its places.
LEMMA ToSetMembers ==
    ASSUME NEW S, NEW s \in Seq(S)
    PROVE  /\ ToSet(s) \subseteq S
           /\ \A x : x \in ToSet(s) <=> \E i \in 1..Len(s) : s[i] = x
BY DEF ToSet

\* The facts about a list that most steps start from.
LEMMA ListFacts ==
    ASSUME NEW S, NEW s \in Seq(S)
    PROVE  /\ Len(s) \in Nat
           /\ \A i \in 1..Len(s) : s[i] \in S
           /\ \A x : x \in ToSet(s) <=> \E i \in 1..Len(s) : s[i] = x
           /\ s # <<>> <=> 1 \in 1..Len(s)
           /\ s = <<>> <=> Len(s) = 0
           /\ s = <<>> => ToSet(s) = {}
BY EmptySeq DEF ToSet

\* Linking a node adds it, and keeps the list free of duplicates.
LEMMA InsertAtElements ==
    ASSUME NEW S, NEW s \in Seq(S), NEW k \in 1..(Len(s) + 1), NEW e \in S
    PROVE  /\ ToSet(InsertAt(s, k, e)) = ToSet(s) \cup {e}
           /\ NoDuplicates(s) /\ e \notin ToSet(s)
                 => NoDuplicates(InsertAt(s, k, e))
<1> DEFINE t == InsertAt(s, k, e)
           New(i) == IF i < k THEN i ELSE i + 1
           Old(i) == IF i < k THEN i ELSE i - 1
<1>1. /\ t \in Seq(S) /\ Len(t) = Len(s) + 1 /\ Len(s) \in Nat
      /\ \A i \in 1..(Len(s) + 1) :
            t[i] = IF i < k THEN s[i] ELSE IF i = k THEN e ELSE s[i - 1]
  BY InsertAtProperties, LenProperties
<1>2. /\ \A x : x \in ToSet(s) <=> \E i \in 1..Len(s) : s[i] = x
      /\ \A x : x \in ToSet(t) <=> \E i \in 1..Len(t) : t[i] = x
  BY <1>1, ListFacts
<1> HIDE DEF t
<1>3. /\ k \in 1..Len(t) /\ t[k] = e
      /\ \A i \in 1..Len(t) : i # k => Old(i) \in 1..Len(s) /\ t[i] = s[Old(i)]
      /\ \A i \in 1..Len(s) : New(i) \in 1..Len(t) /\ t[New(i)] = s[i]
      /\ \A i, j \in 1..Len(t) : i # k /\ j # k /\ Old(i) = Old(j) => i = j
  BY <1>1
<1> HIDE DEF New, Old
<1>4. ToSet(t) = ToSet(s) \cup {e}
  BY <1>2, <1>3
<1>5. ASSUME NoDuplicates(s), e \notin ToSet(s)
      PROVE  NoDuplicates(t)
  <2>1. \A i \in 1..Len(t) : i # k => t[i] # e
    BY <1>2, <1>3, <1>5
  <2>2. \A i, j \in 1..Len(t) : i # k /\ j # k /\ t[i] = t[j] => i = j
    BY <1>3, <1>5 DEF NoDuplicates
  <2>. QED
    BY <1>3, <2>1, <2>2 DEF NoDuplicates
<1>. QED
  BY <1>4, <1>5 DEF t

\* Unlinking a node of a list without duplicates takes that node away.
LEMMA RemoveAtElements ==
    ASSUME NEW S, NEW s \in Seq(S), NEW k \in 1..Len(s), NoDuplicates(s)
    PROVE  /\ ToSet(RemoveAt(s, k)) = ToSet(s) \ {s[k]}
           /\ NoDuplicates(RemoveAt(s, k))
<1> DEFINE t == RemoveAt(s, k)
           New(i) == IF i < k THEN i ELSE i - 1
           Old(i) == IF i < k THEN i ELSE i + 1
<1>1. /\ t \in Seq(S) /\ Len(t) = Len(s) - 1 /\ Len(s) \in Nat
      /\ \A i \in 1..(Len(s) - 1) : t[i] = IF i < k THEN s[i] ELSE s[i + 1]
  BY RemoveAtProperties
<1>2. /\ \A x : x \in ToSet(s) <=> \E i \in 1..Len(s) : s[i] = x
      /\ \A x : x \in ToSet(t) <=> \E i \in 1..Len(t) : t[i] = x
  BY <1>1, ListFacts
<1> HIDE DEF t
<1>3. /\ \A i \in 1..Len(t) : Old(i) \in 1..Len(s) \ {k} /\ t[i] = s[Old(i)]
      /\ \A i \in 1..Len(s) \ {k} : New(i) \in 1..Len(t) /\ t[New(i)] = s[i]
      /\ \A i, j \in 1..Len(t) : Old(i) = Old(j) => i = j
  BY <1>1
<1> HIDE DEF New, Old
<1>4. \A i \in 1..Len(s) : s[i] # s[k] <=> i # k
  BY DEF NoDuplicates
<1>5. ToSet(t) = ToSet(s) \ {s[k]}
  BY <1>2, <1>3, <1>4
<1>6. NoDuplicates(t)
  BY <1>3 DEF NoDuplicates
<1>. QED
  BY <1>5, <1>6 DEF t

\* The same for the first node, as the expiry loop unlinks it.
LEMMA TailElements ==
    ASSUME NEW S, NEW s \in Seq(S), s # <<>>, NoDuplicates(s)
    PROVE  /\ ToSet(Tail(s)) = ToSet(s) \ {s[1]}
           /\ NoDuplicates(Tail(s))
<1>1. 1 \in 1..Len(s) /\ Len(s) \in Nat
  BY ListFacts
<1>2. RemoveAt(s, 1) = Tail(s)
  <2>1. /\ RemoveAt(s, 1) \in Seq(S) /\ Len(RemoveAt(s, 1)) = Len(s) - 1
        /\ \A i \in 1..(Len(s) - 1) : RemoveAt(s, 1)[i] = s[i + 1]
    BY <1>1, RemoveAtProperties
  <2>. QED
    BY <1>1, <2>1, HeadTailProperties, SeqEqual
<1>. QED
  BY <1>1, <1>2, RemoveAtElements

\* A set of naturals has a smallest element.
LEMMA Smallest ==
    ASSUME NEW T, T \subseteq Nat, T # {}
    PROVE  \E x \in T : \A y \in T : x <= y
<1>1. PICK x \in T : \A y \in T : <<y, x>> \notin OpToRel(<, Nat)
  BY WFMin, NatLessThanWellFounded, Zenon
<1>2. \A y \in T : ~(y < x)
  BY <1>1, Zenon DEF OpToRel
<1>3. QED
  BY <1>2

-----------------------------------------------------------------------------
(* Lists and the bitmap                                                    *)

\* find_highest_priority finds the smallest number in the bitmap.
LEMMA HighestFacts ==
    ASSUME NEW b, b \subseteq Prio, b # {}
    PROVE  Highest(b) \in b /\ \A q \in b : Highest(b) <= q
<1>1. b \subseteq Nat
  BY KernelAssumption DEF Prio
<1>2. \E p \in b : \A q \in b : p <= q
  BY <1>1, Smallest
<1>3. QED
  BY <1>2 DEF Highest

\* Linking a task at the tail adds it, and keeps the head.
LEMMA AppendElements ==
    ASSUME NEW S, NEW s \in Seq(S), NEW e \in S
    PROVE  /\ Append(s, e) \in Seq(S)
           /\ Append(s, e) # <<>>
           /\ \A u : u \in ToSet(Append(s, e)) <=> u \in ToSet(s) \/ u = e
           /\ NoDuplicates(s) /\ e \notin ToSet(s) => NoDuplicates(Append(s, e))
           /\ s # <<>> => Head(Append(s, e)) = Head(s)
           /\ s = <<>> => Head(Append(s, e)) = e
<1> DEFINE a == Append(s, e)
<1>1. /\ Len(s) \in Nat
      /\ \A u : u \in ToSet(s) <=> \E i \in 1..Len(s) : s[i] = u
      /\ s = <<>> <=> Len(s) = 0
  BY ListFacts
<1>2. /\ a \in Seq(S)
      /\ Len(a) = Len(s) + 1
      /\ \A i \in 1..Len(s) : a[i] = s[i]
      /\ a[Len(s) + 1] = e
  BY AppendProperties
<1> HIDE DEF a
<1>3. /\ a # <<>>
      /\ \A u : u \in ToSet(a) <=> \E i \in 1..Len(a) : a[i] = u
  <2>1. /\ a = <<>> <=> Len(a) = 0
        /\ \A u : u \in ToSet(a) <=> \E i \in 1..Len(a) : a[i] = u
    BY <1>2, ListFacts
  <2>2. QED
    BY <1>1, <1>2, <2>1
<1>4. \A u : u \in ToSet(a) <=> u \in ToSet(s) \/ u = e
  <2>1. ASSUME NEW u, u \in ToSet(a) PROVE u \in ToSet(s) \/ u = e
    <3>1. PICK i \in 1..Len(a) : a[i] = u
      BY <1>3, <2>1
    <3>2. i \in 1..Len(s) \/ i = Len(s) + 1
      BY <1>1, <1>2
    <3>3. QED
      BY <1>1, <1>2, <3>1, <3>2
  <2>2. ASSUME NEW u, u \in ToSet(s) \/ u = e PROVE u \in ToSet(a)
    <3>1. Len(s) + 1 \in 1..Len(a) /\ \A i \in 1..Len(s) : i \in 1..Len(a)
      BY <1>1, <1>2
    <3>2. QED
      BY <1>1, <1>2, <1>3, <2>2, <3>1
  <2>3. QED
    BY <2>1, <2>2
<1>5. NoDuplicates(s) /\ e \notin ToSet(s) => NoDuplicates(a)
  <2>1. \A i \in 1..Len(a) : i \in 1..Len(s) \/ i = Len(s) + 1
    BY <1>1, <1>2
  <2>2. QED
    BY <1>1, <1>2, <2>1 DEF NoDuplicates
<1>6. /\ s # <<>> => Head(a) = Head(s)
      /\ s = <<>> => Head(a) = e
  <2>1. Head(a) = a[1] /\ (s # <<>> => Head(s) = s[1])
    BY <1>2, <1>3, HeadTailProperties
  <2>2. s # <<>> => 1 \in 1..Len(s)
    BY <1>1
  <2>3. QED
    BY <1>1, <1>2, <2>1, <2>2
<1>7. QED
  BY <1>2, <1>3, <1>4, <1>5, <1>6 DEF a

\* The place of an element of a sequence.
LEMMA PlaceFacts ==
    ASSUME NEW S, NEW s \in Seq(S), NEW t \in ToSet(s)
    PROVE  PlaceOf(s, t) \in 1..Len(s) /\ s[PlaceOf(s, t)] = t
<1>1. \E i \in 1..Len(s) : s[i] = t
  BY ListFacts
<1>2. QED
  BY <1>1 DEF PlaceOf

\* Unlinking a task takes it out, and keeps the head unless it was the head.
LEMMA UnlinkElements ==
    ASSUME NEW S, NEW s \in Seq(S), NEW t \in ToSet(s), NoDuplicates(s)
    PROVE  LET r == RemoveAt(s, PlaceOf(s, t)) IN
           /\ r \in Seq(S)
           /\ \A u : u \in ToSet(r) <=> u \in ToSet(s) /\ u # t
           /\ NoDuplicates(r)
           /\ Head(s) # t => Head(r) = Head(s)
           /\ r = <<>> <=> s = <<t>>
<1> DEFINE k == PlaceOf(s, t)
           r == RemoveAt(s, k)
<1>1. k \in 1..Len(s) /\ s[k] = t
  BY PlaceFacts
<1> HIDE DEF k
<1>2. Len(s) \in Nat /\ (s = <<>> <=> Len(s) = 0)
  BY ListFacts
<1>3. /\ r \in Seq(S)
      /\ Len(r) = Len(s) - 1
      /\ \A i \in 1..(Len(s) - 1) : r[i] = IF i < k THEN s[i] ELSE s[i + 1]
  BY <1>1, RemoveAtProperties
<1>4. ToSet(r) = ToSet(s) \ {t} /\ NoDuplicates(r)
  BY <1>1, RemoveAtElements
<1> HIDE DEF r
<1>5. r = <<>> <=> Len(r) = 0
  BY <1>3, ListFacts
<1>6. s # <<>> => Head(s) = s[1]
  BY HeadTailProperties
<1>7. r # <<>> => Head(r) = r[1]
  BY <1>3, HeadTailProperties
<1>8. ASSUME Head(s) # t PROVE Head(r) = Head(s)
  <2>1. Len(s) > 0 /\ k # 1
    BY <1>1, <1>2, <1>6, <1>8
  <2>2. Len(s) > 1 /\ 1 < k /\ 1 \in 1..(Len(s) - 1)
    BY <1>1, <1>2, <2>1
  <2>3. r[1] = s[1] /\ r # <<>>
    BY <1>2, <1>3, <1>5, <2>2
  <2>4. QED
    BY <1>2, <1>6, <1>7, <2>1, <2>3
<1>9. r = <<>> <=> s = <<t>>
  <2>1. ASSUME r = <<>> PROVE s = <<t>>
    <3>1. Len(r) = 0
      BY <1>5, <2>1
    <3>2. Len(s) = 1
      BY <1>2, <1>3, <3>1
    <3>3. k = 1
      BY <1>1, <3>2
    <3>4. s[1] = t
      BY <1>1, <3>3
    <3>5. QED
      BY <3>2, <3>4
  <2>2. s = <<t>> => Len(s) = 1
    OBVIOUS
  <2>3. QED
    BY <1>3, <1>5, <2>1, <2>2
<1>10. QED
  BY <1>3, <1>4, <1>8, <1>9 DEF k, r

\* Moving the head keeps the ring of the tasks.
LEMMA RotatedElements ==
    ASSUME NEW S, NEW s \in Seq(S), NEW t \in ToSet(s), NoDuplicates(s)
    PROVE  /\ Rotated(s, t) \in Seq(S)
           /\ \A u : u \in ToSet(Rotated(s, t)) <=> u \in ToSet(s)
           /\ NoDuplicates(Rotated(s, t))
           /\ Rotated(s, t) # <<>>
<1> DEFINE k == PlaceOf(s, t)
           n == Len(s)
           a == SubSeq(s, k + 1, n)
           b == SubSeq(s, 1, k)
           r == a \o b
<1>1. k \in 1..n /\ s[k] = t
  BY PlaceFacts
<1>2. n \in Nat /\ \A i \in 1..n : s[i] \in S
  BY ListFacts
<1> HIDE DEF k, n
<1>3. /\ a \in Seq(S)
      /\ Len(a) = n - k
      /\ \A i \in 1..(n - k) : a[i] = s[k + i]
  <2>1. k + 1 \in Int /\ n \in Int /\ \A i \in (k + 1)..n : s[i] \in S
    BY <1>1, <1>2
  <2>2. /\ a \in Seq(S)
        /\ Len(a) = IF k + 1 <= n THEN n - (k + 1) + 1 ELSE 0
        /\ \A i \in 1..(n - (k + 1) + 1) : a[i] = s[k + 1 + i - 1]
    BY <2>1, SubSeqProperties
  <2>3. QED
    BY <1>1, <1>2, <2>2
<1>4. /\ b \in Seq(S)
      /\ Len(b) = k
      /\ \A i \in 1..k : b[i] = s[i]
  <2>1. 1 \in Int /\ k \in Int /\ \A i \in 1..k : s[i] \in S
    BY <1>1, <1>2
  <2>2. /\ b \in Seq(S)
        /\ Len(b) = IF 1 <= k THEN k - 1 + 1 ELSE 0
        /\ \A i \in 1..(k - 1 + 1) : b[i] = s[1 + i - 1]
    BY <2>1, SubSeqProperties
  <2>3. QED
    BY <1>1, <1>2, <2>2
<1> HIDE DEF a, b
<1>5. /\ r \in Seq(S)
      /\ Len(r) = n
      /\ \A i \in 1..n : r[i] = IF i <= n - k THEN s[k + i] ELSE s[i - (n - k)]
  <2>1. /\ r \in Seq(S)
        /\ Len(r) = Len(a) + Len(b)
        /\ \A i \in 1..(Len(a) + Len(b)) :
              r[i] = IF i <= Len(a) THEN a[i] ELSE b[i - Len(a)]
    BY <1>3, <1>4, ConcatProperties
  <2>2. Len(a) + Len(b) = n
    BY <1>1, <1>2, <1>3, <1>4
  <2>3. ASSUME NEW i \in 1..n
        PROVE  r[i] = IF i <= n - k THEN s[k + i] ELSE s[i - (n - k)]
    <3>1. CASE i <= n - k
      BY <1>1, <1>2, <1>3, <2>1, <2>2, <3>1
    <3>2. CASE ~(i <= n - k)
      <4>1. i - (n - k) \in 1..k
        BY <1>1, <1>2, <3>2
      <4>2. QED
        BY <1>1, <1>2, <1>3, <1>4, <2>1, <2>2, <3>2, <4>1
    <3>3. QED
      BY <3>1, <3>2
  <2>4. QED
    BY <2>1, <2>2, <2>3
<1> HIDE DEF r
<1>6. /\ \A u : u \in ToSet(s) <=> \E i \in 1..n : s[i] = u
      /\ \A u : u \in ToSet(r) <=> \E i \in 1..n : r[i] = u
      /\ r = <<>> <=> n = 0
  <2>1. \A u : u \in ToSet(s) <=> \E i \in 1..n : s[i] = u
    BY ListFacts DEF n
  <2>2. /\ \A u : u \in ToSet(r) <=> \E i \in 1..Len(r) : r[i] = u
        /\ r = <<>> <=> Len(r) = 0
    BY <1>5, ListFacts
  <2>3. QED
    BY <1>5, <2>1, <2>2
<1> DEFINE m(i) == IF i <= n - k THEN k + i ELSE i - (n - k)
           w(i) == IF i <= k THEN n - k + i ELSE i - k
<1>7. \A i \in 1..n : m(i) \in 1..n /\ r[i] = s[m(i)]
  BY <1>1, <1>2, <1>5
<1>8. \A i \in 1..n : w(i) \in 1..n /\ m(w(i)) = i
  BY <1>1, <1>2
<1>9. \A i, j \in 1..n : m(i) = m(j) => i = j
  BY <1>1, <1>2
<1> HIDE DEF m, w
<1>10. \A u : u \in ToSet(r) <=> u \in ToSet(s)
  <2>1. ASSUME NEW u, u \in ToSet(r) PROVE u \in ToSet(s)
    <3>1. PICK i \in 1..n : r[i] = u
      BY <1>6, <2>1
    <3>2. QED
      BY <1>6, <1>7, <3>1
  <2>2. ASSUME NEW u, u \in ToSet(s) PROVE u \in ToSet(r)
    <3>1. PICK i \in 1..n : s[i] = u
      BY <1>6, <2>2
    <3>2. w(i) \in 1..n /\ m(w(i)) = i
      BY <1>8
    <3>3. r[w(i)] = u
      BY <1>7, <3>1, <3>2
    <3>4. QED
      BY <1>6, <3>2, <3>3
  <2>3. QED
    BY <2>1, <2>2
<1>11. NoDuplicates(r)
  <2>1. \A i, j \in 1..n : s[i] = s[j] => i = j
    BY DEF NoDuplicates, n
  <2>2. QED
    BY <1>5, <1>7, <1>9, <2>1 DEF NoDuplicates
<1>12. r = Rotated(s, t)
  BY DEF r, a, b, k, n, Rotated
<1>13. QED
  BY <1>1, <1>2, <1>5, <1>6, <1>10, <1>11, <1>12

-----------------------------------------------------------------------------
(* The lists of the kernel                                                 *)

\* What the ready lists and the bitmap are, whatever the task states.
GoodLists(r, b) ==
    /\ r \in [Prio -> Seq(Thread)]
    /\ b \subseteq Prio
    /\ \A p \in Prio : NoDuplicates(r[p]) /\ (p \in b <=> r[p] # <<>>)

\* The lists hold the READY tasks of each priority.
Agree(r, st, pr) ==
    \A p \in Prio, t \in Thread :
        t \in ToSet(r[p]) <=> st[t] = "READY" /\ pr[t] = p

\* ReadyConsistent in these terms.
LEMMA ReadyMeans ==
    ASSUME ready \in [Prio -> Seq(Thread)], bits \subseteq Prio
    PROVE  ReadyConsistent <=> GoodLists(ready, bits) /\ Agree(ready, state, prio)
BY DEF ReadyConsistent, GoodLists, Agree, Distinct, NoDuplicates

\* The facts about the lists that most steps start from.
LEMMA ListsAreGood ==
    ASSUME IInv
    PROVE  GoodLists(ready, bits) /\ Agree(ready, state, prio)
BY ReadyMeans DEF IInv, TypeOK

\* flyos_remove_ready_list keeps the lists good, takes out the task and no
\* other, and leaves the other heads where they are.
LEMMA Unlinking ==
    ASSUME IInv, NEW t \in Thread
    PROVE  /\ GoodLists(ReadyWithout(t), BitsWithout(t))
           /\ \A p \in Prio, u \in Thread :
                 u \in ToSet(ReadyWithout(t)[p]) <=> u \in ToSet(ready[p]) /\ u # t
           /\ \A p \in Prio : Head(ready[p]) # t =>
                 Head(ReadyWithout(t)[p]) = Head(ready[p])
<1> DEFINE r == ReadyWithout(t)
           b == BitsWithout(t)
           q == prio[t]
<1>1. /\ ready \in [Prio -> Seq(Thread)]
      /\ bits \subseteq Prio
      /\ \A p \in Prio : NoDuplicates(ready[p]) /\ (p \in bits <=> ready[p] # <<>>)
      /\ \A p \in Prio, u \in Thread :
            u \in ToSet(ready[p]) <=> state[u] = "READY" /\ prio[u] = p
  BY ListsAreGood DEF GoodLists, Agree
<1>2. q \in Prio
  BY DEF IInv, TypeOK
<1> HIDE DEF q
<1>3. CASE t \in ToSet(ready[q])
  <2> DEFINE l == RemoveAt(ready[q], PlaceOf(ready[q], t))
  <2>1. /\ l \in Seq(Thread)
        /\ \A u : u \in ToSet(l) <=> u \in ToSet(ready[q]) /\ u # t
        /\ NoDuplicates(l)
        /\ Head(ready[q]) # t => Head(l) = Head(ready[q])
        /\ l = <<>> <=> ready[q] = <<t>>
    <3>1. ready[q] \in Seq(Thread) /\ NoDuplicates(ready[q])
      BY <1>1, <1>2
    <3>2. QED
      BY <1>3, <3>1, UnlinkElements
  <2>2. r = [ready EXCEPT ![q] = l]
    BY <1>3 DEF r, q, ReadyWithout
  <2> HIDE DEF l, r
  <2>3. /\ r \in [Prio -> Seq(Thread)]
        /\ r[q] = l
        /\ \A p \in Prio : p # q => r[p] = ready[p]
    BY <1>1, <1>2, <2>1, <2>2
  <2>4. b = IF ready[q] = <<t>> THEN bits \ {q} ELSE bits
    BY DEF b, q, BitsWithout
  <2>5. q \in bits
    <3>1. ready[q] # <<>>
      BY <1>3 DEF ToSet
    <3>2. QED
      BY <1>1, <1>2, <3>1
  <2> HIDE DEF b
  <2>6. GoodLists(r, b)
    <3>1. b \subseteq Prio /\ (q \in b <=> l # <<>>) /\ \A p \in Prio : p # q => (p \in b <=> p \in bits)
      BY <1>1, <2>1, <2>4, <2>5
    <3>2. QED
      BY <1>1, <2>1, <2>3, <3>1 DEF GoodLists
  <2>7. \A p \in Prio, u \in Thread :
           u \in ToSet(r[p]) <=> u \in ToSet(ready[p]) /\ u # t
    <3>1. \A p \in Prio : p # q => t \notin ToSet(ready[p])
      BY <1>1, <1>2 DEF q
    <3>2. QED
      BY <2>1, <2>3, <3>1
  <2>8. \A p \in Prio : Head(ready[p]) # t => Head(r[p]) = Head(ready[p])
    BY <2>1, <2>3
  <2>9. QED
    BY <2>6, <2>7, <2>8 DEF r, b
<1>4. CASE t \notin ToSet(ready[q])
  <2>1. r = ready
    BY <1>4 DEF r, q, ReadyWithout
  <2>2. b = bits
    <3>1. ready[q] # <<t>>
      <4>1. t \in ToSet(<<t>>)
        <5>1. <<t>> \in Seq(Thread) /\ Len(<<t>>) = 1 /\ <<t>>[1] = t
          OBVIOUS
        <5>2. QED
          BY <5>1, ListFacts
      <4>2. QED
        BY <1>4, <4>1
    <3>2. QED
      BY <3>1 DEF b, q, BitsWithout
  <2>3. \A p \in Prio : t \notin ToSet(ready[p])
    BY <1>1, <1>2, <1>4 DEF q
  <2> HIDE DEF r, b
  <2>4. QED
    BY <2>1, <2>2, <2>3, ListsAreGood DEF r, b
<1>5. QED
  BY <1>3, <1>4

\* The lists r with task t at the tail of list p.
LinkedAt(r, t, p) == [r EXCEPT ![p] = Append(@, t)]

\* Linking a task that is in no list, at the tail of a list.
LEMMA Linking ==
    ASSUME NEW r, NEW b, GoodLists(r, b), NEW t \in Thread, NEW p \in Prio,
           \A o \in Prio : t \notin ToSet(r[o])
    PROVE  /\ GoodLists(LinkedAt(r, t, p), b \cup {p})
           /\ \A o \in Prio, u \in Thread :
                 u \in ToSet(LinkedAt(r, t, p)[o])
                    <=> u \in ToSet(r[o]) \/ (u = t /\ o = p)
           /\ \A o \in b : Head(LinkedAt(r, t, p)[o]) = Head(r[o])
           /\ p \notin b => Head(LinkedAt(r, t, p)[p]) = t
<1> DEFINE l == Append(r[p], t)
           rr == [r EXCEPT ![p] = l]
<1>1. /\ r \in [Prio -> Seq(Thread)]
      /\ b \subseteq Prio
      /\ \A o \in Prio : NoDuplicates(r[o]) /\ (o \in b <=> r[o] # <<>>)
  BY DEF GoodLists
<1>2. /\ l \in Seq(Thread)
      /\ l # <<>>
      /\ \A u : u \in ToSet(l) <=> u \in ToSet(r[p]) \/ u = t
      /\ NoDuplicates(l)
      /\ r[p] # <<>> => Head(l) = Head(r[p])
      /\ r[p] = <<>> => Head(l) = t
  <2>1. r[p] \in Seq(Thread) /\ NoDuplicates(r[p]) /\ t \notin ToSet(r[p])
    BY <1>1
  <2>2. QED
    BY <2>1, AppendElements
<1> HIDE DEF l
<1>3. /\ rr \in [Prio -> Seq(Thread)]
      /\ rr[p] = l
      /\ \A o \in Prio : o # p => rr[o] = r[o]
  BY <1>1, <1>2
<1> HIDE DEF rr
<1>4. GoodLists(rr, b \cup {p})
  BY <1>1, <1>2, <1>3 DEF GoodLists
<1>5. \A o \in Prio, u \in Thread :
         u \in ToSet(rr[o]) <=> u \in ToSet(r[o]) \/ (u = t /\ o = p)
  BY <1>2, <1>3
<1>6. /\ \A o \in b : Head(rr[o]) = Head(r[o])
      /\ p \notin b => Head(rr[p]) = t
  BY <1>1, <1>2, <1>3
<1>7. QED
  BY <1>4, <1>5, <1>6 DEF rr, l, LinkedAt

\* flyos_insert_ready_list keeps the lists good, and links the task in the list
\* of the priority it is given and in no other.
LEMMA Relinking ==
    ASSUME IInv, NEW t \in Thread, NEW p \in Prio
    PROVE  /\ GoodLists(ReadyWith(t, p), BitsWith(t, p))
           /\ \A o \in Prio, u \in Thread :
                 u \in ToSet(ReadyWith(t, p)[o]) <=>
                    IF u = t THEN o = p ELSE u \in ToSet(ready[o])
<1> DEFINE r == ReadyWithout(t)
           b == BitsWithout(t)
           rr == LinkedAt(r, t, p)
<1>1. /\ GoodLists(r, b)
      /\ \A o \in Prio, u \in Thread :
            u \in ToSet(r[o]) <=> u \in ToSet(ready[o]) /\ u # t
  BY Unlinking
<1> HIDE DEF r, b
<1>2. \A o \in Prio : t \notin ToSet(r[o])
  BY <1>1
<1>3. /\ GoodLists(rr, b \cup {p})
      /\ \A o \in Prio, u \in Thread :
            u \in ToSet(rr[o]) <=> u \in ToSet(r[o]) \/ (u = t /\ o = p)
  BY <1>1, <1>2, Linking
<1>4. rr = ReadyWith(t, p) /\ b \cup {p} = BitsWith(t, p)
  BY DEF r, b, ReadyWith, BitsWith, LinkedAt
<1> HIDE DEF rr
<1>5. QED
  BY <1>1, <1>3, <1>4

\* The ready lists once the turn has passed to the task after t.
RotatedAt(t) == [ready EXCEPT ![prio[t]] = Rotated(@, t)]

\* Moving the head of a list keeps the lists good.
LEMMA Rotating ==
    ASSUME IInv, NEW t \in Thread, t \in ToSet(ready[prio[t]])
    PROVE  /\ GoodLists(RotatedAt(t), bits)
           /\ \A o \in Prio, u \in Thread :
                 u \in ToSet(RotatedAt(t)[o]) <=> u \in ToSet(ready[o])
<1> DEFINE q == prio[t]
           l == Rotated(ready[q], t)
           rr == [ready EXCEPT ![q] = l]
<1>1. /\ ready \in [Prio -> Seq(Thread)]
      /\ bits \subseteq Prio
      /\ \A p \in Prio : NoDuplicates(ready[p]) /\ (p \in bits <=> ready[p] # <<>>)
  BY ListsAreGood DEF GoodLists
<1>2. q \in Prio
  BY DEF IInv, TypeOK
<1>3. t \in ToSet(ready[q])
  BY DEF q
<1> HIDE DEF q
<1>4. /\ l \in Seq(Thread)
      /\ \A u : u \in ToSet(l) <=> u \in ToSet(ready[q])
      /\ NoDuplicates(l)
      /\ l # <<>>
  <2>1. ready[q] \in Seq(Thread) /\ NoDuplicates(ready[q])
    BY <1>1, <1>2
  <2>2. QED
    BY <1>3, <2>1, RotatedElements
<1>5. ready[q] # <<>>
  BY <1>3 DEF ToSet
<1> HIDE DEF l
<1>6. /\ rr \in [Prio -> Seq(Thread)]
      /\ rr[q] = l
      /\ \A o \in Prio : o # q => rr[o] = ready[o]
  BY <1>1, <1>2, <1>4
<1> HIDE DEF rr
<1>7. GoodLists(rr, bits)
  BY <1>1, <1>4, <1>5, <1>6 DEF GoodLists
<1>8. \A o \in Prio, u \in Thread : u \in ToSet(rr[o]) <=> u \in ToSet(ready[o])
  BY <1>4, <1>6
<1>9. QED
  BY <1>7, <1>8 DEF rr, l, q, RotatedAt

\* The end of a time slice moves a head, if anything.
LEMMA SliceEnds ==
    ASSUME IInv, NEW t \in Thread
    PROVE  /\ GoodLists(ReadyAfterTick(t), bits)
           /\ \A o \in Prio, u \in Thread :
                 u \in ToSet(ReadyAfterTick(t)[o]) <=> u \in ToSet(ready[o])
<1>1. CASE slice[t] = 1 /\ t \in ToSet(ready[prio[t]])
  BY <1>1, Rotating DEF ReadyAfterTick, RotatedAt
<1>2. CASE ~(slice[t] = 1 /\ t \in ToSet(ready[prio[t]]))
  BY <1>2, ListsAreGood DEF ReadyAfterTick
<1>3. QED
  BY <1>1, <1>2

\* flyos_scheduler finds the head of the list of the smallest priority that is
\* set in the bitmap.
LEMMA NextIs ==
    ASSUME NEW r, NEW b, GoodLists(r, b), NEW h \in b, \A q \in b : h <= q
    PROVE  Highest(b) = h /\ HasNext(r, b) /\ NextTask(r, b) = Head(r[h])
<1>1. b \subseteq Prio /\ Prio \subseteq Nat
  BY KernelAssumption DEF GoodLists, Prio
<1>2. Highest(b) \in b /\ \A q \in b : Highest(b) <= q
  BY <1>1, HighestFacts
<1>3. Highest(b) = h
  <2>1. Highest(b) \in Nat /\ h \in Nat
    BY <1>1, <1>2
  <2>2. Highest(b) <= h /\ h <= Highest(b)
    BY <1>2
  <2>3. QED
    BY <2>1, <2>2
<1>4. QED
  BY <1>1, <1>3 DEF GoodLists, HasNext, NextTask

\* There is always a task to run, and it is READY: at worst the idle task.
LEMMA NextIsReady ==
    ASSUME IInv
    PROVE  /\ bits # {}
           /\ HasNext(ready, bits)
           /\ NextTask(ready, bits) \in Thread
           /\ state[NextTask(ready, bits)] = "READY"
           /\ prio[NextTask(ready, bits)] = Highest(bits)
           /\ Highest(bits) \in bits
           /\ \A q \in bits : Highest(bits) <= q
<1>1. GoodLists(ready, bits) /\ Agree(ready, state, prio)
  BY ListsAreGood
<1>2. Idle \in Thread /\ state[Idle] = "READY" /\ prio[Idle] \in Prio
  BY DEF IInv, TypeOK, CallInvariant, Thread
<1>3. ready[prio[Idle]] # <<>>
  <2>1. Idle \in ToSet(ready[prio[Idle]])
    BY <1>1, <1>2 DEF Agree
  <2>2. QED
    BY <2>1 DEF ToSet
<1>4. bits # {} /\ bits \subseteq Prio
  BY <1>1, <1>2, <1>3 DEF GoodLists
<1>5. Highest(bits) \in bits /\ \A q \in bits : Highest(bits) <= q
  BY <1>4, HighestFacts
<1> DEFINE h == Highest(bits)
           n == NextTask(ready, bits)
<1>6. h \in Prio /\ ready[h] \in Seq(Thread) /\ ready[h] # <<>>
  BY <1>1, <1>4, <1>5 DEF GoodLists
<1>7. n \in Thread /\ n \in ToSet(ready[h])
  <2>1. n = ready[h][1] /\ 1 \in 1..Len(ready[h])
    BY <1>6, HeadTailProperties, ListFacts DEF NextTask
  <2>2. QED
    BY <1>6, <2>1, ListFacts
<1> HIDE DEF h, n
<1>8. state[n] = "READY" /\ prio[n] = h
  BY <1>1, <1>6, <1>7 DEF Agree
<1>9. QED
  BY <1>4, <1>5, <1>6, <1>7, <1>8 DEF h, n, HasNext

-----------------------------------------------------------------------------
(* The delta queue                                                         *)

\* The queue q is in the order of the ticks l that its tasks have left.
GoodQueue(q, l) ==
    /\ q \in Seq(Thread)
    /\ NoDuplicates(q)
    /\ \A i, j \in 1..Len(q) : i < j => l[q[i]] <= l[q[j]]

\* SleepersQueued in these terms.
LEMMA SleepersMeans ==
    ASSUME dq \in Seq(Thread)
    PROVE  SleepersQueued <=>
              /\ GoodQueue(dq, left)
              /\ \A t \in Thread :
                    t \in ToSet(dq) <=> state[t] = "BLOCK" /\ reason[t] = "DELAY"
              /\ isr = "none" => \A t \in ToSet(dq) : left[t] > 0
BY DEF SleepersQueued, GoodQueue, Distinct, NoDuplicates

\* The facts about the delta queue that most steps start from.
LEMMA QueueIsGood ==
    ASSUME IInv
    PROVE  /\ GoodQueue(dq, left)
           /\ ToSet(dq) \subseteq Thread
           /\ left \in [Thread -> Nat]
           /\ \A t \in Thread :
                 t \in ToSet(dq) <=> state[t] = "BLOCK" /\ reason[t] = "DELAY"
           /\ isr = "none" => \A t \in ToSet(dq) : left[t] > 0
BY SleepersMeans, ToSetMembers DEF IInv, TypeOK

\* The order does not depend on the ticks of tasks outside the queue.
LEMMA SameTicks ==
    ASSUME NEW q, NEW l, NEW m, GoodQueue(q, l), \A t \in ToSet(q) : m[t] = l[t]
    PROVE  GoodQueue(q, m)
<1>1. \A i \in 1..Len(q) : q[i] \in ToSet(q)
  BY ListFacts DEF GoodQueue
<1>2. QED
  BY <1>1 DEF GoodQueue

\* flyos_delta_queue_remove keeps the order and takes out one task.
LEMMA Waking ==
    ASSUME IInv, NEW t \in Thread
    PROVE  /\ GoodQueue(QueueWithout(t), left)
           /\ \A u : u \in ToSet(QueueWithout(t)) <=> u \in ToSet(dq) /\ u # t
<1> DEFINE k == PlaceOf(dq, t)
           q == RemoveAt(dq, k)
<1>1. /\ dq \in Seq(Thread)
      /\ NoDuplicates(dq)
      /\ \A i, j \in 1..Len(dq) : i < j => left[dq[i]] <= left[dq[j]]
  BY QueueIsGood DEF GoodQueue
<1>2. CASE t \in ToSet(dq)
  <2>1. k \in 1..Len(dq) /\ Len(dq) \in Nat
    BY <1>1, <1>2, PlaceFacts, ListFacts
  <2>2. /\ q \in Seq(Thread)
        /\ \A u : u \in ToSet(q) <=> u \in ToSet(dq) /\ u # t
        /\ NoDuplicates(q)
    BY <1>1, <1>2, UnlinkElements
  <2> HIDE DEF k
  <2>3. /\ Len(q) = Len(dq) - 1
        /\ \A i \in 1..(Len(dq) - 1) : q[i] = IF i < k THEN dq[i] ELSE dq[i + 1]
    BY <1>1, <2>1, RemoveAtProperties
  <2> HIDE DEF q
  <2>4. ASSUME NEW i \in 1..Len(q), NEW j \in 1..Len(q), i < j
        PROVE  left[q[i]] <= left[q[j]]
    <3> DEFINE m(n) == IF n < k THEN n ELSE n + 1
    <3>1. q[i] = dq[m(i)] /\ q[j] = dq[m(j)]
      BY <2>3
    <3>2. m(i) \in 1..Len(dq) /\ m(j) \in 1..Len(dq) /\ m(i) < m(j)
      BY <2>1, <2>3, <2>4
    <3> HIDE DEF m
    <3>3. QED
      BY <1>1, <3>1, <3>2
  <2>5. QueueWithout(t) = q
    BY <1>2 DEF QueueWithout, q, k
  <2>6. QED
    BY <2>2, <2>4, <2>5 DEF GoodQueue
<1>3. CASE t \notin ToSet(dq)
  BY <1>3, QueueIsGood DEF QueueWithout
<1>4. QED
  BY <1>2, <1>3

\* The search of flyos_delta_queue_insert stops between the tasks that fall due
\* no later and those that fall due later.
LEMMA DelayPlaceFacts ==
    ASSUME NEW q, GoodQueue(q, left), left \in [Thread -> Nat], NEW n \in Nat
    PROVE  /\ DelayPlace(q, n) \in 1..(Len(q) + 1)
           /\ \A i \in 1..Len(q) :
                 IF i < DelayPlace(q, n) THEN left[q[i]] <= n ELSE left[q[i]] > n
<1> DEFINE T == {i \in 1..(Len(q) + 1) : i <= Len(q) => left[q[i]] > n}
           P(k) == /\ \A i \in 1..(k - 1) : left[q[i]] <= n
                   /\ k <= Len(q) => left[q[k]] > n
<1>1. /\ Len(q) \in Nat
      /\ \A i \in 1..Len(q) : q[i] \in Thread
      /\ \A i, j \in 1..Len(q) : i < j => left[q[i]] <= left[q[j]]
  BY ListFacts DEF GoodQueue
<1>2. \A i \in 1..Len(q) : left[q[i]] \in Nat
  BY <1>1
<1>3. T \subseteq Nat /\ Len(q) + 1 \in T
  BY <1>1
<1>4. PICK k \in T : \A j \in T : k <= j
  BY <1>3, Smallest
<1>5. P(k)
  <2>1. ASSUME NEW i \in 1..(k - 1) PROVE left[q[i]] <= n
    <3>1. i \in 1..Len(q) /\ i \notin T
      BY <1>1, <1>4
    <3>2. ~(left[q[i]] > n)
      BY <1>1, <3>1
    <3>3. QED
      BY <1>2, <3>1, <3>2
  <2>2. QED
    BY <1>1, <2>1
<1> DEFINE d == DelayPlace(q, n)
<1>6. d \in 1..(Len(q) + 1) /\ P(d)
  BY <1>4, <1>5 DEF DelayPlace
<1> HIDE DEF d, T
<1>7. ASSUME NEW i \in 1..Len(q)
      PROVE  IF i < d THEN left[q[i]] <= n ELSE left[q[i]] > n
  <2>1. CASE i < d
    BY <1>1, <1>6, <2>1
  <2>2. CASE i = d
    BY <1>1, <1>6, <2>2
  <2>3. CASE i > d
    <3>1. d \in 1..Len(q) /\ left[q[d]] <= left[q[i]] /\ left[q[d]] > n
      BY <1>1, <1>6, <2>3
    <3>2. QED
      BY <1>2, <1>6, <2>3, <3>1
  <2>4. QED
    BY <1>6, <2>1, <2>2, <2>3
<1>8. QED
  BY <1>6, <1>7 DEF d

\* Arming a task that is not in the queue puts it at its place in the order.
LEMMA Arming ==
    ASSUME NEW q, GoodQueue(q, left), left \in [Thread -> Nat],
           NEW t \in Thread, t \notin ToSet(q), NEW n \in Nat
    PROVE  /\ GoodQueue(InsertAt(q, DelayPlace(q, n), t), [left EXCEPT ![t] = n])
           /\ ToSet(InsertAt(q, DelayPlace(q, n), t)) = ToSet(q) \cup {t}
<1> DEFINE d == DelayPlace(q, n)
           l == [left EXCEPT ![t] = n]
           r == InsertAt(q, d, t)
<1>1. /\ q \in Seq(Thread)
      /\ NoDuplicates(q)
      /\ Len(q) \in Nat
      /\ \A i \in 1..Len(q) : q[i] \in Thread /\ q[i] # t
      /\ \A i, j \in 1..Len(q) : i < j => left[q[i]] <= left[q[j]]
  BY ListFacts DEF GoodQueue
<1>2. /\ d \in 1..(Len(q) + 1)
      /\ \A i \in 1..Len(q) : IF i < d THEN left[q[i]] <= n ELSE left[q[i]] > n
  BY DelayPlaceFacts
<1> HIDE DEF d
<1>3. /\ r \in Seq(Thread)
      /\ Len(r) = Len(q) + 1
      /\ \A i \in 1..(Len(q) + 1) :
            r[i] = IF i < d THEN q[i] ELSE IF i = d THEN t ELSE q[i - 1]
  BY <1>1, <1>2, InsertAtProperties
<1>4. ToSet(r) = ToSet(q) \cup {t} /\ NoDuplicates(r)
  <2>1. /\ ToSet(InsertAt(q, d, t)) = ToSet(q) \cup {t}
        /\ NoDuplicates(q) /\ t \notin ToSet(q) => NoDuplicates(InsertAt(q, d, t))
    BY <1>1, <1>2, InsertAtElements
  <2>2. QED
    BY <1>1, <2>1
<1> HIDE DEF r
<1>5. l[t] = n /\ \A i \in 1..Len(q) : l[q[i]] = left[q[i]] /\ left[q[i]] \in Nat
  BY <1>1
<1> HIDE DEF l
<1>6. ASSUME NEW i \in 1..Len(r), NEW j \in 1..Len(r), i < j
      PROVE  l[r[i]] <= l[r[j]]
  <2>0. /\ i \in Int /\ j \in Int /\ i >= 1 /\ i < j /\ j <= Len(q) + 1
        /\ r[i] = IF i < d THEN q[i] ELSE IF i = d THEN t ELSE q[i - 1]
        /\ r[j] = IF j < d THEN q[j] ELSE IF j = d THEN t ELSE q[j - 1]
    BY <1>1, <1>3, <1>6
  <2>1. CASE j < d
    <3>1. /\ i \in 1..Len(q) /\ j \in 1..Len(q) /\ i < j
          /\ r[i] = q[i] /\ r[j] = q[j]
      BY <1>1, <1>2, <2>0, <2>1
    <3>2. QED
      BY <1>1, <1>5, <3>1
  <2>2. CASE j = d
    <3>1. i \in 1..Len(q) /\ r[i] = q[i] /\ r[j] = t /\ left[q[i]] <= n
      BY <1>1, <1>2, <2>0, <2>2
    <3>2. QED
      BY <1>5, <3>1
  <2>3. CASE j > d /\ i = d
    <3>1. j - 1 \in 1..Len(q) /\ r[j] = q[j - 1] /\ r[i] = t /\ left[q[j - 1]] > n
      BY <1>1, <1>2, <2>0, <2>3
    <3>2. QED
      BY <1>5, <3>1
  <2>4. CASE j > d /\ i < d
    <3>1. /\ i \in 1..Len(q) /\ j - 1 \in 1..Len(q)
          /\ r[i] = q[i] /\ r[j] = q[j - 1]
          /\ i < d /\ ~(j - 1 < d)
      BY <1>1, <1>2, <2>0, <2>4
    <3>2. left[q[i]] <= n /\ left[q[j - 1]] > n
      BY <1>2, <3>1
    <3>3. QED
      BY <1>5, <3>1, <3>2
  <2>5. CASE j > d /\ i > d
    <3>1. /\ i - 1 \in 1..Len(q) /\ j - 1 \in 1..Len(q) /\ i - 1 < j - 1
          /\ r[i] = q[i - 1] /\ r[j] = q[j - 1]
      BY <1>1, <1>2, <2>0, <2>5
    <3>2. QED
      BY <1>1, <1>5, <3>1
  <2>6. QED
    BY <1>2, <2>0, <2>1, <2>2, <2>3, <2>4, <2>5
<1>7. QED
  BY <1>3, <1>4, <1>6 DEF GoodQueue, l, r, d

-----------------------------------------------------------------------------
(* Adding a task to the ready lists, and taking one out                    *)

\* A task that becomes READY is linked where it belongs, and the running task
\* stays the one to run unless the new one is more urgent.
LEMMA Adding ==
    ASSUME IInv, NEW x \in Thread, state[x] # "READY", NEW p \in Prio
    PROVE  /\ GoodLists(LinkedAt(ready, x, p), bits \cup {p})
           /\ Agree(LinkedAt(ready, x, p), [state EXCEPT ![x] = "READY"],
                    [prio EXCEPT ![x] = p])
           /\ ReadyWith(x, p) = LinkedAt(ready, x, p)
           /\ BitsWith(x, p) = bits \cup {p}
           /\ \/ p < Highest(bits)
              \/ NextTask(LinkedAt(ready, x, p), bits \cup {p}) = NextTask(ready, bits)
<1> DEFINE r == LinkedAt(ready, x, p)
           b == bits \cup {p}
           h == Highest(bits)
<1>1. GoodLists(ready, bits) /\ Agree(ready, state, prio)
  BY ListsAreGood
<1>2. \A o \in Prio : x \notin ToSet(ready[o])
  BY <1>1 DEF Agree
<1>3. /\ GoodLists(r, b)
      /\ \A o \in Prio, u \in Thread :
            u \in ToSet(r[o]) <=> u \in ToSet(ready[o]) \/ (u = x /\ o = p)
      /\ \A o \in bits : Head(r[o]) = Head(ready[o])
  <2>1. GoodLists(ready, bits) /\ \A o \in Prio : x \notin ToSet(ready[o])
    BY <1>1, <1>2
  <2> HIDE DEF r, b
  <2>2. GoodLists(LinkedAt(ready, x, p), bits \cup {p})
    BY <2>1, Linking
  <2>3. \A o \in Prio, u \in Thread :
            u \in ToSet(LinkedAt(ready, x, p)[o]) <=> u \in ToSet(ready[o]) \/ (u = x /\ o = p)
    BY <2>1, <2>2, Linking
  <2>4. \A o \in bits : Head(LinkedAt(ready, x, p)[o]) = Head(ready[o])
    BY <2>1, <2>2, Linking
  <2>5. QED
    BY <2>2, <2>3, <2>4 DEF r, b
<1> HIDE DEF r
<1>4. Agree(r, [state EXCEPT ![x] = "READY"], [prio EXCEPT ![x] = p])
  <2> DEFINE st == [state EXCEPT ![x] = "READY"]
             pr == [prio EXCEPT ![x] = p]
  <2>1. /\ st[x] = "READY" /\ pr[x] = p
        /\ \A u \in Thread : u # x => st[u] = state[u] /\ pr[u] = prio[u]
    BY DEF IInv, TypeOK
  <2> HIDE DEF st, pr
  <2>2. \A o \in Prio, u \in Thread :
           u \in ToSet(r[o]) <=> st[u] = "READY" /\ pr[u] = o
    BY <1>1, <1>2, <1>3, <2>1 DEF Agree
  <2>3. QED
    BY <2>2 DEF Agree, st, pr
<1>5. ReadyWithout(x) = ready /\ BitsWithout(x) = bits
  <2>1. prio[x] \in Prio /\ x \notin ToSet(ready[prio[x]])
    BY <1>2 DEF IInv, TypeOK
  <2>2. x \in ToSet(<<x>>)
    <3>1. <<x>> \in Seq(Thread) /\ Len(<<x>>) = 1 /\ <<x>>[1] = x
      OBVIOUS
    <3>2. QED
      BY <3>1, ListFacts
  <2>3. ready[prio[x]] # <<x>>
    BY <2>1, <2>2
  <2>4. QED
    BY <2>1, <2>3 DEF ReadyWithout, BitsWithout
<1>6. h \in bits /\ (\A q \in bits : h <= q) /\ bits \subseteq Nat /\ p \in Nat
  BY <1>1, NextIsReady, KernelAssumption DEF GoodLists, Prio
<1>7. ASSUME ~(p < h) PROVE NextTask(r, b) = NextTask(ready, bits)
  <2> HIDE DEF h
  <2>1. h \in b /\ \A q \in b : h <= q
    <3>1. h \in Nat /\ h <= p
      BY <1>6, <1>7
    <3>2. QED
      BY <1>6, <3>1
  <2> HIDE DEF b
  <2>2. NextTask(r, b) = Head(r[h])
    <3>1. GoodLists(r, b)
      BY <1>3
    <3>2. QED
      BY <2>1, <3>1, NextIs
  <2>3. NextTask(ready, bits) = Head(ready[h])
    BY DEF NextTask, h
  <2>4. QED
    BY <1>3, <1>6, <2>2, <2>3
<1>8. QED
  BY <1>3, <1>4, <1>5, <1>7 DEF r, ReadyWith, BitsWith, LinkedAt

\* A task that stops being READY is unlinked, and another running task stays the
\* one to run.
LEMMA Removing ==
    ASSUME IInv, NEW x \in Thread, NEW st, st # "READY"
    PROVE  /\ GoodLists(ReadyWithout(x), BitsWithout(x))
           /\ Agree(ReadyWithout(x), [state EXCEPT ![x] = st], prio)
           /\ NextTask(ready, bits) # x =>
                 NextTask(ReadyWithout(x), BitsWithout(x)) = NextTask(ready, bits)
<1> DEFINE r == ReadyWithout(x)
           b == BitsWithout(x)
           h == Highest(bits)
           n == NextTask(ready, bits)
<1>1. GoodLists(ready, bits) /\ Agree(ready, state, prio)
  BY ListsAreGood
<1>2. /\ GoodLists(r, b)
      /\ \A o \in Prio, u \in Thread :
            u \in ToSet(r[o]) <=> u \in ToSet(ready[o]) /\ u # x
      /\ \A o \in Prio : Head(ready[o]) # x => Head(r[o]) = Head(ready[o])
  BY Unlinking
<1>3. b \subseteq bits
  BY DEF b, BitsWithout
<1> HIDE DEF r, b
<1>4. Agree(r, [state EXCEPT ![x] = st], prio)
  BY <1>1, <1>2 DEF Agree, IInv, TypeOK
<1>5. ASSUME n # x PROVE NextTask(r, b) = n
  <2>1. /\ h \in bits /\ h \in Prio
        /\ \A q \in bits : h <= q
        /\ n \in Thread /\ state[n] = "READY" /\ prio[n] = h
    BY <1>1, NextIsReady DEF GoodLists
  <2>2. n = Head(ready[h])
    BY DEF n, h, NextTask
  <2> HIDE DEF n, h
  <2>3. n \in ToSet(r[h])
    BY <1>1, <1>2, <1>5, <2>1 DEF Agree
  <2>4. h \in b
    <3>1. r[h] # <<>>
      BY <2>3 DEF ToSet
    <3>2. QED
      BY <1>2, <2>1, <3>1 DEF GoodLists
  <2>5. NextTask(r, b) = Head(r[h])
    BY <1>2, <1>3, <2>1, <2>4, NextIs
  <2>6. QED
    BY <1>2, <1>5, <2>1, <2>2, <2>5
<1>6. QED
  BY <1>2, <1>4, <1>5 DEF r, b, n

\* How ReadyConsistent is shown of the lists after a step.
LEMMA ReadyNext ==
    ASSUME GoodLists(ready', bits'), Agree(ready', state', prio')
    PROVE  ReadyConsistent' /\ ready' \in [Prio -> Seq(Thread)] /\ bits' \subseteq Prio
BY DEF ReadyConsistent, GoodLists, Agree, Distinct, NoDuplicates

\* How SleepersQueued is shown of the delta queue after a step.
LEMMA SleepersNext ==
    ASSUME GoodQueue(dq', left'),
           \A t \in Thread :
              t \in ToSet(dq') <=> state'[t] = "BLOCK" /\ reason'[t] = "DELAY",
           isr' = "none" => \A t \in ToSet(dq') : left'[t] > 0
    PROVE  SleepersQueued' /\ dq' \in Seq(Thread)
BY DEF SleepersQueued, GoodQueue, Distinct, NoDuplicates

-----------------------------------------------------------------------------
(* The invariant, one lemma per action                                     *)

\* The state after flyos_kernel_init.
LEMMA InitInvariant == Init => IInv
<1> SUFFICES ASSUME Init PROVE IInv
  OBVIOUS
<1>1. /\ IDLE_PRIORITY \in Prio /\ TIME_SLICE \in 1..TIME_SLICE
      /\ Idle \in Thread /\ Idle \notin Task /\ MAX_LOCK \in Nat /\ MAX_LEAK \in Nat
  BY KernelAssumption DEF Prio, Thread
<1>2. /\ <<Idle>> \in Seq(Thread) /\ <<Idle>> # <<>>
      /\ \A u : u \in ToSet(<<Idle>>) <=> u = Idle
      /\ NoDuplicates(<<Idle>>)
  <2>1. <<Idle>> \in Seq(Thread) /\ Len(<<Idle>>) = 1 /\ <<Idle>>[1] = Idle
    BY <1>1
  <2>2. \A u : u \in ToSet(<<Idle>>) <=> u = Idle
    <3>1. \A u : u \in ToSet(<<Idle>>) <=> \E i \in 1..Len(<<Idle>>) : <<Idle>>[i] = u
      BY <2>1, ListFacts
    <3>2. \A i \in 1..Len(<<Idle>>) : <<Idle>>[i] = Idle
      BY <2>1
    <3>3. 1 \in 1..Len(<<Idle>>)
      BY <2>1
    <3>4. QED
      BY <2>1, <3>1, <3>2, <3>3
  <2>3. QED
    BY <2>1, <2>2 DEF NoDuplicates
<1>3. /\ <<>> \in Seq(Thread) /\ Len(<<>>) = 0
      /\ \A u : u \notin ToSet(<<>>)
      /\ NoDuplicates(<<>>)
  BY DEF ToSet, NoDuplicates
<1>4. TypeOK
  <2>1. ready \in [Prio -> Seq(Thread)] /\ bits \subseteq Prio
    BY <1>1, <1>2, <1>3 DEF Init
  <2>2. dq \in Seq(Thread) /\ left \in [Thread -> Nat]
    BY <1>3 DEF Init
  <2>3. /\ state  \in [Thread -> {"NONE", "READY", "BLOCK", "CLOSE"}]
        /\ reason \in [Thread -> {"NONE", "DELAY", "SUSPEND"}]
        /\ prio   \in [Thread -> Prio]
        /\ slice  \in [Thread -> 1..TIME_SLICE]
        /\ alloc  \subseteq Thread
    BY <1>1 DEF Init
  <2>4. /\ current \in Thread
        /\ lock \in 0..MAX_LOCK
        /\ nesting \in 0..MAX_LEAK
        /\ isr \in {"none", "deal"}
        /\ pc  \in [Thread -> {"user", "schedule", "compare", "free", "leave",
                              "spin", "resume"}]
        /\ arg \in [Thread -> Thread]
    BY <1>1 DEF Init
  <2>5. started \in BOOLEAN /\ pend \in BOOLEAN
    BY DEF Init
  <2>6. QED
    BY <2>1, <2>2, <2>3, <2>4, <2>5 DEF TypeOK
<1>5. ReadyConsistent
  <2>1. /\ ready[IDLE_PRIORITY] = <<Idle>>
        /\ \A p \in Prio : p # IDLE_PRIORITY => ready[p] = <<>>
        /\ bits = {IDLE_PRIORITY}
        /\ \A t \in Thread : state[t] = "READY" <=> t = Idle
        /\ \A t \in Thread : prio[t] = IDLE_PRIORITY
    BY <1>1 DEF Init
  <2>2. GoodLists(ready, bits)
    BY <1>1, <1>2, <1>3, <1>4, <2>1 DEF GoodLists, TypeOK
  <2>3. Agree(ready, state, prio)
    BY <1>1, <1>2, <1>3, <2>1 DEF Agree
  <2>4. QED
    BY <2>2, <2>3 DEF ReadyConsistent, GoodLists, Agree, Distinct, NoDuplicates
<1>6. SleepersQueued
  BY <1>3 DEF Init, SleepersQueued, Distinct, NoDuplicates
<1>7. CallInvariant
  BY <1>1 DEF Init, CallInvariant, Thread
<1>8. DispatchInvariant
  BY DEF Init, DispatchInvariant
<1>9. QED
  BY <1>4, <1>5, <1>6, <1>7, <1>8 DEF IInv

\* flyos_kernel_start.
LEMMA StartInvariant ==
    ASSUME IInv, Start
    PROVE  IInv'
<1>1. NextTask(ready, bits) \in Thread /\ state[NextTask(ready, bits)] = "READY"
  BY NextIsReady
<1>2. TypeOK'
  BY <1>1 DEF IInv, TypeOK, Start, lists, timer, tcb, flow
<1>3. ReadyConsistent'
  BY DEF IInv, ReadyConsistent, Start, lists, tcb
<1>4. SleepersQueued'
  BY DEF IInv, SleepersQueued, Start, timer, tcb
<1>5. CallInvariant'
  BY DEF IInv, CallInvariant, Resumable, Start, tcb, flow
<1>6. DispatchInvariant'
  BY DEF IInv, DispatchInvariant, Start, lists, tcb, flow, NextTask
<1>7. QED
  BY <1>2, <1>3, <1>4, <1>5, <1>6 DEF IInv

\* The lists and the delta queue after flyos_task_create: the new task was in
\* neither, since a control block that is not allocated is CLOSEd or new.
LEMMA NewTaskLists ==
    ASSUME IInv, NEW x \in Task, NEW p \in Prio, NewTask(x, p)
    PROVE  /\ ReadyConsistent' /\ ready' \in [Prio -> Seq(Thread)] /\ bits' \subseteq Prio
           /\ SleepersQueued' /\ dq' \in Seq(Thread)
           /\ p < Highest(bits) \/ NextTask(ready', bits') = NextTask(ready, bits)
<1>1. x \in Thread /\ state[x] \in {"NONE", "CLOSE"}
  BY DEF NewTask, IInv, CallInvariant, Thread
<1>2. /\ ready' = LinkedAt(ready, x, p)
      /\ bits' = bits \cup {p}
      /\ state' = [state EXCEPT ![x] = "READY"]
      /\ prio' = [prio EXCEPT ![x] = p]
      /\ reason' = [reason EXCEPT ![x] = "NONE"]
      /\ dq' = dq /\ left' = left /\ isr' = isr
  BY DEF NewTask, LinkedAt, timer, cpu
<1>3. /\ GoodLists(ready', bits') /\ Agree(ready', state', prio')
      /\ p < Highest(bits) \/ NextTask(ready', bits') = NextTask(ready, bits)
  BY <1>1, <1>2, Adding
<1>4. \A t \in Thread : t \in ToSet(dq') <=> state'[t] = "BLOCK" /\ reason'[t] = "DELAY"
  BY <1>1, <1>2, QueueIsGood DEF IInv, TypeOK
<1>5. GoodQueue(dq', left') /\ (isr' = "none" => \A t \in ToSet(dq') : left'[t] > 0)
  BY <1>2, QueueIsGood
<1>6. QED
  BY <1>3, <1>4, <1>5, ReadyNext, SleepersNext

\* flyos_task_create from main().
LEMMA CreateBeforeStartInvariant ==
    ASSUME IInv, NEW x \in Task, NEW p \in Prio, CreateBeforeStart(x, p)
    PROVE  IInv'
<1>1. NewTask(x, p) /\ ~started
  BY DEF CreateBeforeStart
<1>2. TypeOK'
  BY <1>1, NewTaskLists, KernelAssumption
     DEF IInv, TypeOK, CreateBeforeStart, NewTask, Thread, timer, cpu, flow
<1>3. CallInvariant'
  BY <1>1 DEF IInv, TypeOK, CallInvariant, CreateBeforeStart, NewTask, Thread, cpu, flow
<1>4. DispatchInvariant'
  BY <1>1 DEF IInv, DispatchInvariant, NewTask, cpu
<1>5. QED
  BY <1>1, <1>2, <1>3, <1>4, NewTaskLists DEF IInv

\* What a task that makes a call, or goes on with one, can rely on.
LEMMA RunningFacts ==
    ASSUME IInv, NEW c \in Task, Runs(c)
    PROVE  /\ c \in Thread /\ started /\ current = c /\ isr = "none"
           /\ ~(pend /\ nesting = 0)
           /\ lock = 0 /\ ~pend /\ pc[c] \in {"user", "resume"}
                 => NextTask(ready, bits) = c
<1>1. c \in Thread /\ started /\ current = c /\ isr = "none" /\ ~(pend /\ nesting = 0)
  BY DEF Runs, Thread
<1>2. started /\ lock = 0 /\ isr = "none" /\ ~pend
         => (pc[current] \in {"user", "resume"} => NextTask(ready, bits) = current)
  BY DEF IInv, DispatchInvariant
<1>3. QED
  BY <1>1, <1>2

\* What CallInvariant says of one task.
CallOf(c) ==
    /\ ~started => pc[c] = "user"
    /\ pc[c] = "resume" =>
          c \in Calls["resume"] /\ arg[c] \in alloc /\ Resumable(arg[c])
    /\ pc[c] = "free" =>
          /\ state[arg[c]] = "CLOSE"
          /\ arg[c] # c => c \in Calls["delete"] /\ arg[c] \in alloc /\ arg[c] # current

\* CallInvariant in these terms.
LEMMA CallMeans ==
    ASSUME IInv
    PROVE  /\ state[Idle] = "READY" /\ Idle \in alloc
           /\ \A t \in Thread \ alloc : state[t] \in {"NONE", "CLOSE"}
           /\ \A c \in Task : CallOf(c)
BY DEF IInv, CallInvariant, CallOf

\* How CallInvariant is shown of the state after a step.
LEMMA CallNext ==
    ASSUME state'[Idle] = "READY", Idle \in alloc',
           \A t \in Thread \ alloc' : state'[t] \in {"NONE", "CLOSE"},
           \A c \in Task : CallOf(c)'
    PROVE  CallInvariant'
BY DEF CallInvariant, CallOf

\* A task whose call does not move on, and whose target is left alone, can
\* still rely on what it has checked.
LEMMA CallStays ==
    ASSUME IInv, NEW d \in Task, pc'[d] = pc[d], arg'[d] = arg[d],
           started => started',
           pc[d] = "resume" => /\ arg[d] \in alloc'
                               /\ state'[arg[d]] = state[arg[d]]
                               /\ reason'[arg[d]] = reason[arg[d]],
           pc[d] = "free" =>
              /\ state'[arg[d]] = state[arg[d]]
              /\ arg[d] # d => arg[d] \in alloc' /\ arg[d] # current'
    PROVE  CallOf(d)'
BY CallMeans DEF CallOf, Resumable

\* What remains of the call of a task, and that the other tasks go on as before.
LEMMA ThenFacts ==
    ASSUME IInv, NEW c \in Task, NEW x \in Thread,
           NEW next \in {"user", "schedule", "compare", "free", "leave", "spin",
                         "resume"},
           Then(c, next, x)
    PROVE  /\ pc' \in [Thread -> {"user", "schedule", "compare", "free", "leave",
                                  "spin", "resume"}]
           /\ arg' \in [Thread -> Thread]
           /\ pc'[c] = next /\ arg'[c] = x
           /\ \A d \in Task : d # c => pc'[d] = pc[d] /\ arg'[d] = arg[d]
BY DEF Then, IInv, TypeOK, Thread

\* How DispatchInvariant is shown when a task takes a step.
LEMMA DispatchNext ==
    ASSUME NEW c, started', current' = c,
           pend' /\ nesting' = 0 => lock' = 0,
           lock' = 0 /\ ~pend' =>
              /\ pc'[c] \in {"user", "resume"} => NextTask(ready', bits') = c
              /\ pc'[c] = "free" /\ arg'[c] # c => NextTask(ready', bits') = c
              /\ pc'[c] = "compare"
                    => \/ NextTask(ready', bits') = c
                       \/ prio'[arg'[c]] < prio'[c]
    PROVE  DispatchInvariant'
BY DEF DispatchInvariant

\* flyos_task_create from a task.
LEMMA CreateInvariant ==
    ASSUME IInv, NEW c \in Task, NEW x \in Task, NEW p \in Prio, Create(c, x, p)
    PROVE  IInv'
<1>1. NewTask(x, p) /\ MayCall(c, "create") /\ Runs(c) /\ pc[c] = "user"
  BY DEF Create, MayCall
<1>2. TypeOK'
  <2>1. /\ ready' \in [Prio -> Seq(Thread)] /\ bits' \subseteq Prio
        /\ dq' \in Seq(Thread) /\ left' = left
    BY <1>1, NewTaskLists DEF NewTask, timer
  <2>2. /\ state'  \in [Thread -> {"NONE", "READY", "BLOCK", "CLOSE"}]
        /\ reason' \in [Thread -> {"NONE", "DELAY", "SUSPEND"}]
        /\ prio'   \in [Thread -> Prio]
        /\ slice'  \in [Thread -> 1..TIME_SLICE]
        /\ alloc'  \subseteq Thread
    BY <1>1, KernelAssumption DEF NewTask, IInv, TypeOK, Thread
  <2>3. /\ pc'  \in [Thread -> {"user", "schedule", "compare", "free", "leave",
                                "spin", "resume"}]
        /\ arg' \in [Thread -> Thread]
    BY DEF Create, IInv, TypeOK, Thread
  <2>4. QED
    BY <1>1, <2>1, <2>2, <2>3 DEF NewTask, cpu, IInv, TypeOK
<1>3. x # c
  BY <1>1 DEF NewTask, MayCall, IInv, CallInvariant, Thread
<1>4. CallInvariant'
  <2>1. ASSUME NEW d \in Task PROVE
          /\ ~started' => pc'[d] = "user"
          /\ pc'[d] = "resume" =>
                d \in Calls["resume"] /\ arg'[d] \in alloc' /\ Resumable(arg[d])' /\ arg'[d] = arg[d]
          /\ pc'[d] = "free" =>
                /\ state'[arg'[d]] = "CLOSE"
                /\ arg'[d] # d => d \in Calls["delete"] /\ arg'[d] \in alloc' /\ arg'[d] # current'
    <3>1. CASE d = c \/ d = x
      BY <1>1, <1>3, <3>1, RunningFacts DEF Create, NewTask, cpu, IInv, TypeOK, Thread
    <3>2. CASE d # c /\ d # x
      <4>1. pc'[d] = pc[d] /\ arg'[d] = arg[d] /\ arg[d] \in Thread /\ d \in Thread
        BY <3>2 DEF Create, IInv, TypeOK, Thread
      <4>2. pc[d] \in {"resume", "free"} => arg[d] # x
        BY <1>1, <3>2 DEF NewTask, IInv, CallInvariant
      <4>3. arg[d] # x => state'[arg[d]] = state[arg[d]] /\ reason'[arg[d]] = reason[arg[d]]
        BY <1>1, <4>1 DEF NewTask, IInv, TypeOK
      <4>4. QED
        BY <1>1, <4>1, <4>2, <4>3 DEF NewTask, IInv, CallInvariant, Resumable, cpu
    <3>3. QED
      BY <3>1, <3>2
  <2>2. QED
    BY <1>1, <2>1 DEF IInv, TypeOK, CallInvariant, Resumable, NewTask, Thread
<1>5. DispatchInvariant'
  <2>1. pc'[c] = "compare" /\ arg'[c] = x /\ prio'[x] = p /\ prio'[c] = prio[c]
        /\ started' /\ current' = c /\ isr' = "none" /\ lock' = lock /\ pend' = pend
        /\ nesting' = nesting
    BY <1>1, <1>3, RunningFacts DEF Create, NewTask, IInv, TypeOK, Thread, cpu
  <2>2. lock = 0 /\ ~pend => NextTask(ready', bits') = c \/ p < prio[c]
    BY <1>1, RunningFacts, NewTaskLists, NextIsReady
  <2>3. QED
    BY <2>1, <2>2 DEF IInv, DispatchInvariant
<1>6. QED
  BY <1>1, <1>2, <1>4, <1>5, NewTaskLists DEF IInv

\* flyos_task_delete up to the end of its critical section.  No other task is
\* about to resume its target: a supervisor resumes and deletes alone, and a
\* task that deletes itself is READY.
LEMMA DeleteInvariant ==
    ASSUME Supervised, IInv, NEW c \in Task, NEW x \in Task, Delete(c, x)
    PROVE  IInv'
<1>1. /\ Runs(c) /\ pc[c] = "user" /\ state[c] = "READY" /\ x \in alloc
      /\ x # c => c \in Calls["delete"]
      /\ c \in Thread /\ x \in Thread /\ x # Idle
  BY KernelAssumption DEF Delete, MayCall, Thread
<1>2. /\ state' = [state EXCEPT ![x] = "CLOSE"]
      /\ dq' = QueueWithout(x) /\ left' = [left EXCEPT ![x] = 0]
      /\ UNCHANGED <<started, reason, prio, slice, alloc>>
      /\ UNCHANGED <<current, lock, nesting, pend, isr>>
      /\ Then(c, "free", x)
  BY DEF Delete, cpu
<1>3. /\ pc' \in [Thread -> {"user", "schedule", "compare", "free", "leave",
                             "spin", "resume"}]
      /\ arg' \in [Thread -> Thread]
      /\ pc'[c] = "free" /\ arg'[c] = x
      /\ \A d \in Task : d # c => pc'[d] = pc[d] /\ arg'[d] = arg[d]
  BY <1>1, <1>2, ThenFacts
<1>4. /\ state' \in [Thread -> {"NONE", "READY", "BLOCK", "CLOSE"}]
      /\ state'[x] = "CLOSE"
      /\ \A t \in Thread : t # x => state'[t] = state[t]
  BY <1>1, <1>2 DEF IInv, TypeOK
<1>5. /\ GoodLists(ready', bits') /\ Agree(ready', state', prio')
      /\ NextTask(ready, bits) # x => NextTask(ready', bits') = NextTask(ready, bits)
  <2>1. CASE state[x] = "READY"
    <3>1. /\ GoodLists(ReadyWithout(x), BitsWithout(x))
          /\ Agree(ReadyWithout(x), [state EXCEPT ![x] = "CLOSE"], prio)
          /\ NextTask(ready, bits) # x =>
                NextTask(ReadyWithout(x), BitsWithout(x)) = NextTask(ready, bits)
      BY <1>1, Removing
    <3>2. ready' = ReadyWithout(x) /\ bits' = BitsWithout(x)
      BY <2>1 DEF Delete
    <3>3. QED
      BY <1>2, <3>1, <3>2
  <2>2. CASE state[x] # "READY"
    <3>1. ready' = ready /\ bits' = bits
      BY <2>2 DEF Delete, lists
    <3>2. Agree(ready, state', prio)
      BY <1>4, <2>2, ListsAreGood DEF Agree
    <3>3. QED
      BY <1>2, <3>1, <3>2, ListsAreGood
  <2>3. QED
    BY <2>1, <2>2
<1>6. SleepersQueued' /\ dq' \in Seq(Thread) /\ left' \in [Thread -> Nat]
  <2>1. /\ GoodQueue(dq', left)
        /\ \A u : u \in ToSet(dq') <=> u \in ToSet(dq) /\ u # x
    BY <1>1, <1>2, Waking
  <2>2. /\ left' \in [Thread -> Nat]
        /\ \A u \in Thread : u # x => left'[u] = left[u]
    BY <1>2, QueueIsGood
  <2>3. \A u \in ToSet(dq') : u \in Thread /\ left'[u] = left[u]
    BY <2>1, <2>2, QueueIsGood
  <2>4. GoodQueue(dq', left')
    BY <2>1, <2>3, SameTicks
  <2>5. \A t \in Thread :
           t \in ToSet(dq') <=> state'[t] = "BLOCK" /\ reason'[t] = "DELAY"
    BY <1>2, <1>4, <2>1, QueueIsGood
  <2>6. isr' = "none" => \A t \in ToSet(dq') : left'[t] > 0
    BY <1>2, <2>1, <2>3, QueueIsGood
  <2>7. QED
    BY <2>2, <2>4, <2>5, <2>6, SleepersNext
<1>7. TypeOK'
  BY <1>2, <1>3, <1>4, <1>5, <1>6, ReadyNext DEF IInv, TypeOK
<1>8. CallInvariant'
  <2>1. ASSUME NEW d \in Task PROVE CallOf(d)'
    <3>1. CASE d = c
      BY <1>1, <1>2, <1>3, <1>4, <3>1, RunningFacts DEF CallOf
    <3>2. CASE d # c
      <4>1. pc[d] = "resume" => arg[d] # x
        BY <1>1, <3>2, CallMeans DEF CallOf, Resumable, Supervised
      <4>2. arg[d] \in Thread
        BY DEF IInv, TypeOK, Thread
      <4>3. pc[d] = "free" => state'[arg[d]] = state[arg[d]]
        BY <1>4, <4>2, CallMeans DEF CallOf
      <4>4. pc[d] = "resume" => arg[d] \in alloc
        BY CallMeans DEF CallOf
      <4>5. pc[d] = "free" /\ arg[d] # d => arg[d] \in alloc /\ arg[d] # current
        BY CallMeans DEF CallOf
      <4>6. QED
        BY <1>2, <1>3, <1>4, <3>2, <4>1, <4>2, <4>3, <4>4, <4>5, CallStays
    <3>3. QED
      BY <3>1, <3>2
  <2>2. QED
    BY <1>1, <1>2, <1>4, <2>1, CallMeans, CallNext
<1>9. DispatchInvariant'
  <2>1. started /\ current = c /\ ~(pend /\ nesting = 0)
        /\ (lock = 0 /\ ~pend => NextTask(ready, bits) = c)
    BY <1>1, RunningFacts
  <2>2. lock' = 0 /\ ~pend' => (arg'[c] # c => NextTask(ready', bits') = c)
    BY <1>2, <1>3, <1>5, <2>1
  <2>3. QED
    BY <1>2, <1>3, <2>1, <2>2, DispatchNext
<1>10. QED
  BY <1>5, <1>6, <1>7, <1>8, <1>9, ReadyNext DEF IInv

\* The rest of flyos_task_delete.  No other call is about to use the memory it
\* frees.
LEMMA DeleteFreeInvariant ==
    ASSUME Supervised, IInv, NEW c \in Task, DeleteFree(c)
    PROVE  IInv'
<1>1. /\ Runs(c) /\ pc[c] = "free" /\ c \in Thread
      /\ arg[c] \in Thread /\ state[arg[c]] = "CLOSE" /\ CallOf(c)
  BY CallMeans DEF DeleteFree, IInv, TypeOK, CallOf, Thread
<1>2. /\ alloc' = alloc \ {arg[c]}
      /\ UNCHANGED <<started, ready, bits, dq, left, state, reason, prio, slice>>
      /\ UNCHANGED <<current, lock, nesting, pend, isr>>
      /\ Then(c, IF arg[c] = c THEN "leave" ELSE "user", arg[c])
  BY DEF DeleteFree, lists, timer, cpu
<1>3. /\ pc' \in [Thread -> {"user", "schedule", "compare", "free", "leave",
                             "spin", "resume"}]
      /\ arg' \in [Thread -> Thread]
      /\ pc'[c] = IF arg[c] = c THEN "leave" ELSE "user"
      /\ arg'[c] = arg[c]
      /\ \A d \in Task : d # c => pc'[d] = pc[d] /\ arg'[d] = arg[d]
  BY <1>1, <1>2, ThenFacts
<1>4. TypeOK'
  BY <1>2, <1>3 DEF IInv, TypeOK
<1>5. ReadyConsistent' /\ SleepersQueued'
  BY <1>2 DEF IInv, ReadyConsistent, SleepersQueued
<1>6. CallInvariant'
  <2>1. ASSUME NEW d \in Task PROVE CallOf(d)'
    <3>1. CASE d = c
      BY <1>1, <1>2, <1>3, <3>1, RunningFacts DEF CallOf
    <3>2. CASE d # c
      <4>1. pc[d] = "resume" => arg[d] \in alloc /\ state[arg[d]] = "BLOCK"
        BY CallMeans DEF CallOf, Resumable
      <4>2. pc[d] = "free" /\ arg[d] # d =>
               d \in Calls["delete"] /\ arg[d] \in alloc /\ arg[d] # current
        BY CallMeans DEF CallOf
      <4>3. pc[d] = "free" /\ arg[d] # d => arg[d] # arg[c]
        <5>1. CASE arg[c] = c
          BY <1>1, <4>2, <5>1, RunningFacts
        <5>2. CASE arg[c] # c
          BY <1>1, <3>2, <4>2, <5>2 DEF CallOf, Supervised
        <5>3. QED
          BY <5>1, <5>2
      <4>4. QED
        BY <1>1, <1>2, <1>3, <3>2, <4>1, <4>2, <4>3, CallStays
    <3>3. QED
      BY <3>1, <3>2
  <2>2. arg[c] # Idle
    BY <1>1, CallMeans
  <2>3. QED
    BY <1>1, <1>2, <2>1, <2>2, CallMeans, CallNext
<1>7. DispatchInvariant'
  <2>1. started /\ current = c /\ ~(pend /\ nesting = 0) /\ isr = "none"
    BY <1>1, RunningFacts
  <2>2. lock = 0 /\ ~pend => (arg[c] # c => NextTask(ready, bits) = c)
    BY <1>1, <2>1 DEF IInv, DispatchInvariant
  <2>3. QED
    BY <1>2, <1>3, <2>1, <2>2, DispatchNext
<1>8. QED
  BY <1>4, <1>5, <1>6, <1>7 DEF IInv
\* flyos_scheduler requests PendSV unless the scheduler is locked or the right
\* task is running.
LEMMA Rescheduling ==
    ASSUME IInv, NEW c \in Task, Runs(c), Reschedule
    PROVE  /\ pend' \in BOOLEAN
           /\ pend' /\ nesting = 0 => lock = 0
           /\ lock = 0 /\ ~pend' => NextTask(ready, bits) = c
<1>1. pend' = (pend \/ (/\ lock = 0
                        /\ started
                        /\ ~(HasNext(ready, bits) /\ NextTask(ready, bits) = current)))
  BY DEF Reschedule
<1>2. pend \in BOOLEAN /\ started /\ current = c /\ ~(pend /\ nesting = 0)
  BY RunningFacts DEF IInv, TypeOK
<1>3. HasNext(ready, bits)
  BY NextIsReady
<1>4. QED
  BY <1>1, <1>2, <1>3

\* A step in which a task gets on with its call, or asks for the scheduler, and
\* which changes no list and no control block.
LEMMA CallStep ==
    ASSUME IInv, NEW c \in Task, Runs(c), NEW x \in Thread,
           NEW next \in {"user", "schedule", "compare", "leave", "spin", "resume"},
           UNCHANGED <<started, lists, timer, tcb, current, lock, nesting, isr>>,
           Then(c, next, x),
           next = "resume" => c \in Calls["resume"] /\ x \in alloc /\ Resumable(x),
           pend' \in BOOLEAN,
           pend' /\ nesting = 0 => lock = 0,
           lock = 0 /\ ~pend' =>
              /\ next \in {"user", "resume"} => NextTask(ready, bits) = c
              /\ next = "compare" =>
                    NextTask(ready, bits) = c \/ prio[x] < prio[c]
    PROVE  IInv'
<1>1. /\ UNCHANGED <<started, ready, bits, dq, left, state, reason, prio, slice, alloc>>
      /\ UNCHANGED <<current, lock, nesting, isr>>
  BY DEF lists, timer, tcb
<1>2. /\ pc' \in [Thread -> {"user", "schedule", "compare", "free", "leave",
                             "spin", "resume"}]
      /\ arg' \in [Thread -> Thread]
      /\ pc'[c] = next /\ arg'[c] = x
      /\ \A d \in Task : d # c => pc'[d] = pc[d] /\ arg'[d] = arg[d]
  BY ThenFacts
<1>3. started /\ current = c
  BY RunningFacts
<1>4. TypeOK'
  BY <1>1, <1>2 DEF IInv, TypeOK
<1>5. ReadyConsistent' /\ SleepersQueued'
  BY <1>1 DEF IInv, ReadyConsistent, SleepersQueued
<1>6. CallInvariant'
  <2>1. ASSUME NEW d \in Task PROVE CallOf(d)'
    <3>1. CASE d = c
      BY <1>1, <1>2, <1>3, <3>1 DEF CallOf, Resumable
    <3>2. CASE d # c
      BY <1>1, <1>2, <3>2, CallMeans, CallStays DEF CallOf
    <3>3. QED
      BY <3>1, <3>2
  <2>2. QED
    BY <1>1, <2>1, CallMeans, CallNext
<1>7. DispatchInvariant'
  BY <1>1, <1>2, <1>3, DispatchNext
<1>8. QED
  BY <1>4, <1>5, <1>6, <1>7 DEF IInv

\* The end of flyos_task_delete for a task that deletes itself.
LEMMA DeleteLeaveInvariant ==
    ASSUME IInv, NEW c \in Task, DeleteLeave(c)
    PROVE  IInv'
<1>1. /\ Runs(c) /\ Reschedule /\ Then(c, "spin", c) /\ c \in Thread
      /\ UNCHANGED <<started, lists, timer, tcb, current, lock, nesting, isr>>
  BY DEF DeleteLeave, Thread
<1>2. QED
  BY <1>1, Rescheduling, CallStep

\* The call of flyos_scheduler.
LEMMA CallSchedulerInvariant ==
    ASSUME IInv, NEW c \in Task, CallScheduler(c)
    PROVE  IInv'
<1>1. /\ Runs(c) /\ Reschedule /\ Then(c, "user", arg[c]) /\ arg[c] \in Thread
      /\ UNCHANGED <<started, lists, timer, tcb, current, lock, nesting, isr>>
  BY DEF CallScheduler, IInv, TypeOK, Thread
<1>2. QED
  BY <1>1, Rescheduling, CallStep

\* The comparison with which flyos_task_create and flyos_task_resume decide
\* whether to call flyos_scheduler.
LEMMA CompareAndCallInvariant ==
    ASSUME IInv, NEW c \in Task, CompareAndCall(c)
    PROVE  IInv'
<1>1. /\ Runs(c) /\ pc[c] = "compare" /\ Then(c, "user", arg[c]) /\ arg[c] \in Thread
      /\ UNCHANGED <<started, lists, timer, tcb, current, lock, nesting, isr>>
  BY DEF CompareAndCall, IInv, TypeOK, Thread
<1>2. started /\ current = c /\ isr = "none" /\ ~(pend /\ nesting = 0)
  BY <1>1, RunningFacts
<1>3. CASE prio[arg[c]] < prio[c]
  <2>1. Reschedule
    BY <1>2, <1>3 DEF CompareAndCall
  <2>2. QED
    BY <1>1, <2>1, Rescheduling, CallStep
<1>4. CASE ~(prio[arg[c]] < prio[c])
  <2>1. pend' = pend
    BY <1>2, <1>4 DEF CompareAndCall
  <2>2. lock = 0 /\ ~pend => NextTask(ready, bits) = c
    BY <1>1, <1>2, <1>4 DEF IInv, DispatchInvariant
  <2>3. pend \in BOOLEAN
    BY DEF IInv, TypeOK
  <2>4. QED
    BY <1>1, <1>2, <2>1, <2>2, <2>3, CallStep
<1>5. QED
  BY <1>3, <1>4

\* The check with which flyos_task_resume begins.
LEMMA ResumeCheckInvariant ==
    ASSUME IInv, NEW c \in Task, NEW x \in Task, ResumeCheck(c, x)
    PROVE  IInv'
<1>1. /\ Runs(c) /\ pc[c] = "user" /\ c \in Calls["resume"]
      /\ x \in Thread /\ x \in alloc /\ Resumable(x) /\ Then(c, "resume", x)
      /\ UNCHANGED <<started, lists, timer, tcb, current, lock, nesting, isr>>
      /\ pend' = pend
  BY DEF ResumeCheck, MayCall, Thread, cpu
<1>2. /\ ~(pend /\ nesting = 0)
      /\ lock = 0 /\ ~pend => NextTask(ready, bits) = c
  BY <1>1, RunningFacts
<1>3. pend \in BOOLEAN
  BY DEF IInv, TypeOK
<1>4. QED
  BY <1>1, <1>2, <1>3, CallStep
\* A step that leaves the delta queue alone, and blocks or wakes no sleeper.
LEMMA SleepersKept ==
    ASSUME IInv, UNCHANGED timer, isr' = isr,
           \A t \in Thread : state'[t] = "BLOCK" /\ reason'[t] = "DELAY"
                                <=> state[t] = "BLOCK" /\ reason[t] = "DELAY"
    PROVE  SleepersQueued' /\ dq' \in Seq(Thread) /\ left' \in [Thread -> Nat]
<1>1. dq' = dq /\ left' = left
  BY DEF timer
<1>2. GoodQueue(dq', left') /\ (isr' = "none" => \A t \in ToSet(dq') : left'[t] > 0)
  BY <1>1, QueueIsGood
<1>3. \A t \in Thread :
         t \in ToSet(dq') <=> state'[t] = "BLOCK" /\ reason'[t] = "DELAY"
  BY <1>1, QueueIsGood
<1>4. QED
  BY <1>1, <1>2, <1>3, SleepersNext, QueueIsGood

\* A critical section in which a task relinks tasks, and leaves those alone that
\* have been deleted or that another task is about to resume.
LEMMA ListStep ==
    ASSUME IInv, NEW c \in Task, Runs(c), NEW x \in Thread,
           NEW next \in {"user", "schedule", "compare"},
           UNCHANGED <<started, slice, alloc, cpu>>,
           Then(c, next, x),
           GoodLists(ready', bits'), Agree(ready', state', prio'),
           SleepersQueued', dq' \in Seq(Thread), left' \in [Thread -> Nat],
           state'  \in [Thread -> {"NONE", "READY", "BLOCK", "CLOSE"}],
           reason' \in [Thread -> {"NONE", "DELAY", "SUSPEND"}],
           prio'   \in [Thread -> Prio],
           state'[Idle] = "READY",
           \A t \in Thread : state[t] \in {"NONE", "CLOSE"} => state'[t] = state[t],
           \A d \in Task : d # c /\ pc[d] = "resume" =>
              state'[arg[d]] = state[arg[d]] /\ reason'[arg[d]] = reason[arg[d]],
           lock = 0 /\ ~pend =>
              /\ next = "user" => NextTask(ready', bits') = c
              /\ next = "compare" =>
                    NextTask(ready', bits') = c \/ prio'[x] < prio'[c]
    PROVE  IInv'
<1>1. /\ UNCHANGED <<started, slice, alloc>>
      /\ UNCHANGED <<current, lock, nesting, pend, isr>>
  BY DEF cpu
<1>2. /\ pc' \in [Thread -> {"user", "schedule", "compare", "free", "leave",
                             "spin", "resume"}]
      /\ arg' \in [Thread -> Thread]
      /\ pc'[c] = next /\ arg'[c] = x
      /\ \A d \in Task : d # c => pc'[d] = pc[d] /\ arg'[d] = arg[d]
  BY ThenFacts
<1>3. started /\ current = c /\ ~(pend /\ nesting = 0)
  BY RunningFacts
<1>4. /\ ReadyConsistent'
      /\ ready' \in [Prio -> Seq(Thread)] /\ bits' \subseteq Prio
  BY ReadyNext
<1>5. TypeOK'
  BY <1>1, <1>2, <1>4 DEF IInv, TypeOK
<1>6. CallInvariant'
  <2>1. ASSUME NEW d \in Task PROVE CallOf(d)'
    <3>1. CASE d = c
      BY <1>1, <1>2, <1>3, <3>1 DEF CallOf
    <3>2. CASE d # c
      <4>1. arg[d] \in Thread
        BY DEF IInv, TypeOK, Thread
      <4>2. pc[d] = "free" => state'[arg[d]] = state[arg[d]]
        BY <4>1, CallMeans DEF CallOf
      <4>3. /\ pc[d] = "resume" => arg[d] \in alloc
            /\ pc[d] = "free" /\ arg[d] # d => arg[d] \in alloc /\ arg[d] # current
        BY CallMeans DEF CallOf
      <4>4. QED
        BY <1>1, <1>2, <3>2, <4>2, <4>3, CallStays
    <3>3. QED
      BY <3>1, <3>2
  <2>2. \A t \in Thread \ alloc' : state'[t] \in {"NONE", "CLOSE"}
    BY <1>1, CallMeans
  <2>3. QED
    BY <1>1, <2>1, <2>2, CallMeans, CallNext
<1>7. DispatchInvariant'
  BY <1>1, <1>2, <1>3, DispatchNext
<1>8. QED
  BY <1>4, <1>5, <1>6, <1>7 DEF IInv

\* flyos_task_suspend.  Nobody is about to resume its target, which is READY.
LEMMA SuspendInvariant ==
    ASSUME IInv, NEW c \in Task, NEW x \in Task, Suspend(c, x)
    PROVE  IInv'
<1> DEFINE next == IF x = c THEN "schedule" ELSE "user"
<1>1. /\ Runs(c) /\ pc[c] = "user" /\ c \in Thread /\ x \in Thread /\ x # Idle
      /\ UNCHANGED timer /\ UNCHANGED <<started, prio, slice, alloc, cpu>>
      /\ Then(c, next, x) /\ isr' = isr
  BY KernelAssumption DEF Suspend, MayCall, Thread, cpu
<1>2. lock = 0 /\ ~pend => NextTask(ready, bits) = c
  BY <1>1, RunningFacts
<1>3. CASE state[x] = "READY"
  <2>1. /\ ready' = ReadyWithout(x) /\ bits' = BitsWithout(x)
        /\ state' = [state EXCEPT ![x] = "BLOCK"]
        /\ reason' = [reason EXCEPT ![x] = "SUSPEND"]
    BY <1>3 DEF Suspend
  <2>2. /\ GoodLists(ReadyWithout(x), BitsWithout(x))
        /\ Agree(ReadyWithout(x), [state EXCEPT ![x] = "BLOCK"], prio)
        /\ NextTask(ready, bits) # x =>
              NextTask(ReadyWithout(x), BitsWithout(x)) = NextTask(ready, bits)
    BY <1>1, Removing
  <2>3. /\ GoodLists(ready', bits') /\ Agree(ready', state', prio')
        /\ x # c /\ lock = 0 /\ ~pend => NextTask(ready', bits') = c
    BY <1>1, <1>2, <2>1, <2>2
  <2>4. /\ state'  \in [Thread -> {"NONE", "READY", "BLOCK", "CLOSE"}]
        /\ reason' \in [Thread -> {"NONE", "DELAY", "SUSPEND"}]
        /\ state'[x] = "BLOCK" /\ reason'[x] = "SUSPEND"
        /\ \A t \in Thread : t # x => state'[t] = state[t] /\ reason'[t] = reason[t]
    BY <1>1, <2>1 DEF IInv, TypeOK
  <2>5. SleepersQueued' /\ dq' \in Seq(Thread) /\ left' \in [Thread -> Nat]
    BY <1>1, <1>3, <2>4, SleepersKept
  <2>6. \A d \in Task : d # c /\ pc[d] = "resume" =>
           state'[arg[d]] = state[arg[d]] /\ reason'[arg[d]] = reason[arg[d]]
    <3>1. \A d \in Task : arg[d] \in Thread
      BY DEF IInv, TypeOK, Thread
    <3>2. QED
      BY <1>3, <2>4, <3>1, CallMeans DEF CallOf, Resumable
  <2>7. /\ state'[Idle] = "READY" /\ prio' \in [Thread -> Prio]
        /\ \A t \in Thread : state[t] \in {"NONE", "CLOSE"} => state'[t] = state[t]
    BY <1>1, <1>3, <2>4, CallMeans DEF IInv, TypeOK, Thread
  <2>8. next \in {"user", "schedule", "compare"} /\ next # "compare"
        /\ (next = "user" => x # c)
    OBVIOUS
  <2> HIDE DEF next
  <2>9. QED
    BY <1>1, <2>3, <2>4, <2>5, <2>6, <2>7, <2>8, ListStep
<1>4. CASE state[x] # "READY"
  <2>1. x # c
    BY <1>4 DEF Suspend, MayCall
  <2>2. UNCHANGED <<started, lists, timer, tcb, current, lock, nesting, isr>> /\ pend' = pend
    BY <1>1, <1>4 DEF Suspend, tcb, cpu
  <2>3. Then(c, "user", x)
    BY <1>1, <2>1
  <2>4. pend \in BOOLEAN /\ ~(pend /\ nesting = 0)
    BY <1>1, RunningFacts DEF IInv, TypeOK
  <2>5. QED
    BY <1>1, <1>2, <2>2, <2>3, <2>4, CallStep
<1>5. QED
  BY <1>3, <1>4

\* flyos_task_resume, with one supervisor: its target is still suspended, and
\* no other task is about to resume it as well.
LEMMA ResumeInvariant ==
    ASSUME Supervised, IInv, NEW c \in Task, Resume(c)
    PROVE  IInv'
<1> DEFINE x == arg[c]
<1>1. /\ Runs(c) /\ pc[c] = "resume" /\ c \in Thread /\ x \in Thread
      /\ UNCHANGED timer /\ UNCHANGED <<started, slice, alloc, cpu>>
      /\ prio' = prio /\ isr' = isr /\ Then(c, "compare", x)
      /\ ready' = ReadyWith(x, prio[x]) /\ bits' = BitsWith(x, prio[x])
      /\ state' = [state EXCEPT ![x] = "READY"]
      /\ reason' = [reason EXCEPT ![x] = "NONE"]
  BY DEF Resume, Thread, cpu, IInv, TypeOK
<1>2. c \in Calls["resume"] /\ state[x] = "BLOCK" /\ reason[x] = "SUSPEND"
  BY <1>1, CallMeans DEF CallOf, Resumable
<1>3. x # Idle
  BY <1>2, CallMeans
<1> HIDE DEF x
<1>4. prio[x] \in Prio /\ [prio EXCEPT ![x] = prio[x]] = prio
  BY <1>1 DEF IInv, TypeOK
<1>5. /\ GoodLists(ready', bits') /\ Agree(ready', state', prio')
      /\ prio[x] < Highest(bits) \/ NextTask(ready', bits') = NextTask(ready, bits)
  <2>1. /\ GoodLists(LinkedAt(ready, x, prio[x]), bits \cup {prio[x]})
        /\ Agree(LinkedAt(ready, x, prio[x]), [state EXCEPT ![x] = "READY"],
                 [prio EXCEPT ![x] = prio[x]])
        /\ ReadyWith(x, prio[x]) = LinkedAt(ready, x, prio[x])
        /\ BitsWith(x, prio[x]) = bits \cup {prio[x]}
        /\ \/ prio[x] < Highest(bits)
           \/ NextTask(LinkedAt(ready, x, prio[x]), bits \cup {prio[x]})
                 = NextTask(ready, bits)
    BY <1>1, <1>2, <1>4, Adding
  <2>2. QED
    BY <1>1, <1>4, <2>1
<1>6. /\ state'  \in [Thread -> {"NONE", "READY", "BLOCK", "CLOSE"}]
      /\ reason' \in [Thread -> {"NONE", "DELAY", "SUSPEND"}]
      /\ state'[x] = "READY"
      /\ \A t \in Thread : t # x => state'[t] = state[t] /\ reason'[t] = reason[t]
  BY <1>1 DEF IInv, TypeOK
<1>7. SleepersQueued' /\ dq' \in Seq(Thread) /\ left' \in [Thread -> Nat]
  BY <1>1, <1>2, <1>6, SleepersKept
<1>8. \A d \in Task : ~(d # c /\ pc[d] = "resume")
  BY <1>2, CallMeans DEF CallOf, Supervised
<1>9. /\ state'[Idle] = "READY" /\ prio' \in [Thread -> Prio]
      /\ \A t \in Thread : state[t] \in {"NONE", "CLOSE"} => state'[t] = state[t]
  BY <1>1, <1>2, <1>3, <1>6, CallMeans DEF IInv, TypeOK, Thread
<1>10. lock = 0 /\ ~pend => NextTask(ready', bits') = c \/ prio'[x] < prio'[c]
  BY <1>1, <1>5, RunningFacts, NextIsReady
<1>11. QED
  BY <1>1, <1>5, <1>6, <1>7, <1>8, <1>9, <1>10, ListStep

\* flyos_task_set_priority
LEMMA SetPriorityInvariant ==
    ASSUME IInv, NEW c \in Task, NEW x \in Task, NEW p \in Prio, SetPriority(c, x, p)
    PROVE  IInv'
<1>1. /\ Runs(c) /\ c \in Thread /\ x \in Thread
      /\ UNCHANGED timer /\ UNCHANGED <<started, slice, alloc, cpu>>
      /\ state' = state /\ reason' = reason /\ isr' = isr
      /\ prio' = [prio EXCEPT ![x] = p] /\ Then(c, "schedule", x)
  BY DEF SetPriority, MayCall, Thread, cpu
<1>2. /\ prio' \in [Thread -> Prio] /\ prio'[x] = p
      /\ \A t \in Thread : t # x => prio'[t] = prio[t]
  BY <1>1 DEF IInv, TypeOK
<1>3. GoodLists(ready', bits') /\ Agree(ready', state', prio')
  <2>1. CASE state[x] = "READY"
    <3>1. ready' = ReadyWith(x, p) /\ bits' = BitsWith(x, p)
      BY <2>1 DEF SetPriority
    <3>2. /\ GoodLists(ReadyWith(x, p), BitsWith(x, p))
          /\ \A o \in Prio, u \in Thread :
                u \in ToSet(ReadyWith(x, p)[o]) <=>
                   IF u = x THEN o = p ELSE u \in ToSet(ready[o])
      BY <1>1, Relinking
    <3>3. Agree(ready', state', prio')
      BY <1>1, <1>2, <2>1, <3>1, <3>2, ListsAreGood DEF Agree
    <3>4. QED
      BY <3>1, <3>2, <3>3
  <2>2. CASE state[x] # "READY"
    <3>1. ready' = ready /\ bits' = bits
      BY <2>2 DEF SetPriority, lists
    <3>2. Agree(ready, state', prio')
      BY <1>1, <1>2, <2>2, ListsAreGood DEF Agree
    <3>3. QED
      BY <3>1, <3>2, ListsAreGood
  <2>3. QED
    BY <2>1, <2>2
<1>4. SleepersQueued' /\ dq' \in Seq(Thread) /\ left' \in [Thread -> Nat]
  BY <1>1, SleepersKept
<1>5. /\ state'  \in [Thread -> {"NONE", "READY", "BLOCK", "CLOSE"}]
      /\ reason' \in [Thread -> {"NONE", "DELAY", "SUSPEND"}]
      /\ state'[Idle] = "READY"
  BY <1>1, CallMeans DEF IInv, TypeOK
<1>6. QED
  BY <1>1, <1>2, <1>3, <1>4, <1>5, ListStep
\* flyos_task_yield
LEMMA YieldInvariant ==
    ASSUME IInv, NEW c \in Task, Yield(c)
    PROVE  IInv'
<1>1. /\ Runs(c) /\ c \in Thread /\ state[c] = "READY"
      /\ UNCHANGED timer /\ UNCHANGED <<started, slice, alloc, cpu>>
      /\ state' = state /\ reason' = reason /\ prio' = prio /\ isr' = isr
      /\ ready' = RotatedAt(c) /\ bits' = bits /\ Then(c, "schedule", c)
  BY DEF Yield, MayCall, Thread, tcb, cpu, RotatedAt
<1>2. GoodLists(ready', bits') /\ Agree(ready', state', prio')
  <2>1. c \in ToSet(ready[prio[c]]) /\ prio[c] \in Prio
    BY <1>1, ListsAreGood DEF Agree, IInv, TypeOK
  <2>2. /\ GoodLists(RotatedAt(c), bits)
        /\ \A o \in Prio, u \in Thread :
              u \in ToSet(RotatedAt(c)[o]) <=> u \in ToSet(ready[o])
    BY <1>1, <2>1, Rotating
  <2>3. QED
    BY <1>1, <2>2, ListsAreGood DEF Agree
<1>3. SleepersQueued' /\ dq' \in Seq(Thread) /\ left' \in [Thread -> Nat]
  BY <1>1, SleepersKept
<1>4. /\ state'  \in [Thread -> {"NONE", "READY", "BLOCK", "CLOSE"}]
      /\ reason' \in [Thread -> {"NONE", "DELAY", "SUSPEND"}]
      /\ prio'   \in [Thread -> Prio]
      /\ state'[Idle] = "READY"
  BY <1>1, CallMeans DEF IInv, TypeOK
<1>5. QED
  BY <1>1, <1>2, <1>3, <1>4, ListStep

\* flyos_task_delay.  Nobody is about to resume the caller, which is READY.
LEMMA DelayInvariant ==
    ASSUME IInv, NEW c \in Task, NEW ticks \in Delays, Delay(c, ticks)
    PROVE  IInv'
<1> DEFINE q == QueueWithout(c)
<1>1. /\ Runs(c) /\ c \in Thread /\ state[c] = "READY" /\ c # Idle
      /\ UNCHANGED <<started, slice, alloc, cpu>> /\ prio' = prio
      /\ isr' = "none" /\ Then(c, "schedule", c)
      /\ ready' = ReadyWithout(c) /\ bits' = BitsWithout(c)
      /\ state' = [state EXCEPT ![c] = "BLOCK"]
      /\ reason' = [reason EXCEPT ![c] = "DELAY"]
      /\ dq' = InsertAt(q, DelayPlace(q, ticks), c)
      /\ left' = [left EXCEPT ![c] = ticks]
  BY KernelAssumption DEF Delay, MayCall, Runs, Thread, cpu
<1>2. ticks \in Nat /\ ticks > 0
  BY KernelAssumption
<1>3. /\ state'  \in [Thread -> {"NONE", "READY", "BLOCK", "CLOSE"}]
      /\ reason' \in [Thread -> {"NONE", "DELAY", "SUSPEND"}]
      /\ left' \in [Thread -> Nat]
      /\ state'[c] = "BLOCK" /\ reason'[c] = "DELAY" /\ left'[c] = ticks
      /\ \A t \in Thread : t # c => /\ state'[t] = state[t]
                                    /\ reason'[t] = reason[t]
                                    /\ left'[t] = left[t]
  BY <1>1, <1>2 DEF IInv, TypeOK
<1>4. GoodLists(ready', bits') /\ Agree(ready', state', prio')
  <2> HIDE DEF q
  <2>0. c \in Thread
    BY <1>1
  <2>1. /\ GoodLists(ReadyWithout(c), BitsWithout(c))
        /\ Agree(ReadyWithout(c), [state EXCEPT ![c] = "BLOCK"], prio)
        /\ NextTask(ready, bits) # c =>
              NextTask(ReadyWithout(c), BitsWithout(c)) = NextTask(ready, bits)
    BY <2>0, Removing
  <2>2. /\ ready' = ReadyWithout(c) /\ bits' = BitsWithout(c)
        /\ state' = [state EXCEPT ![c] = "BLOCK"] /\ prio' = prio
    BY <1>1
  <2>3. QED
    BY <2>1, <2>2
<1>5. SleepersQueued' /\ dq' \in Seq(Thread)
  <2>1. GoodQueue(q, left) /\ \A u : u \in ToSet(q) <=> u \in ToSet(dq) /\ u # c
    BY <1>1, Waking
  <2> HIDE DEF q
  <2>2. left \in [Thread -> Nat] /\ c \notin ToSet(q)
    BY <2>1, QueueIsGood
  <2>3. /\ GoodQueue(InsertAt(q, DelayPlace(q, ticks), c), [left EXCEPT ![c] = ticks])
        /\ ToSet(InsertAt(q, DelayPlace(q, ticks), c)) = ToSet(q) \cup {c}
    BY <1>1, <1>2, <2>1, <2>2, Arming
  <2>4. GoodQueue(dq', left') /\ \A u : u \in ToSet(dq') <=> u \in ToSet(dq) \/ u = c
    BY <1>1, <2>1, <2>3
  <2>5. \A t \in Thread :
           t \in ToSet(dq') <=> state'[t] = "BLOCK" /\ reason'[t] = "DELAY"
    BY <1>3, <2>4, QueueIsGood
  <2>6. \A t \in ToSet(dq') : left'[t] > 0
    <3>1. isr = "none" /\ ToSet(dq) \subseteq Thread
      BY <1>1, RunningFacts, QueueIsGood
    <3>2. QED
      BY <1>2, <1>3, <2>4, <3>1, QueueIsGood
  <2>7. QED
    BY <2>4, <2>5, <2>6, SleepersNext
<1>6. \A d \in Task : d # c /\ pc[d] = "resume" =>
         state'[arg[d]] = state[arg[d]] /\ reason'[arg[d]] = reason[arg[d]]
  <2>1. \A d \in Task : arg[d] \in Thread
    BY DEF IInv, TypeOK, Thread
  <2>2. QED
    BY <1>1, <1>3, <2>1, CallMeans DEF CallOf, Resumable
<1>7. /\ state'[Idle] = "READY" /\ prio' \in [Thread -> Prio]
      /\ \A t \in Thread : state[t] \in {"NONE", "CLOSE"} => state'[t] = state[t]
  BY <1>1, <1>3, CallMeans DEF IInv, TypeOK, Thread
<1>8. QED
  BY <1>1, <1>3, <1>4, <1>5, <1>6, <1>7, ListStep

\* A step that leaves the lists and the calls alone.
LEMMA FlowKept ==
    ASSUME IInv, UNCHANGED <<started, lists, timer, tcb, flow, current, isr>>
    PROVE  /\ ReadyConsistent' /\ SleepersQueued' /\ CallInvariant'
           /\ lock' \in 0..MAX_LOCK /\ nesting' \in 0..MAX_LEAK /\ pend' \in BOOLEAN
              => TypeOK'
<1>1. UNCHANGED <<started, ready, bits, dq, left, state, reason, prio, slice,
                  alloc, pc, arg, current, isr>>
  BY DEF lists, timer, tcb, flow
<1>2. ReadyConsistent' /\ SleepersQueued'
  BY <1>1 DEF IInv, ReadyConsistent, SleepersQueued
<1>3. CallInvariant'
  BY <1>1 DEF IInv, CallInvariant, Resumable
<1>4. lock' \in 0..MAX_LOCK /\ nesting' \in 0..MAX_LEAK /\ pend' \in BOOLEAN
         => TypeOK'
  BY <1>1 DEF IInv, TypeOK
<1>5. QED
  BY <1>2, <1>3, <1>4

\* flyos_scheduler_lock
LEMMA LockInvariant ==
    ASSUME IInv, NEW c \in Task, Lock(c)
    PROVE  IInv'
<1>1. /\ Runs(c) /\ lock < MAX_LOCK /\ lock' = lock + 1
      /\ nesting' = nesting /\ pend' = pend
      /\ UNCHANGED <<started, lists, timer, tcb, flow, current, isr>>
  BY DEF Lock, MayCall
<1>2. /\ lock \in 0..MAX_LOCK /\ nesting \in 0..MAX_LEAK /\ pend \in BOOLEAN
      /\ MAX_LOCK \in Nat
  BY KernelAssumption DEF IInv, TypeOK
<1>3. lock' \in 0..MAX_LOCK /\ lock' # 0
  BY <1>1, <1>2
<1>4. DispatchInvariant'
  BY <1>1, <1>3, RunningFacts, DispatchNext
<1>5. QED
  BY <1>1, <1>2, <1>3, <1>4, FlowKept DEF IInv

\* flyos_scheduler_unlock: whoever requests the switch leaves PendSV masked.
LEMMA UnlockInvariant ==
    ASSUME IInv, NEW c \in Task, Unlock(c)
    PROVE  IInv'
<1>1. /\ Runs(c) /\ pc[c] = "user" /\ lock > 0 /\ lock' = lock - 1
      /\ UNCHANGED <<started, lists, timer, tcb, flow, current, isr>>
      /\ pc' = pc
  BY DEF Unlock, MayCall, flow
<1>2. /\ lock \in 0..MAX_LOCK /\ nesting \in 0..MAX_LEAK /\ pend \in BOOLEAN
      /\ MAX_LOCK \in Nat /\ MAX_LEAK \in Nat
  BY KernelAssumption DEF IInv, TypeOK
<1>3. started /\ current = c /\ ~(pend /\ nesting = 0)
  BY <1>1, RunningFacts
<1>4. /\ ready' = ready /\ bits' = bits
      /\ started' = started /\ current' = current
  BY <1>1 DEF lists
<1>5. CASE lock' = 0 /\ ~(HasNext(ready, bits) /\ NextTask(ready, bits) = current)
  <2>1. pend' = TRUE /\ nesting < MAX_LEAK /\ nesting' = nesting + 1
    BY <1>5 DEF Unlock
  <2>2. lock' \in 0..MAX_LOCK /\ nesting' \in 0..MAX_LEAK /\ nesting' # 0
    BY <1>1, <1>2, <2>1
  <2>3. DispatchInvariant'
    BY <1>3, <1>4, <2>1, <2>2, DispatchNext
  <2>4. pend' \in BOOLEAN
    BY <2>1
  <2>5. TypeOK' /\ ReadyConsistent' /\ SleepersQueued' /\ CallInvariant'
    BY <1>1, <2>2, <2>4, FlowKept
  <2>6. QED
    BY <2>3, <2>5 DEF IInv
<1>6. CASE ~(lock' = 0 /\ ~(HasNext(ready, bits) /\ NextTask(ready, bits) = current))
  <2>1. pend' = pend /\ nesting' = nesting
    BY <1>6 DEF Unlock
  <2>2. lock' \in 0..MAX_LOCK
    BY <1>1, <1>2
  <2>3. lock' = 0 => NextTask(ready', bits') = c
    BY <1>3, <1>4, <1>6
  <2>4. DispatchInvariant'
    BY <1>1, <1>3, <1>4, <2>1, <2>3, DispatchNext
  <2>5. QED
    BY <1>1, <1>2, <2>1, <2>2, <2>4, FlowKept DEF IInv
<1>7. QED
  BY <1>5, <1>6
\* How DispatchInvariant is shown inside the SysTick handler.
LEMMA DispatchInHandler ==
    ASSUME IInv, started, UNCHANGED <<started, lock, nesting, pend>>, isr' = "deal"
    PROVE  DispatchInvariant'
BY DEF IInv, DispatchInvariant

\* flyos_systick_handler takes a tick from every sleeper.  No sleeper has none
\* left, and the order stays.
LEMMA SysTickInvariant ==
    ASSUME IInv, SysTick
    PROVE  IInv'
<1>1. /\ started /\ isr = "none" /\ isr' = "deal"
      /\ UNCHANGED <<started, ready, bits, dq, state, reason, prio, slice, alloc>>
      /\ UNCHANGED <<current, lock, nesting, pend, pc, arg>>
      /\ left' = LeftAfterTick
  BY DEF SysTick, lists, tcb, flow
<1>2. /\ left' \in [Thread -> Nat]
      /\ \A t \in ToSet(dq) : left'[t] = left[t] - 1
  <2>1. ASSUME NEW t \in Thread PROVE
           /\ left'[t] \in Nat
           /\ t \in ToSet(dq) => left'[t] = left[t] - 1
    <3>1. CASE t \in ToSet(dq)
      <4>1. left[t] \in Nat /\ left[t] > 0
        BY <1>1, <3>1, QueueIsGood
      <4>2. left'[t] = left[t] - 1
        BY <1>1, <3>1 DEF LeftAfterTick
      <4>3. QED
        BY <4>1, <4>2
    <3>2. CASE t \notin ToSet(dq)
      <4>1. left'[t] = left[t]
        BY <1>1, <3>2 DEF LeftAfterTick
      <4>2. QED
        BY <3>2, <4>1, QueueIsGood
    <3>3. QED
      BY <3>1, <3>2
  <2>2. left' = [t \in Thread |-> left'[t]]
    BY <1>1 DEF LeftAfterTick
  <2>3. QED
    BY <2>1, <2>2, QueueIsGood
<1>3. GoodQueue(dq', left')
  <2>1. /\ dq \in Seq(Thread) /\ NoDuplicates(dq)
        /\ \A i, j \in 1..Len(dq) : i < j => left[dq[i]] <= left[dq[j]]
    BY QueueIsGood DEF GoodQueue
  <2>2. \A i \in 1..Len(dq) : dq[i] \in ToSet(dq) /\ left[dq[i]] \in Nat
    BY <2>1, ListFacts, QueueIsGood
  <2>3. \A i \in 1..Len(dq) : left'[dq[i]] = left[dq[i]] - 1
    BY <1>2, <2>2
  <2>4. \A i, j \in 1..Len(dq) : i < j => left'[dq[i]] <= left'[dq[j]]
    BY <2>1, <2>2, <2>3
  <2>5. QED
    BY <1>1, <2>1, <2>4 DEF GoodQueue
<1>4. SleepersQueued' /\ dq' \in Seq(Thread)
  <2>1. \A t \in Thread :
           t \in ToSet(dq') <=> state'[t] = "BLOCK" /\ reason'[t] = "DELAY"
    BY <1>1, QueueIsGood
  <2>2. QED
    BY <1>1, <1>3, <2>1, SleepersNext
<1>5. TypeOK'
  BY <1>1, <1>2, <1>4 DEF IInv, TypeOK
<1>6. ReadyConsistent' /\ CallInvariant'
  BY <1>1 DEF IInv, ReadyConsistent, CallInvariant, Resumable
<1>7. DispatchInvariant'
  BY <1>1, DispatchInHandler
<1>8. QED
  BY <1>4, <1>5, <1>6, <1>7 DEF IInv

\* delta_queue_wake_task.  Nobody is about to resume the sleeper it wakes.
LEMMA WakeInvariant ==
    ASSUME IInv, Wake
    PROVE  IInv'
<1> DEFINE t == Head(dq)
<1>1. /\ isr = "deal" /\ dq # <<>> /\ dq' = Tail(dq)
      /\ state' = [state EXCEPT ![t] = "READY"]
      /\ reason' = [reason EXCEPT ![t] = "NONE"]
      /\ ready' = ReadyWith(t, prio[t]) /\ bits' = BitsWith(t, prio[t])
      /\ UNCHANGED <<started, left, prio, slice, alloc, pc, arg>>
      /\ UNCHANGED <<current, lock, nesting, pend, isr>>
  BY DEF Wake, cpu, flow
<1>2. /\ dq \in Seq(Thread) /\ NoDuplicates(dq)
      /\ \A i, j \in 1..Len(dq) : i < j => left[dq[i]] <= left[dq[j]]
  BY QueueIsGood DEF GoodQueue
<1>3. /\ Tail(dq) \in Seq(Thread)
      /\ Len(Tail(dq)) = Len(dq) - 1
      /\ \A i \in 1..Len(Tail(dq)) : Tail(dq)[i] = dq[i + 1]
      /\ t = dq[1]
  BY <1>1, <1>2, HeadTailProperties
<1>4. ToSet(Tail(dq)) = ToSet(dq) \ {t} /\ NoDuplicates(Tail(dq))
  BY <1>1, <1>2, <1>3, TailElements
<1>5. Len(dq) \in Nat /\ 1 \in 1..Len(dq) /\ t \in ToSet(dq)
  BY <1>1, <1>2, <1>3, ListFacts
<1>6. t \in Thread /\ state[t] = "BLOCK" /\ reason[t] = "DELAY" /\ t # Idle
  BY <1>5, QueueIsGood, CallMeans
<1> HIDE DEF t
<1>7. /\ state'  \in [Thread -> {"NONE", "READY", "BLOCK", "CLOSE"}]
      /\ reason' \in [Thread -> {"NONE", "DELAY", "SUSPEND"}]
      /\ state'[t] = "READY"
      /\ \A u \in Thread : u # t => state'[u] = state[u] /\ reason'[u] = reason[u]
  BY <1>1, <1>6 DEF IInv, TypeOK
<1>8. GoodQueue(dq', left')
  <2>1. \A i, j \in 1..Len(Tail(dq)) :
           i < j => left[Tail(dq)[i]] <= left[Tail(dq)[j]]
    <3>1. \A i \in 1..Len(Tail(dq)) : i + 1 \in 1..Len(dq)
      BY <1>3, <1>5
    <3>2. QED
      BY <1>2, <1>3, <3>1
  <2>2. QED
    BY <1>1, <1>3, <1>4, <2>1 DEF GoodQueue
<1>9. SleepersQueued' /\ dq' \in Seq(Thread)
  <2>1. \A u \in Thread :
           u \in ToSet(dq') <=> state'[u] = "BLOCK" /\ reason'[u] = "DELAY"
    BY <1>1, <1>4, <1>7, QueueIsGood
  <2>2. QED
    BY <1>1, <1>8, <2>1, SleepersNext
<1>10. GoodLists(ready', bits') /\ Agree(ready', state', prio')
  <2>1. prio[t] \in Prio /\ [prio EXCEPT ![t] = prio[t]] = prio
    BY <1>6 DEF IInv, TypeOK
  <2>2. /\ GoodLists(LinkedAt(ready, t, prio[t]), bits \cup {prio[t]})
        /\ Agree(LinkedAt(ready, t, prio[t]), [state EXCEPT ![t] = "READY"],
                 [prio EXCEPT ![t] = prio[t]])
        /\ ReadyWith(t, prio[t]) = LinkedAt(ready, t, prio[t])
        /\ BitsWith(t, prio[t]) = bits \cup {prio[t]}
        /\ \/ prio[t] < Highest(bits)
           \/ NextTask(LinkedAt(ready, t, prio[t]), bits \cup {prio[t]})
                 = NextTask(ready, bits)
    BY <1>6, <2>1, Adding
  <2>3. QED
    BY <1>1, <2>1, <2>2
<1>11. TypeOK'
  BY <1>1, <1>7, <1>9, <1>10, ReadyNext DEF IInv, TypeOK
<1>12. CallInvariant'
  <2>1. ASSUME NEW d \in Task PROVE CallOf(d)'
    <3>1. arg[d] \in Thread
      BY DEF IInv, TypeOK, Thread
    <3>2. pc[d] \in {"resume", "free"} => arg[d] # t
      BY <1>6, CallMeans DEF CallOf, Resumable
    <3>3. /\ pc[d] = "resume" => arg[d] \in alloc
          /\ pc[d] = "free" /\ arg[d] # d => arg[d] \in alloc /\ arg[d] # current
      BY CallMeans DEF CallOf
    <3>4. QED
      BY <1>1, <1>7, <3>1, <3>2, <3>3, CallStays
  <2>2. /\ state'[Idle] = "READY"
        /\ \A u \in Thread \ alloc' : state'[u] \in {"NONE", "CLOSE"}
    BY <1>1, <1>6, <1>7, CallMeans DEF Thread
  <2>3. QED
    BY <1>1, <2>1, <2>2, CallMeans, CallNext
<1>13. DispatchInvariant'
  <2>1. started
    BY <1>1 DEF IInv, DispatchInvariant
  <2>2. QED
    BY <1>1, <2>1, DispatchInHandler
<1>14. QED
  BY <1>9, <1>10, <1>11, <1>12, <1>13, ReadyNext DEF IInv

\* The end of flyos_systick_handler: no sleeper is due any more.
LEMMA SysTickEndInvariant ==
    ASSUME IInv, SysTickEnd
    PROVE  IInv'
<1>1. /\ isr = "deal" /\ isr' = "none"
      /\ dq # <<>> => left[Head(dq)] # 0
      /\ slice' = [slice EXCEPT ![current] = SliceAfterTick(current)]
      /\ ready' = ReadyAfterTick(current)
      /\ pend' = (/\ lock = 0
                  /\ ~(HasNext(ready', bits) /\ NextTask(ready', bits) = current))
      /\ UNCHANGED <<started, bits, dq, left, state, reason, prio, alloc>>
      /\ UNCHANGED <<current, lock, nesting, pc, arg>>
  BY DEF SysTickEnd, timer, flow
<1>2. current \in Thread /\ TIME_SLICE \in Nat \ {0} /\ started
  BY <1>1, KernelAssumption DEF IInv, TypeOK, DispatchInvariant
<1>3. slice' \in [Thread -> 1..TIME_SLICE]
  <2>1. slice \in [Thread -> 1..TIME_SLICE]
    BY DEF IInv, TypeOK
  <2>2. SliceAfterTick(current) \in 1..TIME_SLICE
    BY <1>2, <2>1 DEF SliceAfterTick
  <2>3. QED
    BY <1>1, <2>1, <2>2
<1>4. GoodLists(ready', bits') /\ Agree(ready', state', prio')
  <2>1. /\ GoodLists(ReadyAfterTick(current), bits)
        /\ \A o \in Prio, u \in Thread :
              u \in ToSet(ReadyAfterTick(current)[o]) <=> u \in ToSet(ready[o])
    BY <1>2, SliceEnds
  <2>2. QED
    BY <1>1, <2>1, ListsAreGood DEF Agree
<1>5. SleepersQueued' /\ dq' \in Seq(Thread)
  <2>1. /\ dq \in Seq(Thread)
        /\ \A i, j \in 1..Len(dq) : i < j => left[dq[i]] <= left[dq[j]]
        /\ \A u : u \in ToSet(dq) => \E i \in 1..Len(dq) : dq[i] = u
        /\ Len(dq) \in Nat
    BY QueueIsGood, ListFacts DEF GoodQueue
  <2>2. ASSUME NEW t \in ToSet(dq) PROVE left[t] > 0
    <3>1. PICK i \in 1..Len(dq) : dq[i] = t
      BY <2>1
    <3>2. dq # <<>> /\ 1 \in 1..Len(dq)
      BY <2>1, <3>1
    <3>3. left[dq[1]] # 0
      BY <1>1, <2>1, <3>2, HeadTailProperties
    <3>4. dq[1] \in Thread /\ t \in Thread
      BY <2>1, <3>1, <3>2
    <3>5. left[dq[1]] \in Nat /\ left[t] \in Nat
      BY <3>4, QueueIsGood
    <3>6. i = 1 \/ 1 < i
      BY <2>1, <3>1
    <3>7. left[dq[1]] <= left[t]
      BY <2>1, <3>1, <3>2, <3>5, <3>6
    <3>8. QED
      BY <3>3, <3>5, <3>7
  <2>3. /\ GoodQueue(dq', left')
        /\ \A t \in Thread :
              t \in ToSet(dq') <=> state'[t] = "BLOCK" /\ reason'[t] = "DELAY"
    BY <1>1, QueueIsGood
  <2>4. isr' = "none" => \A t \in ToSet(dq') : left'[t] > 0
    BY <1>1, <2>2
  <2>5. QED
    BY <2>3, <2>4, SleepersNext
<1>6. pend' \in BOOLEAN
  BY <1>1
<1>7. TypeOK'
  BY <1>1, <1>3, <1>4, <1>5, <1>6, ReadyNext DEF IInv, TypeOK
<1>8. CallInvariant'
  BY <1>1 DEF IInv, CallInvariant, Resumable
<1>9. DispatchInvariant'
  <2>1. /\ pend' => lock = 0
        /\ lock = 0 /\ ~pend' => NextTask(ready', bits) = current
    BY <1>1
  <2>2. QED
    BY <1>1, <1>2, <2>1, DispatchNext
<1>10. QED
  BY <1>4, <1>5, <1>7, <1>8, <1>9, ReadyNext DEF IInv

\* flyos_context_switch: the task it chooses is READY already, and it is not one
\* whose memory is about to be freed.
LEMMA ContextSwitchInvariant ==
    ASSUME IInv, ContextSwitch
    PROVE  IInv'
<1> DEFINE n == NextTask(ready, bits)
<1>1. /\ pend /\ nesting = 0 /\ isr = "none"
      /\ current' = n /\ state' = [state EXCEPT ![n] = "READY"] /\ pend' = FALSE
      /\ UNCHANGED <<started, ready, bits, dq, left, reason, prio, slice, alloc>>
      /\ UNCHANGED <<lock, nesting, isr, pc, arg>>
  BY DEF ContextSwitch, lists, timer, flow
<1>2. n \in Thread /\ state[n] = "READY"
  BY NextIsReady
<1>3. started
  BY <1>1 DEF IInv, DispatchInvariant
<1>4. state' = state
  BY <1>1, <1>2 DEF IInv, TypeOK
<1>5. NextTask(ready', bits') = n
  BY <1>1
<1> HIDE DEF n
<1>6. TypeOK'
  BY <1>1, <1>2, <1>4 DEF IInv, TypeOK
<1>7. ReadyConsistent' /\ SleepersQueued'
  BY <1>1, <1>4 DEF IInv, ReadyConsistent, SleepersQueued
<1>8. CallInvariant'
  <2>1. ASSUME NEW d \in Task PROVE CallOf(d)'
    <3>1. /\ pc[d] = "resume" => arg[d] \in alloc
          /\ pc[d] = "free" /\ arg[d] # d => arg[d] \in alloc /\ arg[d] # n
      BY <1>2, CallMeans DEF CallOf
    <3>2. QED
      BY <1>1, <1>4, <3>1, CallStays
  <2>2. QED
    BY <1>1, <1>4, <2>1, CallMeans, CallNext
<1>9. DispatchInvariant'
  <2>1. lock = 0
    BY <1>1 DEF IInv, DispatchInvariant
  <2>2. QED
    BY <1>1, <1>3, <1>5, <2>1 DEF DispatchInvariant
<1>10. QED
  BY <1>6, <1>7, <1>8, <1>9 DEF IInv

\* A step that changes nothing.
LEMMA StutterInvariant ==
    ASSUME IInv, UNCHANGED vars
    PROVE  IInv'
<1>1. UNCHANGED <<started, ready, bits, dq, left, state, reason, prio, slice,
                  alloc, current, lock, nesting, pend, isr, pc, arg>>
  BY DEF vars, lists, timer, tcb, cpu, flow
<1>2. TypeOK' /\ ReadyConsistent' /\ SleepersQueued'
  BY <1>1 DEF IInv, TypeOK, ReadyConsistent, SleepersQueued
<1>3. CallInvariant' /\ DispatchInvariant'
  BY <1>1 DEF IInv, CallInvariant, Resumable, DispatchInvariant
<1>4. QED
  BY <1>2, <1>3 DEF IInv
\* Every step keeps the invariant.
LEMMA NextInvariant ==
    ASSUME Supervised, IInv, [Next]_vars
    PROVE  IInv'
<1>1. CASE \E x \in Task, p \in Prio : CreateBeforeStart(x, p)
  BY <1>1, CreateBeforeStartInvariant
<1>2. CASE Start
  BY <1>2, StartInvariant
<1>3. ASSUME NEW c \in Task, Call(c) PROVE IInv'
  <2>1. CASE \E x \in Task, p \in Prio : Create(c, x, p)
    BY <2>1, CreateInvariant
  <2>2. CASE \E x \in Task, p \in Prio : SetPriority(c, x, p)
    BY <2>2, SetPriorityInvariant
  <2>3. CASE \E x \in Task : Delete(c, x)
    BY <2>3, DeleteInvariant
  <2>4. CASE \E x \in Task : Suspend(c, x)
    BY <2>4, SuspendInvariant
  <2>5. CASE \E x \in Task : ResumeCheck(c, x)
    BY <2>5, ResumeCheckInvariant
  <2>6. CASE \E ticks \in Delays : Delay(c, ticks)
    BY <2>6, DelayInvariant
  <2>7. CASE Yield(c) \/ Lock(c) \/ Unlock(c)
    BY <2>7, YieldInvariant, LockInvariant, UnlockInvariant
  <2>8. QED
    BY <1>3, <2>1, <2>2, <2>3, <2>4, <2>5, <2>6, <2>7 DEF Call
<1>4. ASSUME NEW c \in Task, Continue(c) PROVE IInv'
  BY <1>4, DeleteFreeInvariant, DeleteLeaveInvariant, ResumeInvariant,
     CallSchedulerInvariant, CompareAndCallInvariant DEF Continue
<1>5. CASE Handler
  BY <1>5, SysTickInvariant, WakeInvariant, SysTickEndInvariant,
     ContextSwitchInvariant DEF Handler
<1>6. CASE UNCHANGED vars
  BY <1>6, StutterInvariant
<1>7. QED
  BY <1>1, <1>2, <1>3, <1>4, <1>5, <1>6 DEF Next

-----------------------------------------------------------------------------
(* The theorems                                                            *)

\* With one supervisor, every state the kernel reaches satisfies IInv.
THEOREM Invariance ==
    ASSUME Supervised
    PROVE  Spec => []IInv
<1>1. Init => IInv
  BY InitInvariant
<1>2. IInv /\ [Next]_vars => IInv'
  BY NextInvariant
<1>3. QED
  BY <1>1, <1>2, PTL DEF Spec

\* The kernel's variables keep their types; the counters of the scheduler lock
\* and of the critical sections never go below zero.
THEOREM TypeCorrect ==
    ASSUME Supervised
    PROVE  Spec => []TypeOK
<1>1. IInv => TypeOK
  BY DEF IInv
<1>2. QED
  BY <1>1, Invariance, PTL

\* Whatever the tasks call and whenever the handlers come, the ready lists and
\* the bitmap agree with the states and priorities of the tasks.
THEOREM ListsAgree ==
    ASSUME Supervised
    PROVE  Spec => []ReadyConsistent
<1>1. IInv => ReadyConsistent
  BY DEF IInv
<1>2. QED
  BY <1>1, Invariance, PTL

\* The delta queue holds the sleeping tasks and no other, in the order in which
\* they fall due.
THEOREM DelaysQueued ==
    ASSUME Supervised
    PROVE  Spec => []SleepersQueued
<1>1. IInv => SleepersQueued
  BY DEF IInv
<1>2. QED
  BY <1>1, Invariance, PTL

\* No list leads to a control block that has been freed.
THEOREM NothingDangles ==
    ASSUME Supervised
    PROVE  Spec => []NoDangling
<1>1. IInv => NoDangling
  <2>1. SUFFICES ASSUME IInv, NEW t \in Thread \ alloc
                 PROVE  t \notin ToSet(dq) /\ \A p \in Prio : t \notin ToSet(ready[p])
    BY DEF NoDangling
  <2>2. state[t] \in {"NONE", "CLOSE"}
    BY <2>1, CallMeans
  <2>3. QED
    BY <2>1, <2>2, QueueIsGood, ListsAreGood DEF Agree
<1>2. QED
  BY <1>1, Invariance, PTL

\* The assertion of flyos_context_switch never fails.
THEOREM AssertionHolds ==
    ASSUME Supervised
    PROVE  Spec => []SwitchFindsTask
<1>1. IInv => SwitchFindsTask
  BY NextIsReady, CallMeans DEF SwitchFindsTask
<1>2. QED
  BY <1>1, Invariance, PTL

\* A task that executes its own code with the scheduler unlocked is the head of
\* the most urgent list.
THEOREM MostUrgentRuns ==
    ASSUME Supervised
    PROVE  Spec => []HighestRuns
<1>1. IInv => HighestRuns
  BY NextIsReady DEF HighestRuns, IInv, DispatchInvariant
<1>2. QED
  BY <1>1, Invariance, PTL

\* While the scheduler is locked, the processor stays with the task that runs.
THEOREM LockHolds ==
    ASSUME Supervised
    PROVE  Spec => NoSwitchWhileLocked
<1>1. IInv /\ [Next]_vars => (lock > 0 => current' = current)
  <2> SUFFICES ASSUME IInv, [Next]_vars, lock > 0
               PROVE  current' = current
    OBVIOUS
  <2>1. started /\ ~(pend /\ nesting = 0)
    BY DEF IInv, DispatchInvariant
  <2>2. ~Start /\ ~ContextSwitch
    BY <2>1 DEF Start, ContextSwitch
  <2>3. ASSUME NEW c \in Task, Call(c) PROVE current' = current
    BY <2>3 DEF Call, Create, NewTask, SetPriority, Delete, Suspend, ResumeCheck,
                Delay, Yield, Lock, Unlock, cpu
  <2>4. ASSUME NEW c \in Task, Continue(c) PROVE current' = current
    BY <2>4 DEF Continue, DeleteFree, DeleteLeave, Resume, CallScheduler,
                CompareAndCall, cpu
  <2>5. CASE \E x \in Task, p \in Prio : CreateBeforeStart(x, p)
    BY <2>5 DEF CreateBeforeStart, NewTask, cpu
  <2>6. CASE Handler
    BY <2>2, <2>6 DEF Handler, SysTick, Wake, SysTickEnd, cpu
  <2>7. CASE UNCHANGED vars
    BY <2>7 DEF vars, cpu
  <2>8. QED
    BY <2>2, <2>3, <2>4, <2>5, <2>6, <2>7 DEF Next
<1>2. QED
  BY <1>1, Invariance, PTL DEF Spec, NoSwitchWhileLocked

\* No call wakes a task that flyos_task_delay blocks; the tick does, when the
\* delay has run out.
THEOREM DelaysLast ==
    ASSUME Supervised
    PROVE  Spec => DelayKept
<1> DEFINE Lasts == \A t \in Task :
              state[t] = "BLOCK" /\ reason[t] = "DELAY" /\ state'[t] = "READY"
                 => t \in ToSet(dq) /\ left[t] = 0
<1>1. IInv /\ [Next]_vars => Lasts
  <2>1. SUFFICES ASSUME IInv, [Next]_vars, NEW t \in Task,
                        state[t] = "BLOCK", reason[t] = "DELAY", state'[t] = "READY"
                 PROVE  t \in ToSet(dq) /\ left[t] = 0
    OBVIOUS
  <2>2. /\ t \in Thread /\ t \in alloc /\ t \in ToSet(dq)
        /\ state \in [Thread -> {"NONE", "READY", "BLOCK", "CLOSE"}]
    BY <2>1, CallMeans, QueueIsGood DEF IInv, TypeOK, Thread
  <2>3. state' # state
    BY <2>1
  <2>4. ASSUME NEW x \in Task, NEW p \in Prio, NewTask(x, p) PROVE FALSE
    BY <2>1, <2>2, <2>4 DEF NewTask
  <2>5. ~(\E x \in Task, p \in Prio : CreateBeforeStart(x, p)) /\ ~Start
    BY <2>3, <2>4 DEF CreateBeforeStart, Start, tcb
  <2>6. ASSUME NEW c \in Task, Call(c) PROVE FALSE
    <3>1. ASSUME NEW x \in Task, NEW p \in Prio, Create(c, x, p) \/ SetPriority(c, x, p)
          PROVE  FALSE
      BY <2>3, <2>4, <3>1 DEF Create, SetPriority
    <3>2. ASSUME NEW x \in Task, Delete(c, x) \/ Suspend(c, x) \/ ResumeCheck(c, x)
          PROVE  FALSE
      BY <2>1, <2>2, <3>2 DEF Delete, Suspend, ResumeCheck, tcb, Thread
    <3>3. ASSUME NEW ticks \in Delays, Delay(c, ticks) PROVE FALSE
      BY <2>1, <2>2, <3>3 DEF Delay, Thread
    <3>4. ~Yield(c) /\ ~Lock(c) /\ ~Unlock(c)
      BY <2>3 DEF Yield, Lock, Unlock, tcb
    <3>5. QED
      BY <2>6, <3>1, <3>2, <3>3, <3>4 DEF Call
  <2>7. ASSUME NEW c \in Task, Continue(c) PROVE FALSE
    <3>1. ~DeleteFree(c) /\ ~DeleteLeave(c) /\ ~CallScheduler(c) /\ ~CompareAndCall(c)
      BY <2>3 DEF DeleteFree, DeleteLeave, CallScheduler, CompareAndCall, tcb
    <3>2. CASE Resume(c)
      <4>1. reason[arg[c]] = "SUSPEND" /\ state' = [state EXCEPT ![arg[c]] = "READY"]
        <5>1. pc[c] = "resume" /\ state' = [state EXCEPT ![arg[c]] = "READY"]
          BY <3>2 DEF Resume
        <5>2. CallOf(c)
          BY <2>1, CallMeans
        <5>3. QED
          BY <5>1, <5>2 DEF CallOf, Resumable
      <4>2. QED
        BY <2>1, <2>2, <4>1
    <3>3. QED
      BY <2>7, <3>1, <3>2 DEF Continue
  <2>8. ~SysTick /\ ~SysTickEnd
    BY <2>3 DEF SysTick, SysTickEnd, tcb
  <2>9. ~ContextSwitch
    BY <2>1, <2>2, NextIsReady DEF ContextSwitch
  <2>10. state' # state => ~(UNCHANGED vars)
    BY DEF vars, tcb
  <2>11. CASE Wake
    <3>1. left[Head(dq)] = 0 /\ state' = [state EXCEPT ![Head(dq)] = "READY"]
      BY <2>11 DEF Wake
    <3>2. t = Head(dq)
      BY <2>1, <2>2, <3>1
    <3>3. QED
      BY <2>2, <3>1, <3>2
  <2>12. QED
    BY <2>1, <2>3, <2>5, <2>6, <2>7, <2>8, <2>9, <2>10, <2>11 DEF Next, Handler
<1>2. QED
  BY <1>1, Invariance, PTL DEF Spec, DelayKept, Lasts
=============================================================================
