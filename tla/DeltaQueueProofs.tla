-------------------------- MODULE DeltaQueueProofs --------------------------
(***************************************************************************)
(* The delta queue of flyos_kernel.c is correct for every number of tasks  *)
(* and every range of delays: it never miscounts, never underflows, and    *)
(* implements Timers.                                                      *)
(***************************************************************************)
EXTENDS DeltaQueue, Integers, SequenceTheorems, TLAPS

-----------------------------------------------------------------------------
(* The delta queue as a sequence                                           *)

\* No element occurs twice in s.
NoDuplicates(s) == \A i, j \in 1..Len(s) : s[i] = s[j] => i = j

\* A stretch of a list keeps the order of its nodes.
LEMMA PartOf ==
    ASSUME NEW S, NEW s \in Seq(S), NEW j \in 1..(Len(s) + 1), NEW k \in 0..Len(s), j <= k + 1
    PROVE  /\ SubSeq(s, j, k) \in Seq(S) /\ Len(SubSeq(s, j, k)) = k - j + 1
           /\ \A i \in 1..(k - j + 1) : SubSeq(s, j, k)[i] = s[j + i - 1]
<1>1. /\ j \in Int /\ k \in Int /\ \A i \in j..k : s[i] \in S
  BY LenProperties, ElementOfSeq
<1>. QED
  BY <1>1, SubSeqProperties

\* Linking a node (delta_queue_insert) shifts the nodes that follow it by one.
LEMMA InsertAtProperties ==
    ASSUME NEW S, NEW s \in Seq(S), NEW k \in 1..(Len(s) + 1), NEW e \in S
    PROVE  /\ InsertAt(s, k, e) \in Seq(S)
           /\ Len(InsertAt(s, k, e)) = Len(s) + 1
           /\ \A i \in 1..(Len(s) + 1) :
                 InsertAt(s, k, e)[i] = IF i < k THEN s[i]
                                        ELSE IF i = k THEN e ELSE s[i - 1]
<1> DEFINE a == SubSeq(s, 1, k - 1)
           b == SubSeq(s, k, Len(s))
<1>1. Len(s) \in Nat
  OBVIOUS
<1>2. /\ a \in Seq(S) /\ Len(a) = k - 1 /\ \A i \in 1..(k - 1) : a[i] = s[i]
      /\ b \in Seq(S) /\ Len(b) = Len(s) - k + 1
      /\ \A i \in 1..(Len(s) - k + 1) : b[i] = s[k + i - 1]
  BY <1>1, PartOf
<1> DEFINE ae == a \o <<e>>
<1>3. InsertAt(s, k, e) = ae \o b
  BY DEF InsertAt
<1> HIDE DEF a, b
<1>4. /\ ae \in Seq(S) /\ Len(ae) = k
      /\ \A i \in 1..k : ae[i] = IF i < k THEN a[i] ELSE e
  BY <1>1, <1>2
<1> HIDE DEF ae
<1>5. /\ ae \o b \in Seq(S) /\ Len(ae \o b) = Len(s) + 1
      /\ \A i \in 1..(Len(s) + 1) : (ae \o b)[i] = IF i <= k THEN ae[i] ELSE b[i - k]
  <2>1. Len(ae) + Len(b) = Len(s) + 1
    BY <1>1, <1>2, <1>4
  <2>2. /\ ae \o b \in Seq(S) /\ Len(ae \o b) = Len(ae) + Len(b)
        /\ \A i \in 1..(Len(ae) + Len(b)) :
              (ae \o b)[i] = IF i <= Len(ae) THEN ae[i] ELSE b[i - Len(ae)]
    BY <1>2, <1>4, ConcatProperties
  <2>. QED
    BY <1>4, <2>1, <2>2
<1>6. \A i \in (k + 1)..(Len(s) + 1) : b[i - k] = s[k + (i - k) - 1] /\ k + (i - k) - 1 = i - 1
  BY <1>1, <1>2
<1>7. \A i \in 1..(Len(s) + 1) :
         (ae \o b)[i] = IF i < k THEN s[i] ELSE IF i = k THEN e ELSE s[i - 1]
  BY <1>1, <1>2, <1>4, <1>5, <1>6
<1>. QED
  BY <1>3, <1>5, <1>7

\* Unlinking a node (delta_queue_remove) shifts back those that follow it.
LEMMA RemoveAtProperties ==
    ASSUME NEW S, NEW s \in Seq(S), NEW k \in 1..Len(s)
    PROVE  /\ RemoveAt(s, k) \in Seq(S)
           /\ Len(RemoveAt(s, k)) = Len(s) - 1
           /\ \A i \in 1..(Len(s) - 1) :
                 RemoveAt(s, k)[i] = IF i < k THEN s[i] ELSE s[i + 1]
<1> DEFINE a == SubSeq(s, 1, k - 1)
           b == SubSeq(s, k + 1, Len(s))
<1>1. Len(s) \in Nat
  OBVIOUS
<1>2. /\ a \in Seq(S) /\ Len(a) = k - 1 /\ \A i \in 1..(k - 1) : a[i] = s[i]
      /\ b \in Seq(S) /\ Len(b) = Len(s) - k
      /\ \A i \in 1..(Len(s) - k) : b[i] = s[k + i]
  BY <1>1, PartOf
<1>3. RemoveAt(s, k) = a \o b
  BY DEF RemoveAt
<1> HIDE DEF a, b
<1>4. /\ a \o b \in Seq(S) /\ Len(a \o b) = Len(s) - 1
      /\ \A i \in 1..(Len(s) - 1) : (a \o b)[i] = IF i < k THEN a[i] ELSE b[i - (k - 1)]
  <2>1. Len(a) + Len(b) = Len(s) - 1
    BY <1>1, <1>2
  <2>2. /\ a \o b \in Seq(S) /\ Len(a \o b) = Len(a) + Len(b)
        /\ \A i \in 1..(Len(a) + Len(b)) :
              (a \o b)[i] = IF i <= Len(a) THEN a[i] ELSE b[i - Len(a)]
    BY <1>2, ConcatProperties
  <2>. QED
    BY <1>1, <1>2, <2>1, <2>2
<1>5. \A i \in k..(Len(s) - 1) : b[i - (k - 1)] = s[k + (i - (k - 1))] /\ k + (i - (k - 1)) = i + 1
  BY <1>1, <1>2
<1>6. \A i \in 1..(Len(s) - 1) : (a \o b)[i] = IF i < k THEN s[i] ELSE s[i + 1]
  BY <1>1, <1>2, <1>4, <1>5
<1>. QED
  BY <1>3, <1>4, <1>6

\* The elements of a sequence are what stands at its places.
LEMMA ToSetMembers ==
    ASSUME NEW S, NEW s \in Seq(S)
    PROVE  /\ ToSet(s) \subseteq S
           /\ \A x : x \in ToSet(s) <=> \E i \in 1..Len(s) : s[i] = x
BY DEF ToSet

\* The facts about a list that most steps start from.
LEMMA ListFacts ==
    ASSUME NEW S, NEW s \in Seq(S)
    PROVE  /\ Len(s) \in Nat
           /\ \A i \in 1..Len(s) : s[i] \in S
           /\ \A x : x \in ToSet(s) <=> \E i \in 1..Len(s) : s[i] = x
           /\ s # <<>> <=> 1 \in 1..Len(s)
           /\ s = <<>> <=> Len(s) = 0
           /\ s = <<>> => ToSet(s) = {}
BY EmptySeq DEF ToSet

\* Linking a node adds it, and keeps the list free of duplicates.
LEMMA InsertAtElements ==
    ASSUME NEW S, NEW s \in Seq(S), NEW k \in 1..(Len(s) + 1), NEW e \in S
    PROVE  /\ ToSet(InsertAt(s, k, e)) = ToSet(s) \cup {e}
           /\ NoDuplicates(s) /\ e \notin ToSet(s)
                 => NoDuplicates(InsertAt(s, k, e))
<1> DEFINE t == InsertAt(s, k, e)
           New(i) == IF i < k THEN i ELSE i + 1
           Old(i) == IF i < k THEN i ELSE i - 1
<1>1. /\ t \in Seq(S) /\ Len(t) = Len(s) + 1 /\ Len(s) \in Nat
      /\ \A i \in 1..(Len(s) + 1) :
            t[i] = IF i < k THEN s[i] ELSE IF i = k THEN e ELSE s[i - 1]
  BY InsertAtProperties, LenProperties
<1>2. /\ \A x : x \in ToSet(s) <=> \E i \in 1..Len(s) : s[i] = x
      /\ \A x : x \in ToSet(t) <=> \E i \in 1..Len(t) : t[i] = x
  BY <1>1, ListFacts
<1> HIDE DEF t
<1>3. /\ k \in 1..Len(t) /\ t[k] = e
      /\ \A i \in 1..Len(t) : i # k => Old(i) \in 1..Len(s) /\ t[i] = s[Old(i)]
      /\ \A i \in 1..Len(s) : New(i) \in 1..Len(t) /\ t[New(i)] = s[i]
      /\ \A i, j \in 1..Len(t) : i # k /\ j # k /\ Old(i) = Old(j) => i = j
  BY <1>1
<1> HIDE DEF New, Old
<1>4. ToSet(t) = ToSet(s) \cup {e}
  BY <1>2, <1>3
<1>5. ASSUME NoDuplicates(s), e \notin ToSet(s)
      PROVE  NoDuplicates(t)
  <2>1. \A i \in 1..Len(t) : i # k => t[i] # e
    BY <1>2, <1>3, <1>5
  <2>2. \A i, j \in 1..Len(t) : i # k /\ j # k /\ t[i] = t[j] => i = j
    BY <1>3, <1>5 DEF NoDuplicates
  <2>. QED
    BY <1>3, <2>1, <2>2 DEF NoDuplicates
<1>. QED
  BY <1>4, <1>5 DEF t

\* Unlinking a node of a list without duplicates takes that node away.
LEMMA RemoveAtElements ==
    ASSUME NEW S, NEW s \in Seq(S), NEW k \in 1..Len(s), NoDuplicates(s)
    PROVE  /\ ToSet(RemoveAt(s, k)) = ToSet(s) \ {s[k]}
           /\ NoDuplicates(RemoveAt(s, k))
<1> DEFINE t == RemoveAt(s, k)
           New(i) == IF i < k THEN i ELSE i - 1
           Old(i) == IF i < k THEN i ELSE i + 1
<1>1. /\ t \in Seq(S) /\ Len(t) = Len(s) - 1 /\ Len(s) \in Nat
      /\ \A i \in 1..(Len(s) - 1) : t[i] = IF i < k THEN s[i] ELSE s[i + 1]
  BY RemoveAtProperties
<1>2. /\ \A x : x \in ToSet(s) <=> \E i \in 1..Len(s) : s[i] = x
      /\ \A x : x \in ToSet(t) <=> \E i \in 1..Len(t) : t[i] = x
  BY <1>1, ListFacts
<1> HIDE DEF t
<1>3. /\ \A i \in 1..Len(t) : Old(i) \in 1..Len(s) \ {k} /\ t[i] = s[Old(i)]
      /\ \A i \in 1..Len(s) \ {k} : New(i) \in 1..Len(t) /\ t[New(i)] = s[i]
      /\ \A i, j \in 1..Len(t) : Old(i) = Old(j) => i = j
  BY <1>1
<1> HIDE DEF New, Old
<1>4. \A i \in 1..Len(s) : s[i] # s[k] <=> i # k
  BY DEF NoDuplicates
<1>5. ToSet(t) = ToSet(s) \ {s[k]}
  BY <1>2, <1>3, <1>4
<1>6. NoDuplicates(t)
  BY <1>3 DEF NoDuplicates
<1>. QED
  BY <1>5, <1>6 DEF t

\* The same for the first node, as the expiry loop unlinks it.
LEMMA TailElements ==
    ASSUME NEW S, NEW s \in Seq(S), s # <<>>, NoDuplicates(s)
    PROVE  /\ ToSet(Tail(s)) = ToSet(s) \ {s[1]}
           /\ NoDuplicates(Tail(s))
<1>1. 1 \in 1..Len(s) /\ Len(s) \in Nat
  BY ListFacts
<1>2. RemoveAt(s, 1) = Tail(s)
  <2>1. /\ RemoveAt(s, 1) \in Seq(S) /\ Len(RemoveAt(s, 1)) = Len(s) - 1
        /\ \A i \in 1..(Len(s) - 1) : RemoveAt(s, 1)[i] = s[i + 1]
    BY <1>1, RemoveAtProperties
  <2>. QED
    BY <1>1, <2>1, HeadTailProperties, SeqEqual
<1>. QED
  BY <1>1, <1>2, RemoveAtElements

-----------------------------------------------------------------------------
\* What the invariant says of the queue as a sequence.
LEMMA QueueFacts ==
    ASSUME IInv
    PROVE  /\ Len(dq) \in Nat
           /\ \A i \in 1..Len(dq) : dq[i] \in Task
           /\ NoDuplicates(dq)
           /\ \A t : t \in ToSet(dq) <=> Linked(t)
           /\ ToSet(dq) \subseteq Task
           /\ dq # <<>> <=> Len(dq) > 0
           /\ dq = <<>> <=> Len(dq) = 0
<1>1. dq \in Seq(Task)
  BY DEF IInv, TypeOK
<1>2. Len(dq) \in Nat /\ \A i \in 1..Len(dq) : dq[i] \in Task
  BY <1>1, LenProperties, ElementOfSeq
<1>3. NoDuplicates(dq)
  BY DEF IInv, QueueInvariant, Distinct, NoDuplicates
<1>4. ToSet(dq) \subseteq Task /\ \A t : t \in ToSet(dq) <=> Linked(t)
  BY <1>1, ToSetMembers DEF Linked
<1>5. dq = <<>> <=> Len(dq) = 0
  BY <1>1, <1>2, EmptySeq
<1>6. QED
  BY <1>2, <1>3, <1>4, <1>5

\* The place of a linked task.
LEMMA IndexFacts ==
    ASSUME IInv, NEW t \in Task, Linked(t)
    PROVE  Index(t) \in 1..Len(dq) /\ dq[Index(t)] = t
BY DEF Linked, Index

\* flyos_delta_queue_remove leaves a queue that is as right as before.
LEMMA Removal ==
    ASSUME IInv, op = "none", NEW t \in Task
    PROVE  /\ QueueWithout(t) \in Seq(Task)
           /\ NoDuplicates(QueueWithout(t))
           /\ ToSet(QueueWithout(t)) = ToSet(dq) \ {t}
           /\ DeltaWithout(t) \in [Task -> 0..MAX_TICKS]
           /\ \A u \in Task : u \notin ToSet(QueueWithout(t)) => DeltaWithout(t)[u] = 0
           /\ QueueWithout(t) # <<>> => DeltaWithout(t)[QueueWithout(t)[1]] > 0
           /\ Chained(QueueWithout(t), DeltaWithout(t), left)
           /\ Ordered(QueueWithout(t), left, OlderWithout(t))
<1> DEFINE q == QueueWithout(t)
           d == DeltaWithout(t)
           o == OlderWithout(t)
           Goal == /\ q \in Seq(Task)
                   /\ NoDuplicates(q)
                   /\ ToSet(q) = ToSet(dq) \ {t}
                   /\ d \in [Task -> 0..MAX_TICKS]
                   /\ \A u \in Task : u \notin ToSet(q) => d[u] = 0
                   /\ q # <<>> => d[q[1]] > 0
                   /\ Chained(q, d, left)
                   /\ Ordered(q, left, o)
<1>1. /\ dq \in Seq(Task)
      /\ delta \in [Task -> 0..MAX_TICKS]
      /\ left \in [Task -> 0..MAX_TICKS]
      /\ older \in [Task -> SUBSET Task]
      /\ MAX_TICKS \in Nat
  BY MaxTicksAssumption DEF IInv, TypeOK
<1>2. /\ dq # <<>> => left[dq[1]] = delta[dq[1]] /\ delta[dq[1]] > 0
      /\ \A i \in 1..(Len(dq) - 1) :
            left[dq[i + 1]] = left[dq[i]] + delta[dq[i + 1]]
      /\ \A i, j \in 1..Len(dq) : i < j =>
            \/ left[dq[i]] < left[dq[j]]
            \/ /\ left[dq[i]] = left[dq[j]]
               /\ dq[i] \in older[dq[j]]
               /\ dq[j] \notin older[dq[i]]
      /\ \A u \in Task : ~Linked(u) => delta[u] = 0
  BY DEF IInv, QueueInvariant, Chained, Ordered, HeadPositive, UnlinkedZero
<1>3. \A u, v \in Task : u # t =>
         o[u] = older[u] \ {t} /\ (v # t => (v \in o[u] <=> v \in older[u]))
  BY DEF OlderWithout
<1> HIDE DEF q, d, o, Goal
<1>4. ASSUME ~Linked(t) PROVE Goal
  <2>1. q = dq /\ d = delta
    BY <1>4 DEF q, d, QueueWithout, DeltaWithout
  <2>2. \A i \in 1..Len(dq) : dq[i] # t
    BY <1>4 DEF Linked
  <2>3. ToSet(dq) = ToSet(dq) \ {t}
    BY <1>4, QueueFacts
  <2>4. QED
    BY <1>1, <1>2, <1>3, <2>1, <2>2, <2>3, QueueFacts DEF Goal, Chained, Ordered
<1>5. ASSUME Linked(t) PROVE Goal
  <2> DEFINE k == Index(t)
             m(i) == IF i < k THEN i ELSE i + 1
  <2>1. k \in 1..Len(dq) /\ dq[k] = t
    BY <1>5, IndexFacts
  <2>2. q = RemoveAt(dq, k)
    BY <1>5 DEF q, QueueWithout
  <2>3. d = [u \in Task |->
               IF u = t THEN 0
               ELSE IF k < Len(dq) /\ u = dq[k + 1] THEN delta[u] + delta[t]
               ELSE delta[u]]
    BY <1>5 DEF d, DeltaWithout
  <2> HIDE DEF k
  <2>4. /\ Len(dq) \in Nat
        /\ NoDuplicates(dq)
        /\ \A i \in 1..Len(dq) : dq[i] \in Task
        /\ \A u : u \in ToSet(dq) <=> Linked(u)
        /\ Len(dq) > 0 => dq # <<>>
    BY QueueFacts
  <2>5. /\ q \in Seq(Task)
        /\ Len(q) = Len(dq) - 1
        /\ \A i \in 1..(Len(dq) - 1) :
              q[i] = IF i < k THEN dq[i] ELSE dq[i + 1]
        /\ NoDuplicates(q)
        /\ ToSet(q) = ToSet(dq) \ {t}
    <3>1. /\ q \in Seq(Task)
          /\ Len(q) = Len(dq) - 1
          /\ \A i \in 1..(Len(dq) - 1) :
                q[i] = IF i < k THEN dq[i] ELSE dq[i + 1]
      BY <1>1, <2>1, <2>2, RemoveAtProperties
    <3>2. ToSet(RemoveAt(dq, k)) = ToSet(dq) \ {dq[k]} /\ NoDuplicates(RemoveAt(dq, k))
      BY <1>1, <2>1, <2>4, RemoveAtElements
    <3>3. QED
      BY <2>1, <2>2, <3>1, <3>2
  <2>6. \A i \in 1..Len(q) :
           /\ q[i] = dq[m(i)]
           /\ m(i) \in 1..Len(dq)
           /\ m(i) # k
           /\ q[i] \in Task
           /\ q[i] # t
    <3> SUFFICES ASSUME NEW i \in 1..Len(q)
                 PROVE  /\ q[i] = dq[m(i)]
                        /\ m(i) \in 1..Len(dq)
                        /\ m(i) # k
                        /\ q[i] \in Task
                        /\ q[i] # t
      OBVIOUS
    <3>1. q[i] = dq[m(i)] /\ m(i) \in 1..Len(dq) /\ m(i) # k
      BY <2>1, <2>4, <2>5
    <3>2. dq[m(i)] \in Task /\ dq[m(i)] # dq[k]
      BY <2>1, <2>4, <3>1 DEF NoDuplicates
    <3>3. QED
      BY <2>1, <3>1, <3>2
  <2>7. \A i \in 1..Len(q) :
           d[q[i]] = IF i = k THEN delta[q[i]] + delta[t] ELSE delta[q[i]]
    <3> SUFFICES ASSUME NEW i \in 1..Len(q)
                 PROVE  d[q[i]] = IF i = k THEN delta[q[i]] + delta[t]
                                  ELSE delta[q[i]]
      OBVIOUS
    <3>1. d[q[i]] = IF k < Len(dq) /\ q[i] = dq[k + 1]
                    THEN delta[q[i]] + delta[t] ELSE delta[q[i]]
      BY <2>3, <2>6
    <3>2. CASE i = k
      <4>1. k < Len(dq) /\ m(i) = k + 1
        BY <2>1, <2>4, <2>5, <3>2
      <4>2. QED
        BY <2>6, <3>1, <3>2, <4>1
    <3>3. CASE i # k
      <4>1. k < Len(dq) => k + 1 \in 1..Len(dq) /\ m(i) # k + 1
        BY <2>1, <2>4, <2>5, <3>3
      <4>2. k < Len(dq) => q[i] # dq[k + 1]
        BY <2>4, <2>6, <4>1 DEF NoDuplicates
      <4>3. QED
        BY <3>1, <3>3, <4>2
    <3>4. QED
      BY <3>2, <3>3
  <2>8. \A i \in 1..Len(q) : left[q[i]] \in Nat /\ delta[q[i]] \in Nat
    BY <1>1, <2>6
  <2>9. delta[t] \in Nat /\ left[t] \in Nat
    BY <1>1
  <2>10. ASSUME q # <<>>
         PROVE  left[q[1]] = d[q[1]] /\ d[q[1]] > 0
    <3>1. 1 \in 1..Len(q)
      BY <2>5, <2>10, EmptySeq
    <3>2. dq # <<>> /\ 1 \in 1..Len(dq) /\ 1 \in 1..(Len(dq) - 1)
      BY <2>1, <2>4, <2>5, <3>1
    <3>3. CASE k = 1
      <4>1. q[1] = dq[2] /\ d[q[1]] = delta[q[1]] + delta[t]
        BY <2>6, <2>7, <3>1, <3>3
      <4>2. left[dq[1]] = delta[t] /\ delta[t] > 0
        BY <1>2, <2>1, <3>2, <3>3
      <4>3. left[dq[1 + 1]] = left[dq[1]] + delta[dq[1 + 1]]
        BY <1>2, <3>2
      <4>4. QED
        BY <2>8, <2>9, <3>1, <4>1, <4>2, <4>3
    <3>4. CASE k # 1
      <4>1. q[1] = dq[1] /\ d[q[1]] = delta[q[1]]
        BY <2>1, <2>6, <2>7, <3>1, <3>4
      <4>2. QED
        BY <1>2, <3>2, <4>1
    <3>5. QED
      BY <3>3, <3>4
  <2>11. ASSUME NEW i \in 1..(Len(q) - 1)
         PROVE  left[q[i + 1]] = left[q[i]] + d[q[i + 1]]
    <3>1. i \in 1..Len(q) /\ i + 1 \in 1..Len(q)
      BY <2>4, <2>5
    <3>2. CASE i + 1 < k
      <4>1. q[i] = dq[i] /\ q[i + 1] = dq[i + 1] /\ d[q[i + 1]] = delta[dq[i + 1]]
        BY <2>1, <2>6, <2>7, <3>1, <3>2
      <4>2. i \in 1..(Len(dq) - 1)
        BY <2>4, <2>5
      <4>3. QED
        BY <1>2, <4>1, <4>2
    <3>3. CASE i + 1 = k
      <4>1. /\ q[i] = dq[i]
            /\ q[i + 1] = dq[k + 1]
            /\ d[q[i + 1]] = delta[dq[k + 1]] + delta[t]
        BY <2>1, <2>6, <2>7, <3>1, <3>3
      <4>2. /\ i \in 1..(Len(dq) - 1)
            /\ k \in 1..(Len(dq) - 1)
        BY <2>1, <2>4, <2>5, <3>3
      <4>3. left[dq[k]] = left[dq[i]] + delta[dq[k]]
        BY <1>2, <3>3, <4>2
      <4>4. left[dq[k + 1]] = left[dq[k]] + delta[dq[k + 1]]
        BY <1>2, <4>2
      <4>5. left[dq[i]] \in Nat /\ delta[dq[k + 1]] \in Nat
        BY <2>8, <3>1, <4>1
      <4>6. QED
        BY <2>1, <2>9, <4>1, <4>3, <4>4, <4>5
    <3>4. CASE i + 1 > k
      <4>1. i + 1 \in 1..(Len(dq) - 1) /\ m(i) = i + 1 /\ m(i + 1) = (i + 1) + 1
        BY <2>1, <2>4, <2>5, <3>4
      <4>2. /\ q[i] = dq[i + 1]
            /\ q[i + 1] = dq[(i + 1) + 1]
            /\ d[q[i + 1]] = delta[dq[(i + 1) + 1]]
        BY <2>1, <2>6, <2>7, <3>1, <3>4, <4>1
      <4>3. QED
        BY <1>2, <4>1, <4>2
    <3>5. i + 1 < k \/ i + 1 = k \/ i + 1 > k
      BY <2>1
    <3>6. QED
      BY <3>2, <3>3, <3>4, <3>5
  <2>12. ASSUME NEW i \in 1..Len(q), NEW j \in 1..Len(q), i < j
         PROVE  \/ left[q[i]] < left[q[j]]
                \/ /\ left[q[i]] = left[q[j]]
                   /\ q[i] \in o[q[j]]
                   /\ q[j] \notin o[q[i]]
    <3>1. PICK a \in 1..Len(dq), b \in 1..Len(dq) :
             a < b /\ q[i] = dq[a] /\ q[j] = dq[b]
      <4>1. m(i) < m(j)
        BY <2>1, <2>12
      <4>2. QED
        BY <2>6, <4>1
    <3>2. \/ left[q[i]] < left[q[j]]
          \/ /\ left[q[i]] = left[q[j]]
             /\ q[i] \in older[q[j]]
             /\ q[j] \notin older[q[i]]
      BY <1>2, <3>1
    <3>3. QED
      BY <1>3, <2>6, <3>2
  <2>13. d \in [Task -> 0..MAX_TICKS]
    <3> SUFFICES ASSUME NEW u \in Task
                 PROVE  d[u] \in 0..MAX_TICKS
      BY <2>3
    <3>1. CASE k < Len(dq) /\ u = dq[k + 1]
      <4>1. k \in 1..Len(q) /\ q[k] = u /\ d[u] = delta[u] + delta[t]
        BY <2>1, <2>4, <2>5, <2>7, <3>1
      <4>2. k \in 1..(Len(dq) - 1) /\ left[dq[k + 1]] = left[dq[k]] + delta[dq[k + 1]]
        BY <1>2, <2>1, <2>4, <3>1
      <4>3. left[t] >= delta[t]
        <5>1. CASE k = 1
          BY <1>2, <2>1, <2>4, <2>9, <4>2, <5>1
        <5>2. CASE k # 1
          <6>1. PICK j \in 1..(Len(dq) - 1) : j + 1 = k
            <7>1. k - 1 \in 1..(Len(dq) - 1) /\ (k - 1) + 1 = k
              BY <2>1, <2>4, <5>2
            <7>2. QED
              BY <7>1
          <6>2. left[dq[k]] = left[dq[j]] + delta[dq[k]]
            BY <1>2, <6>1
          <6>3. left[dq[j]] \in Nat
            BY <1>1, <2>4, <6>1
          <6>4. QED
            BY <2>1, <2>9, <6>2, <6>3
        <5>3. QED
          BY <5>1, <5>2
      <4>4. left[u] \in 0..MAX_TICKS /\ delta[u] \in 0..MAX_TICKS
        BY <1>1
      <4>5. left[u] = left[t] + delta[u]
        BY <2>1, <3>1, <4>2
      <4>6. left[t] \in 0..MAX_TICKS /\ delta[t] \in 0..MAX_TICKS /\ MAX_TICKS \in Nat
        BY <1>1, <2>1
      <4>7. d[u] = delta[u] + delta[t]
        BY <4>1
      <4>8. QED
        BY <4>3, <4>4, <4>5, <4>6, <4>7
    <3>2. CASE ~(k < Len(dq) /\ u = dq[k + 1])
      <4>1. d[u] = IF u = t THEN 0 ELSE delta[u]
        BY <2>3, <3>2
      <4>2. QED
        BY <1>1, <4>1
    <3>3. QED
      BY <3>1, <3>2
  <2>14. ASSUME NEW u \in Task, u \notin ToSet(q)
         PROVE  d[u] = 0
    <3>1. CASE u = t
      BY <2>3, <3>1
    <3>2. CASE u # t
      <4>1. ~Linked(u)
        BY <2>4, <2>5, <2>14, <3>2
      <4>2. delta[u] = 0 /\ ~(k < Len(dq) /\ u = dq[k + 1])
        <5>1. k < Len(dq) => k + 1 \in 1..Len(dq)
          BY <2>1, <2>4
        <5>2. QED
          BY <1>2, <4>1, <5>1 DEF Linked
      <4>3. QED
        BY <2>3, <3>2, <4>2
    <3>3. QED
      BY <3>1, <3>2
  <2>15. QED
    BY <2>5, <2>10, <2>11, <2>12, <2>13, <2>14 DEF Goal, Chained, Ordered
<1>6. QED
  BY <1>4, <1>5 DEF Goal, q, d, o

-----------------------------------------------------------------------------

\* The armed tasks are those in the queue and the one being placed.
LEMMA ArmedFacts ==
    ASSUME IInv
    PROVE  /\ ArmedTasks \subseteq Task
           /\ op # "insert" => ArmedTasks = ToSet(dq)
           /\ op = "insert" => ArmedTasks = ToSet(dq) \cup {who}
BY QueueFacts DEF ArmedTasks, IInv, TypeOK

\* The queue is empty at the start.
LEMMA InitInvariant == Init => IInv
<1> SUFFICES ASSUME Init PROVE IInv
  OBVIOUS
<1>1. dq = <<>> /\ Len(dq) = 0 /\ dq \in Seq(Task) /\ op = "none" /\ pos = 0
  BY DEF Init
<1>2. ToSet(dq) = {} /\ ArmedTasks = {}
  BY <1>1, ListFacts DEF ArmedTasks
<1>3. TypeOK
  BY <1>1, MaxTicksAssumption DEF Init, TypeOK
<1>4. QueueInvariant
  BY <1>1 DEF Init, QueueInvariant, Distinct, Chained, Ordered, UnlinkedZero
<1>5. HeadPositive /\ SearchInvariant
  BY <1>1 DEF HeadPositive, SearchInvariant
<1>6. HistoryInvariant
  BY <1>2 DEF Init, HistoryInvariant
<1>7. QED
  BY <1>3, <1>4, <1>5, <1>6 DEF IInv

\* The part of an insertion that precedes its search.
LEMMA InsertBeginInvariant ==
    ASSUME IInv, NEW t \in Task, NEW ticks \in 1..MAX_TICKS,
           InsertBegin(t, ticks)
    PROVE  IInv'
<1> DEFINE q == QueueWithout(t)
           d == DeltaWithout(t)
           o == OlderWithout(t)
<1>1. /\ op = "none" /\ op' = "insert" /\ who' = t /\ pos' = 0
      /\ dq' = q
      /\ delta' = [d EXCEPT ![t] = ticks]
      /\ left' = [left EXCEPT ![t] = ticks]
      /\ older' = [o EXCEPT ![t] = ToSet(q)]
  BY DEF InsertBegin
<1>2. /\ q \in Seq(Task)
      /\ NoDuplicates(q)
      /\ ToSet(q) = ToSet(dq) \ {t}
      /\ d \in [Task -> 0..MAX_TICKS]
      /\ \A u \in Task : u \notin ToSet(q) => d[u] = 0
      /\ q # <<>> => d[q[1]] > 0
      /\ Chained(q, d, left)
      /\ Ordered(q, left, o)
  BY <1>1, Removal
<1>3. o = [u \in Task |-> IF u = t THEN {} ELSE older[u] \ {t}]
  BY DEF OlderWithout
<1>4. /\ delta \in [Task -> 0..MAX_TICKS]
      /\ left \in [Task -> 0..MAX_TICKS]
      /\ older \in [Task -> SUBSET Task]
      /\ MAX_TICKS \in Nat
  BY MaxTicksAssumption DEF IInv, TypeOK
<1> HIDE DEF q, d, o
<1>5. /\ Len(q) \in Nat
      /\ \A i \in 1..Len(q) : q[i] \in Task /\ q[i] # t
      /\ \A u : u \in ToSet(q) <=> \E i \in 1..Len(q) : q[i] = u
      /\ q # <<>> => 1 \in 1..Len(q)
      /\ ToSet(q) \subseteq Task /\ t \notin ToSet(q)
  <2>1. /\ Len(q) \in Nat
        /\ \A i \in 1..Len(q) : q[i] \in Task
        /\ \A u : u \in ToSet(q) <=> \E i \in 1..Len(q) : q[i] = u
        /\ q # <<>> => 1 \in 1..Len(q)
    BY <1>2, ListFacts
  <2>2. \A i \in 1..Len(q) : q[i] # t
    BY <1>2, <2>1
  <2>3. QED
    BY <1>2, <2>1, <2>2, QueueFacts
<1>6. /\ \A u \in Task : u # t => delta'[u] = d[u] /\ left'[u] = left[u] /\ older'[u] = o[u]
      /\ delta'[t] = ticks /\ left'[t] = ticks /\ older'[t] = ToSet(q)
  BY <1>1, <1>2, <1>3, <1>4
<1>7. TypeOK'
  BY <1>1, <1>2, <1>3, <1>4, <1>5 DEF TypeOK
<1>8. Distinct'
  <2>1. ~Linked(who)'
    BY <1>1, <1>5 DEF Linked
  <2>2. QED
    BY <1>1, <1>2, <2>1 DEF Distinct, NoDuplicates
<1>9. Chained(dq, delta, left)'
  <2>1. q # <<>> => left'[q[1]] = delta'[q[1]]
    BY <1>2, <1>5, <1>6 DEF Chained
  <2>2. ASSUME NEW i \in 1..(Len(q) - 1)
        PROVE  left'[q[i + 1]] = left'[q[i]] + delta'[q[i + 1]]
    <3>1. i \in 1..Len(q) /\ i + 1 \in 1..Len(q)
      BY <1>5
    <3>2. left[q[i + 1]] = left[q[i]] + d[q[i + 1]]
      BY <1>2 DEF Chained
    <3>3. QED
      BY <1>5, <1>6, <3>1, <3>2
  <2>3. QED
    BY <1>1, <2>1, <2>2 DEF Chained
<1>10. Ordered(dq, left, older)'
  BY <1>1, <1>2, <1>5, <1>6 DEF Ordered
<1>11. UnlinkedZero'
  BY <1>1, <1>2, <1>5, <1>6 DEF UnlinkedZero, Linked
<1>12. HeadPositive'
  BY <1>1, <1>2, <1>5, <1>6 DEF HeadPositive
<1>13. ArmedTasks' = ToSet(q) \cup {t} /\ ArmedTasks = ToSet(dq)
  BY <1>1, ArmedFacts DEF ArmedTasks
<1>14. HistoryInvariant'
  <2>1. \A u \in Task : older[u] \subseteq ToSet(dq) \ {u}
    BY <1>13 DEF IInv, HistoryInvariant
  <2>2. \A u \in Task : u \notin ToSet(dq) => older[u] = {} /\ left[u] = 0
    BY <1>13 DEF IInv, HistoryInvariant
  <2>3. ASSUME NEW u \in Task
        PROVE  older'[u] \subseteq (ToSet(q) \cup {t}) \ {u}
    BY <1>2, <1>3, <1>5, <1>6, <2>1
  <2>4. ASSUME NEW u \in Task, u \notin ToSet(q) \cup {t}
        PROVE  older'[u] = {} /\ left'[u] = 0
    BY <1>2, <1>3, <1>6, <2>2, <2>4
  <2>5. QED
    BY <1>13, <2>3, <2>4 DEF HistoryInvariant
<1>15. SearchInvariant'
  <2>1. \A i \in 1..Len(q) : t \notin older'[q[i]]
    BY <1>3, <1>5, <1>6
  <2>2. QED
    BY <1>1, <1>6, <2>1 DEF SearchInvariant
<1>16. QED
  BY <1>7, <1>8, <1>9, <1>10, <1>11, <1>12, <1>14, <1>15 DEF IInv, QueueInvariant

\* A wake-up before the time-out, or a deletion.
LEMMA UnlinkInvariant ==
    ASSUME IInv, NEW t \in Task, Unlink(t)
    PROVE  IInv'
<1> DEFINE q == QueueWithout(t)
           d == DeltaWithout(t)
           o == OlderWithout(t)
<1>1. /\ op = "none" /\ op' = op /\ who' = who /\ pos' = pos
      /\ dq' = q
      /\ delta' = d
      /\ left' = [left EXCEPT ![t] = 0]
      /\ older' = o
  BY DEF Unlink
<1>2. /\ q \in Seq(Task)
      /\ NoDuplicates(q)
      /\ ToSet(q) = ToSet(dq) \ {t}
      /\ d \in [Task -> 0..MAX_TICKS]
      /\ \A u \in Task : u \notin ToSet(q) => d[u] = 0
      /\ q # <<>> => d[q[1]] > 0
      /\ Chained(q, d, left)
      /\ Ordered(q, left, o)
  BY <1>1, Removal
<1>3. o = [u \in Task |-> IF u = t THEN {} ELSE older[u] \ {t}]
  BY DEF OlderWithout
<1>4. /\ left \in [Task -> 0..MAX_TICKS]
      /\ older \in [Task -> SUBSET Task]
      /\ who \in Task /\ pos = 0
      /\ MAX_TICKS \in Nat
  BY <1>1, MaxTicksAssumption DEF IInv, TypeOK, SearchInvariant
<1> HIDE DEF q, d, o
<1>5. /\ Len(q) \in Nat
      /\ \A i \in 1..Len(q) : q[i] \in Task /\ q[i] # t
      /\ \A u : u \in ToSet(q) <=> \E i \in 1..Len(q) : q[i] = u
      /\ q # <<>> => 1 \in 1..Len(q)
  <2>1. /\ Len(q) \in Nat
        /\ \A i \in 1..Len(q) : q[i] \in Task
        /\ \A u : u \in ToSet(q) <=> \E i \in 1..Len(q) : q[i] = u
        /\ q # <<>> => 1 \in 1..Len(q)
    BY <1>2, ListFacts
  <2>2. \A i \in 1..Len(q) : q[i] # t
    BY <1>2, <2>1
  <2>3. QED
    BY <1>2, <2>1, <2>2
<1>6. \A u \in Task : left'[u] = IF u = t THEN 0 ELSE left[u]
  BY <1>1, <1>4
<1>7. TypeOK'
  BY <1>1, <1>2, <1>3, <1>4, <1>5 DEF TypeOK, IInv
<1>8. Distinct'
  BY <1>1, <1>2 DEF Distinct, NoDuplicates
<1>9. Chained(dq, delta, left)'
  <2>1. q # <<>> => left'[q[1]] = d[q[1]]
    BY <1>2, <1>5, <1>6 DEF Chained
  <2>2. ASSUME NEW i \in 1..(Len(q) - 1)
        PROVE  left'[q[i + 1]] = left'[q[i]] + d[q[i + 1]]
    <3>1. i \in 1..Len(q) /\ i + 1 \in 1..Len(q)
      BY <1>5
    <3>2. left[q[i + 1]] = left[q[i]] + d[q[i + 1]]
      BY <1>2 DEF Chained
    <3>3. QED
      BY <1>5, <1>6, <3>1, <3>2
  <2>3. QED
    BY <1>1, <2>1, <2>2 DEF Chained
<1>10. Ordered(dq, left, older)'
  BY <1>1, <1>2, <1>5, <1>6 DEF Ordered
<1>11. UnlinkedZero'
  BY <1>1, <1>2, <1>5 DEF UnlinkedZero, Linked
<1>12. HeadPositive'
  BY <1>1, <1>2 DEF HeadPositive
<1>13. ArmedTasks' = ToSet(q) /\ ArmedTasks = ToSet(dq)
  BY <1>1, ArmedFacts DEF ArmedTasks
<1>14. HistoryInvariant'
  <2>1. \A u \in Task : older[u] \subseteq ToSet(dq) \ {u}
    BY <1>13 DEF IInv, HistoryInvariant
  <2>2. \A u \in Task : u \notin ToSet(dq) => older[u] = {} /\ left[u] = 0
    BY <1>13 DEF IInv, HistoryInvariant
  <2>3. ASSUME NEW u \in Task
        PROVE  older'[u] \subseteq ToSet(q) \ {u}
    BY <1>1, <1>2, <1>3, <2>1
  <2>4. ASSUME NEW u \in Task, u \notin ToSet(q)
        PROVE  older'[u] = {} /\ left'[u] = 0
    BY <1>1, <1>2, <1>3, <1>6, <2>2, <2>4
  <2>5. QED
    BY <1>13, <2>3, <2>4 DEF HistoryInvariant
<1>15. SearchInvariant'
  BY <1>1, <1>4 DEF SearchInvariant
<1>16. QED
  BY <1>7, <1>8, <1>9, <1>10, <1>11, <1>12, <1>14, <1>15 DEF IInv, QueueInvariant

\* One iteration of the search moves past a node that falls due no later.
LEMMA InsertPassInvariant ==
    ASSUME IInv, InsertPass
    PROVE  IInv'
<1> DEFINE n == dq[pos + 1]
<1>1. /\ op = "insert" /\ op' = op /\ who' = who /\ pos' = pos + 1
      /\ dq' = dq /\ left' = left /\ older' = older
      /\ pos < Len(dq) /\ delta[who] >= delta[n]
      /\ delta' = [delta EXCEPT ![who] = delta[who] - delta[n]]
  BY DEF InsertPass
<1>2. /\ delta \in [Task -> 0..MAX_TICKS]
      /\ left \in [Task -> 0..MAX_TICKS]
      /\ MAX_TICKS \in Nat /\ who \in Task /\ pos \in Nat
      /\ Len(dq) \in Nat /\ \A i \in 1..Len(dq) : dq[i] \in Task
      /\ dq # <<>> <=> Len(dq) > 0
  BY MaxTicksAssumption, QueueFacts DEF IInv, TypeOK
<1>3. \A i \in 1..Len(dq) : dq[i] # who
  BY <1>1 DEF IInv, QueueInvariant, Distinct, Linked
<1>4. pos + 1 \in 1..Len(dq) /\ n \in Task /\ n # who
  BY <1>1, <1>2, <1>3
<1> HIDE DEF n
<1>5. /\ \A i \in 1..Len(dq) : delta'[dq[i]] = delta[dq[i]]
      /\ delta'[who] = delta[who] - delta[n]
      /\ delta[who] \in 0..MAX_TICKS /\ delta[n] \in 0..MAX_TICKS
  BY <1>1, <1>2, <1>3, <1>4
<1>6. TypeOK'
  <2>1. delta' \in [Task -> 0..MAX_TICKS]
    BY <1>1, <1>2, <1>4, <1>5
  <2>2. pos' \in 0..Len(dq')
    BY <1>1, <1>2, <1>4
  <2>3. QED
    BY <1>1, <2>1, <2>2 DEF IInv, TypeOK
<1>7. QueueInvariant'
  <2>1. Distinct' /\ Ordered(dq, left, older)'
    BY <1>1 DEF IInv, QueueInvariant, Distinct, Linked, Ordered
  <2>2. Chained(dq, delta, left)'
    <3>1. \A i \in 1..(Len(dq) - 1) : i + 1 \in 1..Len(dq)
      BY <1>2
    <3>2. QED
      BY <1>1, <1>2, <1>5, <3>1 DEF IInv, QueueInvariant, Chained
  <2>3. UnlinkedZero'
    BY <1>1, <1>2 DEF IInv, QueueInvariant, UnlinkedZero, Linked
  <2>4. QED
    BY <2>1, <2>2, <2>3 DEF QueueInvariant
<1>8. HeadPositive'
  BY <1>1, <1>2, <1>5 DEF IInv, HeadPositive
<1>9. HistoryInvariant'
  BY <1>1 DEF IInv, HistoryInvariant, ArmedTasks
<1>10. SearchInvariant'
  <2>1. /\ left[who] = delta[who] + IF pos = 0 THEN 0 ELSE left[dq[pos]]
        /\ left[who] > 0 /\ older[who] = ToSet(dq)
        /\ \A i \in 1..Len(dq) : who \notin older[dq[i]]
    BY <1>1 DEF IInv, SearchInvariant
  <2>2. left[n] = delta[n] + IF pos = 0 THEN 0 ELSE left[dq[pos]]
    <3>1. Chained(dq, delta, left)
      BY DEF IInv, QueueInvariant
    <3>2. CASE pos = 0
      BY <1>2, <1>4, <3>1, <3>2 DEF Chained, n
    <3>3. CASE pos # 0
      <4>1. pos \in 1..(Len(dq) - 1)
        BY <1>2, <1>4, <3>3
      <4>2. left[dq[pos + 1]] = left[dq[pos]] + delta[dq[pos + 1]]
        BY <3>1, <4>1 DEF Chained
      <4>3. left[dq[pos]] \in Nat /\ delta[dq[pos + 1]] \in Nat
        BY <1>2, <1>4, <4>1
      <4>4. QED
        BY <3>3, <4>2, <4>3 DEF n
    <3>4. QED
      BY <3>2, <3>3
  <2>3. left[who] = delta'[who] + left[n]
    <3>1. left[who] \in Nat /\ left[n] \in Nat
      BY <1>2, <1>4
    <3>2. pos # 0 => left[dq[pos]] \in Nat
      BY <1>2, <1>4
    <3>3. QED
      BY <1>5, <2>1, <2>2, <3>1, <3>2
  <2>4. pos' # 0 /\ dq'[pos'] = n
    BY <1>1, <1>2 DEF n
  <2>5. QED
    BY <1>1, <2>1, <2>3, <2>4 DEF SearchInvariant
<1>11. QED
  BY <1>6, <1>7, <1>8, <1>9, <1>10 DEF IInv

\* The search ends where the task keeps the queue in order.
LEMMA InsertLinkInvariant ==
    ASSUME IInv, InsertLink
    PROVE  IInv'
<1> DEFINE k == pos + 1
           q == InsertAt(dq, k, who)
<1>1. /\ op = "insert" /\ op' = "none" /\ who' = who /\ pos' = 0
      /\ left' = left /\ older' = older
      /\ dq' = q
  BY DEF InsertLink
<1>2. \/ pos = Len(dq) /\ delta' = delta
      \/ /\ pos < Len(dq) /\ delta[who] < delta[dq[k]]
         /\ delta' = [delta EXCEPT ![dq[k]] = delta[dq[k]] - delta[who]]
  BY DEF InsertLink
<1>3. /\ delta \in [Task -> 0..MAX_TICKS]
      /\ left \in [Task -> 0..MAX_TICKS]
      /\ MAX_TICKS \in Nat /\ who \in Task /\ pos \in 0..Len(dq)
      /\ dq \in Seq(Task)
      /\ Len(dq) \in Nat /\ \A i \in 1..Len(dq) : dq[i] \in Task
      /\ dq # <<>> <=> Len(dq) > 0
      /\ NoDuplicates(dq)
      /\ \A u : u \in ToSet(dq) <=> Linked(u)
  BY MaxTicksAssumption, QueueFacts DEF IInv, TypeOK
<1>4. (\A i \in 1..Len(dq) : dq[i] # who) /\ who \notin ToSet(dq)
  BY <1>1, <1>3 DEF IInv, QueueInvariant, Distinct, Linked
<1>5. /\ left[who] = delta[who] + IF pos = 0 THEN 0 ELSE left[dq[pos]]
      /\ left[who] > 0 /\ older[who] = ToSet(dq)
      /\ \A i \in 1..Len(dq) : who \notin older[dq[i]]
  BY <1>1 DEF IInv, SearchInvariant
<1>6. /\ Chained(dq, delta, left)
      /\ Ordered(dq, left, older)
      /\ UnlinkedZero
      /\ dq # <<>> => delta[dq[1]] > 0
  BY <1>1 DEF IInv, QueueInvariant, HeadPositive
<1>7. k \in 1..(Len(dq) + 1)
  BY <1>3
<1> HIDE DEF k, q
<1>8. /\ q \in Seq(Task)
      /\ Len(q) = Len(dq) + 1
      /\ \A i \in 1..(Len(dq) + 1) :
            q[i] = IF i < k THEN dq[i] ELSE IF i = k THEN who ELSE dq[i - 1]
  BY <1>3, <1>7, InsertAtProperties DEF q
<1>n. Len(dq) \in Nat /\ Len(q) = Len(dq) + 1 /\ pos \in 0..Len(dq) /\ k = pos + 1
  BY <1>3, <1>8 DEF k
<1>before. \A i \in 1..Len(dq) : i < k => q[i] = dq[i]
  <2> SUFFICES ASSUME NEW i \in 1..Len(dq), i < k
               PROVE  q[i] = dq[i]
    OBVIOUS
  <2>1. i \in 1..(Len(dq) + 1)
    BY <1>n
  <2>2. QED
    BY <1>8, <2>1
<1>at. q[k] = who
  BY <1>n, <1>7, <1>8
<1>after. \A i \in 1..Len(dq) : i >= k => q[i + 1] = dq[i]
  <2> SUFFICES ASSUME NEW i \in 1..Len(dq), i >= k
               PROVE  q[i + 1] = dq[i]
    OBVIOUS
  <2>1. i + 1 \in 1..(Len(dq) + 1) /\ ~(i + 1 < k) /\ i + 1 # k /\ (i + 1) - 1 = i
    BY <1>n
  <2>2. QED
    BY <1>8, <2>1
<1>9. ToSet(q) = ToSet(dq) \cup {who} /\ NoDuplicates(q)
  BY <1>3, <1>4, <1>7, InsertAtElements DEF q
<1>10. \A i \in 1..Len(q) : q[i] \in Task
  BY <1>8, ElementOfSeq
<1>11. \A u \in Task : u = who \/ (delta[u] \in Nat /\ left[u] \in Nat)
  BY <1>3
<1>12. \A i \in 1..Len(dq) :
          delta'[dq[i]] = IF i = k THEN delta[dq[i]] - delta[who] ELSE delta[dq[i]]
  <2> SUFFICES ASSUME NEW i \in 1..Len(dq)
               PROVE  delta'[dq[i]] = IF i = k THEN delta[dq[i]] - delta[who]
                                      ELSE delta[dq[i]]
    OBVIOUS
  <2>1. CASE pos = Len(dq) /\ delta' = delta
    BY <1>3, <2>1 DEF k
  <2>2. CASE /\ pos < Len(dq)
             /\ delta' = [delta EXCEPT ![dq[k]] = delta[dq[k]] - delta[who]]
    <3>1. k \in 1..Len(dq)
      BY <1>3, <2>2 DEF k
    <3>2. dq[i] = dq[k] <=> i = k
      BY <1>3, <3>1 DEF NoDuplicates
    <3>3. QED
      BY <1>3, <2>2, <3>1, <3>2
  <2>3. QED
    BY <1>2, <2>1, <2>2
<1>13. delta'[who] = delta[who]
  <2>1. pos < Len(dq) => k \in 1..Len(dq)
    BY <1>3 DEF k
  <2>2. pos < Len(dq) => dq[k] # who
    BY <1>4, <2>1
  <2>3. QED
    BY <1>2, <1>3, <2>2
<1>14. k \in 1..Len(dq) => delta[who] < delta[dq[k]]
  BY <1>2, <1>3 DEF k
<1>15. TypeOK'
  <2>1. delta' \in [Task -> 0..MAX_TICKS]
    <3>1. CASE delta' = delta
      BY <1>3, <3>1
    <3>2. CASE /\ delta[who] < delta[dq[k]] /\ pos < Len(dq)
               /\ delta' = [delta EXCEPT ![dq[k]] = delta[dq[k]] - delta[who]]
      <4>1. k \in 1..Len(dq) /\ dq[k] \in Task
        BY <1>3, <3>2 DEF k
      <4>2. delta[dq[k]] - delta[who] \in 0..MAX_TICKS
        BY <1>3, <3>2, <4>1
      <4>3. QED
        BY <1>3, <3>2, <4>2
    <3>3. QED
      BY <1>2, <3>1, <3>2
  <2>2. pos' \in 0..Len(dq')
    BY <1>1, <1>3, <1>8
  <2>3. QED
    BY <1>1, <1>8, <2>1, <2>2 DEF IInv, TypeOK
<1>16. Distinct'
  BY <1>1, <1>9 DEF Distinct, NoDuplicates
<1>17. q[1] \in Task /\ left[q[1]] = delta'[q[1]] /\ delta'[q[1]] > 0
  <2>1. CASE k = 1
    <3>1. q[1] = who /\ pos = 0
      BY <1>3, <1>8, <2>1 DEF k
    <3>2. left[who] = delta[who]
      BY <1>3, <1>5, <3>1
    <3>3. QED
      BY <1>3, <1>5, <1>13, <3>1, <3>2
  <2>2. CASE k # 1
    <3>1. 1 \in 1..Len(dq) /\ q[1] = dq[1] /\ delta'[dq[1]] = delta[dq[1]]
      <4>1. 1 \in 1..Len(dq) /\ 1 < k
        BY <1>n, <2>2
      <4>2. QED
        BY <1>before, <1>12, <4>1
    <3>2. dq # <<>>
      BY <1>3, <3>1
    <3>3. QED
      BY <1>3, <1>6, <3>1, <3>2 DEF Chained
  <2>3. QED
    BY <2>1, <2>2
<1>18. ASSUME NEW i \in 1..(Len(q) - 1)
       PROVE  left[q[i + 1]] = left[q[i]] + delta'[q[i + 1]]
  <2>1. CASE i + 1 < k
    <3>1. /\ i \in 1..(Len(dq) - 1)
          /\ q[i] = dq[i] /\ q[i + 1] = dq[i + 1]
          /\ i + 1 \in 1..Len(dq) /\ i + 1 # k
      <4>1. /\ i \in 1..(Len(dq) - 1) /\ i \in 1..Len(dq) /\ i < k
            /\ i + 1 \in 1..Len(dq) /\ i + 1 # k
        BY <1>n, <2>1
      <4>2. QED
        BY <1>before, <2>1, <4>1
    <3>2. delta'[dq[i + 1]] = delta[dq[i + 1]]
      BY <1>12, <3>1
    <3>3. left[dq[i + 1]] = left[dq[i]] + delta[dq[i + 1]]
      BY <1>6, <3>1 DEF Chained
    <3>4. QED
      BY <3>1, <3>2, <3>3
  <2>2. CASE i + 1 = k
    <3>1. i = pos /\ pos # 0 /\ q[i] = dq[pos] /\ q[i + 1] = who /\ pos \in 1..Len(dq)
      <4>1. i = pos /\ pos # 0 /\ pos \in 1..Len(dq) /\ pos < k
        BY <1>n, <2>2
      <4>2. QED
        BY <1>before, <1>at, <2>2, <4>1
    <3>2. left[who] = delta[who] + left[dq[pos]] /\ left[dq[pos]] \in Nat
      BY <1>3, <1>5, <3>1
    <3>3. QED
      BY <1>3, <1>13, <3>1, <3>2
  <2>3. CASE i = k
    <3>1. k \in 1..Len(dq) /\ q[i] = who /\ q[i + 1] = dq[k]
      <4>1. k \in 1..Len(dq) /\ k >= k
        BY <1>n, <2>3
      <4>2. QED
        BY <1>after, <1>at, <2>3, <4>1
    <3>2. delta'[dq[k]] = delta[dq[k]] - delta[who]
      BY <1>12, <3>1
    <3>3. left[dq[k]] = delta[dq[k]] + IF pos = 0 THEN 0 ELSE left[dq[pos]]
      <4>1. CASE pos = 0
        <5>1. k = 1 /\ dq # <<>>
          BY <1>3, <3>1, <4>1 DEF k
        <5>2. left[dq[1]] = delta[dq[1]] /\ delta[dq[1]] \in Nat
          BY <1>3, <1>6, <3>1, <5>1 DEF Chained
        <5>3. QED
          BY <4>1, <5>1, <5>2
      <4>2. CASE pos # 0
        <5>1. pos \in 1..(Len(dq) - 1) /\ k = pos + 1
          BY <1>3, <3>1, <4>2 DEF k
        <5>2. left[dq[pos + 1]] = left[dq[pos]] + delta[dq[pos + 1]]
          BY <1>6, <5>1 DEF Chained
        <5>3. left[dq[pos]] \in Nat /\ delta[dq[k]] \in Nat
          BY <1>3, <3>1, <5>1
        <5>4. QED
          BY <4>2, <5>1, <5>2, <5>3
      <4>3. QED
        BY <4>1, <4>2
    <3>4. /\ delta[who] \in Nat /\ delta[dq[k]] \in Nat
          /\ pos # 0 => left[dq[pos]] \in Nat
      BY <1>3, <3>1
    <3>5. QED
      BY <1>5, <3>1, <3>2, <3>3, <3>4
  <2>4. CASE i > k
    <3>1. PICK j \in 1..(Len(dq) - 1) : j + 1 = i
      <4>1. i - 1 \in 1..(Len(dq) - 1) /\ (i - 1) + 1 = i
        BY <1>3, <1>7, <1>8, <2>4
      <4>2. QED
        BY <4>1
    <3>2. q[i] = dq[j] /\ q[i + 1] = dq[j + 1] /\ j + 1 \in 1..Len(dq) /\ j + 1 # k
      <4>1. /\ j \in 1..Len(dq) /\ j >= k
            /\ j + 1 \in 1..Len(dq) /\ j + 1 >= k /\ j + 1 # k
        BY <1>n, <2>4, <3>1
      <4>2. QED
        BY <1>after, <3>1, <4>1
    <3>3. delta'[dq[j + 1]] = delta[dq[j + 1]]
      BY <1>12, <3>2
    <3>4. left[dq[j + 1]] = left[dq[j]] + delta[dq[j + 1]]
      BY <1>6, <3>1 DEF Chained
    <3>5. QED
      BY <3>2, <3>3, <3>4
  <2>5. i + 1 < k \/ i + 1 = k \/ i = k \/ i > k
    BY <1>n
  <2>6. QED
    BY <2>1, <2>2, <2>3, <2>4, <2>5
<1>19. Chained(dq, delta, left)'
  BY <1>1, <1>17, <1>18 DEF Chained
<1>20. ASSUME NEW i \in 1..Len(dq), i < k
       PROVE  left[dq[i]] <= left[who]
  <2>1. pos # 0 /\ pos \in 1..Len(dq) /\ (i = pos \/ i < pos)
    BY <1>3, <1>20 DEF k
  <2>2. left[dq[i]] <= left[dq[pos]]
    <3>1. left[dq[i]] \in Nat /\ left[dq[pos]] \in Nat
      BY <1>3, <2>1
    <3>2. QED
      BY <1>6, <2>1, <3>1 DEF Ordered
  <2>3. left[dq[i]] \in Nat /\ left[dq[pos]] \in Nat /\ delta[who] \in Nat
    BY <1>3, <2>1
  <2>4. QED
    BY <1>5, <2>1, <2>2, <2>3
<1>21. ASSUME NEW i \in 1..Len(dq), i >= k
       PROVE  left[who] < left[dq[i]]
  <2>1. k \in 1..Len(dq) /\ (i = k \/ k < i)
    BY <1>3, <1>7, <1>21
  <2>2. k + 1 \in 1..(Len(q)) /\ k \in 1..(Len(q) - 1)
    BY <1>3, <1>8, <2>1
  <2>3. left[q[k + 1]] = left[q[k]] + delta'[q[k + 1]] /\ q[k] = who /\ q[k + 1] = dq[k]
    BY <1>18, <1>at, <1>after, <1>n, <2>1, <2>2
  <2>4. delta'[dq[k]] = delta[dq[k]] - delta[who] /\ delta[who] < delta[dq[k]]
    BY <1>12, <1>14, <2>1
  <2>5. /\ left[who] \in Nat /\ delta[who] \in Nat /\ delta[dq[k]] \in Nat
        /\ left[dq[k]] \in Nat /\ left[dq[i]] \in Nat
    BY <1>3, <2>1
  <2>6. left[who] < left[dq[k]]
    BY <2>3, <2>4, <2>5
  <2>7. left[dq[k]] <= left[dq[i]]
    BY <1>6, <2>1, <2>5 DEF Ordered
  <2>8. QED
    BY <2>5, <2>6, <2>7
<1>22. Ordered(dq, left, older)'
  <2> SUFFICES ASSUME NEW i \in 1..Len(q), NEW j \in 1..Len(q), i < j
               PROVE  \/ left[q[i]] < left[q[j]]
                      \/ /\ left[q[i]] = left[q[j]]
                         /\ q[i] \in older[q[j]]
                         /\ q[j] \notin older[q[i]]
    BY <1>1 DEF Ordered
  <2>1. CASE i = k
    <3>1. q[i] = who /\ j - 1 \in 1..Len(dq) /\ q[j] = dq[j - 1] /\ j - 1 >= k
      BY <1>3, <1>7, <1>8, <2>1
    <3>2. QED
      BY <1>21, <3>1
  <2>2. CASE j = k
    <3>1. q[j] = who /\ i \in 1..Len(dq) /\ q[i] = dq[i] /\ i < k
      BY <1>3, <1>7, <1>8, <2>2
    <3>2. dq[i] \in older[who] /\ who \notin older[dq[i]]
      BY <1>3, <1>5, <3>1 DEF Linked
    <3>3. left[dq[i]] <= left[who] /\ left[dq[i]] \in Nat /\ left[who] \in Nat
      BY <1>3, <1>20, <3>1
    <3>4. QED
      BY <3>1, <3>2, <3>3
  <2>3. CASE i # k /\ j # k
    <3>1. PICK a \in 1..Len(dq), b \in 1..Len(dq) :
             a < b /\ q[i] = dq[a] /\ q[j] = dq[b]
      <4> DEFINE m(x) == IF x < k THEN x ELSE x - 1
      <4>1. m(i) \in 1..Len(dq) /\ m(j) \in 1..Len(dq) /\ m(i) < m(j)
        BY <1>n, <2>3
      <4>2. q[i] = dq[m(i)] /\ q[j] = dq[m(j)]
        BY <1>3, <1>7, <1>8, <2>3
      <4>3. QED
        BY <4>1, <4>2
    <3>2. QED
      BY <1>6, <3>1 DEF Ordered
  <2>4. QED
    BY <2>1, <2>2, <2>3
<1>23. Linked(who)' /\ \A u \in Task : Linked(u)' <=> u = who \/ Linked(u)
  <2>1. \A u : u \in ToSet(q) <=> \E i \in 1..Len(q) : q[i] = u
    BY <1>8, ListFacts
  <2>2. \A u : Linked(u)' <=> u \in ToSet(q)
    BY <1>1, <2>1 DEF Linked
  <2>3. Linked(who)' <=> \E i \in 1..Len(q) : q[i] = who
    BY <1>1 DEF Linked
  <2>4. QED
    BY <1>3, <1>9, <2>1, <2>2, <2>3
<1>24. UnlinkedZero'
  <2> SUFFICES ASSUME NEW u \in Task, ~Linked(u)' PROVE delta'[u] = 0
    BY DEF UnlinkedZero
  <2>1. u # who /\ ~Linked(u)
    BY <1>23
  <2>2. delta[u] = 0
    BY <1>6, <2>1 DEF UnlinkedZero
  <2>3. pos < Len(dq) => dq[k] # u
    <3>1. pos < Len(dq) => k \in 1..Len(dq)
      BY <1>3 DEF k
    <3>2. QED
      BY <2>1, <3>1 DEF Linked
  <2>4. QED
    BY <1>2, <1>3, <2>2, <2>3
<1>25. HeadPositive'
  BY <1>1, <1>17 DEF HeadPositive
<1>26. ArmedTasks' = ArmedTasks
  BY <1>1, <1>9 DEF ArmedTasks
<1>27. HistoryInvariant' /\ SearchInvariant'
  BY <1>1, <1>26 DEF IInv, HistoryInvariant, SearchInvariant
<1>28. QED
  BY <1>15, <1>16, <1>19, <1>22, <1>24, <1>25, <1>27 DEF IInv, QueueInvariant

\* A tick takes one from the head's delta, and so one from every time left.
LEMMA DealBeginInvariant ==
    ASSUME IInv, DealBegin
    PROVE  IInv'
<1>1. /\ op = "none" /\ op' = "deal" /\ who' = who /\ pos' = pos
      /\ dq # <<>> /\ dq' = dq /\ older' = older
      /\ delta' = [delta EXCEPT ![dq[1]] = delta[dq[1]] - 1]
      /\ left' = [u \in Task |-> IF Linked(u) THEN left[u] - 1 ELSE 0]
  BY DEF DealBegin
<1>2. /\ delta \in [Task -> 0..MAX_TICKS]
      /\ left \in [Task -> 0..MAX_TICKS]
      /\ MAX_TICKS \in Nat /\ pos = 0
      /\ dq \in Seq(Task)
      /\ Len(dq) \in Nat /\ \A i \in 1..Len(dq) : dq[i] \in Task
      /\ NoDuplicates(dq)
      /\ 1 \in 1..Len(dq)
  BY <1>1, MaxTicksAssumption, QueueFacts DEF IInv, TypeOK, SearchInvariant
<1>3. /\ Chained(dq, delta, left) /\ Ordered(dq, left, older)
      /\ UnlinkedZero /\ Distinct
      /\ delta[dq[1]] > 0
  BY <1>1 DEF IInv, QueueInvariant, HeadPositive
<1>4. \A i \in 1..Len(dq) :
         /\ left[dq[i]] \in 1..MAX_TICKS
         /\ left'[dq[i]] = left[dq[i]] - 1
         /\ delta'[dq[i]] = IF i = 1 THEN delta[dq[i]] - 1 ELSE delta[dq[i]]
  <2> SUFFICES ASSUME NEW i \in 1..Len(dq)
               PROVE  /\ left[dq[i]] \in 1..MAX_TICKS
                      /\ left'[dq[i]] = left[dq[i]] - 1
                      /\ delta'[dq[i]] = IF i = 1 THEN delta[dq[i]] - 1 ELSE delta[dq[i]]
    OBVIOUS
  <2>1. left[dq[1]] > 0 /\ left[dq[1]] \in Nat /\ left[dq[i]] \in 0..MAX_TICKS
    BY <1>1, <1>2, <1>3 DEF Chained
  <2>2. left[dq[i]] \in 1..MAX_TICKS
    <3>1. CASE i = 1
      BY <1>2, <2>1, <3>1
    <3>2. CASE i # 1
      <4>1. 1 < i
        BY <1>2, <3>2
      <4>2. left[dq[1]] <= left[dq[i]]
        BY <1>2, <1>3, <2>1, <4>1 DEF Ordered
      <4>3. QED
        BY <1>2, <2>1, <4>2
    <3>3. QED
      BY <3>1, <3>2
  <2>3. left'[dq[i]] = left[dq[i]] - 1
    BY <1>1, <1>2 DEF Linked
  <2>4. dq[i] = dq[1] <=> i = 1
    BY <1>2 DEF NoDuplicates
  <2>5. QED
    BY <1>1, <1>2, <2>2, <2>3, <2>4
<1>5. TypeOK'
  <2>1. ASSUME NEW u \in Task PROVE left'[u] \in 0..MAX_TICKS
    <3>1. CASE Linked(u)
      <4>1. PICK i \in 1..Len(dq) : dq[i] = u
        BY <3>1 DEF Linked
      <4>2. QED
        BY <1>2, <1>4, <4>1
    <3>2. CASE ~Linked(u)
      BY <1>1, <1>2, <3>2
    <3>3. QED
      BY <3>1, <3>2
  <2>2. left' \in [Task -> 0..MAX_TICKS]
    BY <1>1, <2>1
  <2>3. delta' \in [Task -> 0..MAX_TICKS]
    BY <1>1, <1>2, <1>3
  <2>4. QED
    BY <1>1, <2>2, <2>3 DEF IInv, TypeOK
<1>6. Chained(dq, delta, left)'
  <2>1. left'[dq[1]] = delta'[dq[1]]
    BY <1>1, <1>2, <1>3, <1>4 DEF Chained
  <2>2. ASSUME NEW i \in 1..(Len(dq) - 1)
        PROVE  left'[dq[i + 1]] = left'[dq[i]] + delta'[dq[i + 1]]
    <3>1. i \in 1..Len(dq) /\ i + 1 \in 1..Len(dq) /\ i + 1 # 1
      BY <1>2
    <3>2. left[dq[i + 1]] = left[dq[i]] + delta[dq[i + 1]]
      BY <1>3 DEF Chained
    <3>3. left[dq[i]] \in Nat /\ delta[dq[i + 1]] \in Nat
      BY <1>2, <3>1
    <3>4. QED
      BY <1>4, <3>1, <3>2, <3>3
  <2>3. QED
    BY <1>1, <2>1, <2>2 DEF Chained
<1>7. Ordered(dq, left, older)'
  <2> SUFFICES ASSUME NEW i \in 1..Len(dq), NEW j \in 1..Len(dq), i < j
               PROVE  \/ left'[dq[i]] < left'[dq[j]]
                      \/ /\ left'[dq[i]] = left'[dq[j]]
                         /\ dq[i] \in older[dq[j]]
                         /\ dq[j] \notin older[dq[i]]
    BY <1>1 DEF Ordered
  <2>1. \/ left[dq[i]] < left[dq[j]]
        \/ /\ left[dq[i]] = left[dq[j]]
           /\ dq[i] \in older[dq[j]]
           /\ dq[j] \notin older[dq[i]]
    BY <1>3 DEF Ordered
  <2>2. /\ left'[dq[i]] = left[dq[i]] - 1 /\ left[dq[i]] \in 1..MAX_TICKS
        /\ left'[dq[j]] = left[dq[j]] - 1 /\ left[dq[j]] \in 1..MAX_TICKS
    BY <1>4
  <2>3. QED
    BY <1>2, <2>1, <2>2
<1>8. Distinct' /\ UnlinkedZero'
  BY <1>1, <1>2, <1>3 DEF Distinct, UnlinkedZero, Linked
<1>9. HeadPositive' /\ SearchInvariant'
  BY <1>1, <1>2 DEF HeadPositive, SearchInvariant
<1>10. HistoryInvariant'
  <2>1. ArmedTasks' = ArmedTasks /\ ArmedTasks = ToSet(dq)
    BY <1>1 DEF ArmedTasks
  <2>2. \A u \in Task \ ArmedTasks : left'[u] = 0
    BY <1>1, <2>1, QueueFacts
  <2>3. QED
    BY <1>1, <2>1, <2>2 DEF IInv, HistoryInvariant
<1>11. QED
  BY <1>5, <1>6, <1>7, <1>8, <1>9, <1>10 DEF IInv, QueueInvariant

\* Unlinking the head that is due leaves the others where they are.
LEMMA DealFireInvariant ==
    ASSUME IInv, DealFire
    PROVE  IInv'
<1> DEFINE h == dq[1]
           q == Tail(dq)
<1>1. /\ op = "deal" /\ op' = op /\ who' = who /\ pos' = pos
      /\ dq # <<>> /\ dq' = q /\ left' = left
      /\ delta[h] = 0
      /\ delta' = [delta EXCEPT ![h] = 0]
      /\ older' = [u \in Task |-> IF u = h THEN {} ELSE older[u] \ {h}]
  BY DEF DealFire, OlderWithout
<1>2. /\ delta \in [Task -> 0..MAX_TICKS]
      /\ left \in [Task -> 0..MAX_TICKS]
      /\ older \in [Task -> SUBSET Task]
      /\ MAX_TICKS \in Nat /\ pos = 0
      /\ dq \in Seq(Task)
      /\ Len(dq) \in Nat /\ \A i \in 1..Len(dq) : dq[i] \in Task
      /\ NoDuplicates(dq)
      /\ 1 \in 1..Len(dq) /\ h \in Task
      /\ \A u : u \in ToSet(dq) <=> Linked(u)
  BY <1>1, MaxTicksAssumption, QueueFacts DEF IInv, TypeOK, SearchInvariant
<1>3. /\ Chained(dq, delta, left) /\ Ordered(dq, left, older) /\ UnlinkedZero
  BY DEF IInv, QueueInvariant
<1> HIDE DEF h, q
<1>4. delta' = delta
  BY <1>1, <1>2
<1>5. /\ q \in Seq(Task)
      /\ Len(q) = Len(dq) - 1
      /\ \A i \in 1..Len(q) : q[i] = dq[i + 1] /\ i + 1 \in 1..Len(dq) /\ q[i] # h
      /\ ToSet(q) = ToSet(dq) \ {h}
      /\ NoDuplicates(q)
  <2>1. q \in Seq(Task) /\ Len(q) = Len(dq) - 1 /\ \A i \in 1..Len(q) : q[i] = dq[i + 1]
    BY <1>1, <1>2, HeadTailProperties DEF q
  <2>2. ToSet(q) = ToSet(dq) \ {h} /\ NoDuplicates(q)
    BY <1>1, <1>2, TailElements DEF q, h
  <2>3. \A i \in 1..Len(q) : i + 1 \in 1..Len(dq) /\ i + 1 # 1
    BY <1>2, <2>1
  <2>4. \A i \in 1..Len(q) : q[i] # h
    BY <1>2, <2>1, <2>3 DEF NoDuplicates, h
  <2>5. QED
    BY <2>1, <2>2, <2>3, <2>4
<1>6. left[h] = 0
  BY <1>1, <1>3 DEF Chained, h
<1>7. TypeOK'
  BY <1>1, <1>2, <1>4, <1>5 DEF IInv, TypeOK
<1>8. Distinct'
  BY <1>1, <1>5 DEF Distinct, NoDuplicates
<1>9. Chained(dq, delta, left)'
  <2>1. ASSUME NEW i \in 1..(Len(dq) - 1)
        PROVE  left[dq[i + 1]] = left[dq[i]] + delta[dq[i + 1]]
    BY <1>3 DEF Chained
  <2>2. ASSUME q # <<>> PROVE left[q[1]] = delta[q[1]]
    <3>1. 1 \in 1..Len(q)
      BY <1>5, <2>2, ListFacts
    <3>2. 1 \in 1..(Len(dq) - 1) /\ q[1] = dq[1 + 1] /\ delta[dq[1 + 1]] \in Nat
      BY <1>2, <1>5, <3>1
    <3>3. left[dq[1 + 1]] = left[h] + delta[dq[1 + 1]]
      BY <2>1, <3>2 DEF h
    <3>4. QED
      BY <1>6, <3>2, <3>3
  <2>3. ASSUME NEW i \in 1..(Len(q) - 1)
        PROVE  left[q[i + 1]] = left[q[i]] + delta[q[i + 1]]
    <3>1. i \in 1..Len(q) /\ i + 1 \in 1..Len(q) /\ i + 1 \in 1..(Len(dq) - 1)
      BY <1>2, <1>5
    <3>2. q[i] = dq[i + 1] /\ q[i + 1] = dq[(i + 1) + 1]
      BY <1>5, <3>1
    <3>3. QED
      BY <2>1, <3>1, <3>2
  <2>4. QED
    BY <1>1, <1>4, <2>2, <2>3 DEF Chained
<1>a. dq' = q /\ left' = left
  BY <1>1
<1>10. Ordered(dq, left, older)'
  <2> SUFFICES ASSUME NEW i \in 1..Len(q), NEW j \in 1..Len(q), i < j
               PROVE  \/ left[q[i]] < left[q[j]]
                      \/ /\ left[q[i]] = left[q[j]]
                         /\ q[i] \in older'[q[j]]
                         /\ q[j] \notin older'[q[i]]
    BY <1>a DEF Ordered
  <2>1. PICK a \in 1..Len(dq), b \in 1..Len(dq) :
           a < b /\ q[i] = dq[a] /\ q[j] = dq[b]
    <3>1. i + 1 < j + 1
      BY <1>2, <1>5
    <3>2. QED
      BY <1>5, <3>1
  <2>2. \/ left[q[i]] < left[q[j]]
        \/ /\ left[q[i]] = left[q[j]]
           /\ q[i] \in older[q[j]]
           /\ q[j] \notin older[q[i]]
    BY <1>3, <2>1 DEF Ordered
  <2>3. q[i] \in Task /\ q[j] \in Task /\ q[i] # h /\ q[j] # h
    BY <1>5, ElementOfSeq
  <2>4. QED
    BY <1>1, <2>2, <2>3
<1>11. UnlinkedZero'
  <2> SUFFICES ASSUME NEW u \in Task, ~Linked(u)' PROVE delta[u] = 0
    BY <1>4 DEF UnlinkedZero
  <2>1. u \notin ToSet(q)
    BY <1>1, <1>5, ListFacts DEF Linked
  <2>2. QED
    BY <1>1, <1>2, <1>3, <1>5, <2>1 DEF UnlinkedZero
<1>12. HeadPositive' /\ SearchInvariant'
  BY <1>1, <1>2 DEF HeadPositive, SearchInvariant
<1>13. HistoryInvariant'
  <2>1. ArmedTasks' = ToSet(dq) \ {h} /\ ArmedTasks = ToSet(dq)
    BY <1>1, <1>5 DEF ArmedTasks
  <2>2. /\ \A u \in Task : older[u] \subseteq ToSet(dq) \ {u}
        /\ \A u \in Task : u \notin ToSet(dq) => older[u] = {} /\ left[u] = 0
    BY <2>1 DEF IInv, HistoryInvariant
  <2>3. \A u \in Task : older'[u] \subseteq (ToSet(dq) \ {h}) \ {u}
    BY <1>1, <2>2
  <2>4. \A u \in Task : u \notin ToSet(dq) \ {h} => older'[u] = {} /\ left'[u] = 0
    BY <1>1, <1>6, <2>2
  <2>5. QED
    BY <2>1, <2>3, <2>4 DEF HistoryInvariant
<1>14. QED
  BY <1>7, <1>8, <1>9, <1>10, <1>11, <1>12, <1>13 DEF IInv, QueueInvariant

\* The end of the expiry loop: the head is not due, nor is anybody behind it.
LEMMA DealEndInvariant ==
    ASSUME IInv, DealEnd
    PROVE  IInv'
<1>1. /\ op = "deal" /\ op' = "none"
      /\ dq # <<>> => delta[dq[1]] # 0
      /\ UNCHANGED <<dq, delta, who, pos, left, older>>
  BY DEF DealEnd
<1>2. HeadPositive'
  <2>1. dq # <<>> => dq[1] \in Task
    BY QueueFacts
  <2>2. \A t \in Task : delta[t] \in Nat
    BY MaxTicksAssumption DEF IInv, TypeOK
  <2>3. QED
    BY <1>1, <2>1, <2>2 DEF HeadPositive
<1>3. TypeOK' /\ QueueInvariant'
  BY <1>1 DEF IInv, TypeOK, QueueInvariant, Distinct, Chained, Ordered,
              UnlinkedZero, Linked
<1>4. HistoryInvariant' /\ SearchInvariant'
  BY <1>1 DEF IInv, HistoryInvariant, SearchInvariant, ArmedTasks
<1>5. QED
  BY <1>2, <1>3, <1>4 DEF IInv

\* A step that changes nothing.
LEMMA StutterInvariant == IInv /\ UNCHANGED vars => IInv'
BY DEF vars, IInv, TypeOK, QueueInvariant, Distinct, Chained, Ordered, UnlinkedZero,
       Linked, HeadPositive, HistoryInvariant, SearchInvariant, ArmedTasks

\* Every step of the queue keeps the invariant.
LEMMA NextInvariant == IInv /\ [Next]_vars => IInv'
<1> SUFFICES ASSUME IInv, [Next]_vars PROVE IInv'
  OBVIOUS
<1>1. ASSUME NEW t \in Task, NEW ticks \in 1..MAX_TICKS, InsertBegin(t, ticks)
      PROVE  IInv'
  BY <1>1, InsertBeginInvariant
<1>2. ASSUME NEW t \in Task, Unlink(t)
      PROVE  IInv'
  BY <1>2, UnlinkInvariant
<1>3. CASE DealBegin
  BY <1>3, DealBeginInvariant
<1>4. CASE InsertPass
  BY <1>4, InsertPassInvariant
<1>5. CASE InsertLink
  BY <1>5, InsertLinkInvariant
<1>6. CASE DealFire
  BY <1>6, DealFireInvariant
<1>7. CASE DealEnd
  BY <1>7, DealEndInvariant
<1>8. CASE UNCHANGED vars
  BY <1>8, StutterInvariant
<1>9. QED
  BY <1>1, <1>2, <1>3, <1>4, <1>5, <1>6, <1>7, <1>8 DEF Next, Step

\* Whatever delays are asked for and cancelled, and however many ticks pass,
\* the delta queue is well formed and in order.
THEOREM Invariance == Spec => []IInv
<1>1. Init => IInv
  BY InitInvariant
<1>2. IInv /\ [Next]_vars => IInv'
  BY NextInvariant
<1>3. QED
  BY <1>1, <1>2, PTL DEF Spec

\* The queue's order and its sums (delta_queue_insert, _remove and _deal).
THEOREM QueueIsRight == Spec => []QueueInvariant
<1>1. IInv => QueueInvariant
  BY DEF IInv
<1>2. QED
  BY <1>1, Invariance, PTL

\* The decrement at line 218 never wraps around.
THEOREM NoUnderflow == Spec => []HeadPositive
<1>1. IInv => HeadPositive
  BY DEF IInv
<1>2. QED
  BY <1>1, Invariance, PTL

\* Every delta fits the width of flyos_tick_t, remove's addition included.
THEOREM TypeCorrect == Spec => []TypeOK
<1>1. IInv => TypeOK
  BY DEF IInv
<1>2. QED
  BY <1>1, Invariance, PTL

-----------------------------------------------------------------------------

\* What a quiet queue means for the timers: nobody is due.
LEMMA QuietFacts ==
    ASSUME IInv, op = "none"
    PROVE  Abstract!Quiet
<1> SUFFICES ASSUME NEW u \in ArmedTasks PROVE left[u] > 0
  BY DEF Abstract!Quiet
<1>1. PICK i \in 1..Len(dq) : dq[i] = u
  BY ArmedFacts, QueueFacts DEF Linked
<1>2. /\ Len(dq) \in Nat /\ 1 \in 1..Len(dq) /\ dq # <<>>
      /\ left[dq[1]] \in Nat /\ left[u] \in Nat
      /\ delta[dq[1]] > 0
  BY <1>1, QueueFacts, MaxTicksAssumption DEF IInv, TypeOK, HeadPositive
<1>3. left[dq[1]] > 0
  BY <1>2 DEF IInv, QueueInvariant, Chained
<1>4. left[dq[1]] <= left[dq[i]]
  <2>1. CASE i = 1
    BY <1>2, <2>1
  <2>2. CASE i # 1
    <3>1. 1 < i
      BY <1>2, <2>2
    <3>2. QED
      BY <1>1, <1>2, <3>1 DEF IInv, QueueInvariant, Ordered
  <2>3. QED
    BY <2>1, <2>2
<1>5. QED
  BY <1>1, <1>2, <1>3, <1>4

\* One step of the queue of deltas is a step of the timers, or none.
LEMMA StepRefines ==
    IInv /\ [Next]_vars => [Abstract!Next]_(Abstract!vars)
<1> SUFFICES ASSUME IInv, [Next]_vars
             PROVE  Abstract!Next \/ UNCHANGED Abstract!vars
  OBVIOUS
<1>1. ASSUME NEW t \in Task, NEW ticks \in 1..MAX_TICKS, InsertBegin(t, ticks)
      PROVE  Abstract!Next
  <2>1. Abstract!Quiet
    BY <1>1, QuietFacts DEF InsertBegin
  <2>2. ToSet(QueueWithout(t)) = ToSet(dq) \ {t} /\ ArmedTasks = ToSet(dq)
    BY <1>1, Removal, ArmedFacts DEF InsertBegin
  <2>3. ArmedTasks' = ToSet(QueueWithout(t)) \cup {t}
    BY <1>1 DEF InsertBegin, ArmedTasks
  <2>4. ArmedTasks' = ArmedTasks \cup {t}
    BY <2>2, <2>3
  <2>5. left' = [left EXCEPT ![t] = ticks]
    BY <1>1 DEF InsertBegin
  <2>6. older' = [Abstract!Forget(t) EXCEPT ![t] = ArmedTasks \ {t}]
    BY <1>1, <2>2 DEF InsertBegin, OlderWithout, Abstract!Forget
  <2>7. Abstract!Arm(t, ticks)
    BY <2>1, <2>4, <2>5, <2>6 DEF Abstract!Arm
  <2>8. QED
    BY <2>7 DEF Abstract!Next
<1>2. ASSUME NEW t \in Task, Unlink(t)
      PROVE  Abstract!Next
  <2>1. Abstract!Quiet
    BY <1>2, QuietFacts DEF Unlink
  <2>2. ToSet(QueueWithout(t)) = ToSet(dq) \ {t} /\ ArmedTasks = ToSet(dq)
    BY <1>2, Removal, ArmedFacts DEF Unlink
  <2>3. ArmedTasks' = ToSet(QueueWithout(t))
    BY <1>2 DEF Unlink, ArmedTasks
  <2>4. left' = [left EXCEPT ![t] = 0] /\ older' = Abstract!Forget(t)
    BY <1>2 DEF Unlink, OlderWithout, Abstract!Forget
  <2>5. Abstract!Cancel(t)
    BY <2>1, <2>2, <2>3, <2>4 DEF Abstract!Cancel
  <2>6. QED
    BY <2>5 DEF Abstract!Next
<1>3. CASE DealBegin
  <2>1. Abstract!Quiet
    BY <1>3, QuietFacts DEF DealBegin
  <2>2. ArmedTasks' = ArmedTasks /\ \A u : u \in ArmedTasks <=> Linked(u)
    BY <1>3, ArmedFacts, QueueFacts DEF DealBegin, ArmedTasks
  <2>3. /\ left' = [u \in Task |-> IF Linked(u) THEN left[u] - 1 ELSE 0]
        /\ older' = older
    BY <1>3 DEF DealBegin
  <2>4. left' = [u \in Task |-> IF u \in ArmedTasks THEN left[u] - 1 ELSE 0]
    BY <2>2, <2>3
  <2>5. Abstract!Tick
    BY <2>1, <2>2, <2>3, <2>4 DEF Abstract!Tick
  <2>6. QED
    BY <2>5 DEF Abstract!Next
<1>4. CASE InsertPass
  BY <1>4 DEF InsertPass, Abstract!vars, ArmedTasks
<1>5. CASE InsertLink
  <2>1. /\ dq \in Seq(Task) /\ who \in Task /\ pos \in 0..Len(dq) /\ Len(dq) \in Nat
        /\ op = "insert" /\ op' = "none" /\ dq' = InsertAt(dq, pos + 1, who)
        /\ left' = left /\ older' = older
    BY <1>5, QueueFacts DEF InsertLink, IInv, TypeOK
  <2>2. pos + 1 \in 1..(Len(dq) + 1)
    BY <2>1
  <2>3. ToSet(dq') = ToSet(dq) \cup {who}
    BY <2>1, <2>2, InsertAtElements
  <2>4. QED
    BY <2>1, <2>3 DEF Abstract!vars, ArmedTasks
<1>6. CASE DealFire
  <2> DEFINE h == dq[1]
  <2>1. /\ op = "deal" /\ op' = op /\ dq # <<>> /\ dq' = Tail(dq)
        /\ delta[h] = 0 /\ left' = left
        /\ older' = OlderWithout(h)
    BY <1>6 DEF DealFire
  <2>2. /\ dq \in Seq(Task) /\ NoDuplicates(dq)
        /\ 1 \in 1..Len(dq) /\ h \in Task
        /\ \A u : u \in ToSet(dq) <=> Linked(u)
        /\ ArmedTasks = ToSet(dq)
    BY <2>1, QueueFacts, ArmedFacts, ListFacts DEF IInv, TypeOK
  <2>3. ArmedTasks' = ArmedTasks \ {h}
    BY <2>1, <2>2, TailElements DEF ArmedTasks
  <2>4. h \in ArmedTasks /\ left[h] = 0
    BY <2>1, <2>2 DEF IInv, QueueInvariant, Chained, Linked
  <2>5. ASSUME NEW u \in older[h]
        PROVE  left[u] > 0
    <3>1. u \in ToSet(dq) /\ u # h
      BY <2>2 DEF IInv, HistoryInvariant
    <3>2. PICK j \in 1..Len(dq) : dq[j] = u
      BY <2>2, <3>1 DEF Linked
    <3>3. 1 < j
      BY <2>2, <3>1, <3>2, QueueFacts
    <3>4. \/ left[h] < left[u]
          \/ u \notin older[h]
      BY <2>2, <3>2, <3>3 DEF IInv, QueueInvariant, Ordered
    <3>5. QED
      BY <2>4, <2>5, <3>4
  <2>6. older' = Abstract!Forget(h)
    BY <2>1 DEF OlderWithout, Abstract!Forget
  <2> HIDE DEF h
  <2>7. Abstract!Fire(h)
    BY <2>1, <2>3, <2>4, <2>5, <2>6 DEF Abstract!Fire
  <2>8. QED
    BY <2>2, <2>7 DEF Abstract!Next
<1>7. CASE DealEnd
  BY <1>7 DEF DealEnd, Abstract!vars, ArmedTasks
<1>8. CASE UNCHANGED vars
  BY <1>8 DEF vars, Abstract!vars, ArmedTasks
<1>9. QED
  BY <1>1, <1>2, <1>3, <1>4, <1>5, <1>6, <1>7, <1>8 DEF Next, Step

\* The delta queue implements the timers: a task is woken in exactly the tick
\* for which it asked, after every task that asked for that tick earlier, and
\* a task whose time-out was cancelled is not woken (lines 115-239).
THEOREM Refinement == Spec => TimersSpec
<1>1. Init => Abstract!Init
  <2> SUFFICES ASSUME Init PROVE Abstract!Init
    OBVIOUS
  <2>1. dq = <<>> /\ dq \in Seq(Task) /\ op = "none"
    BY DEF Init
  <2>2. ArmedTasks = {}
    BY <2>1, ListFacts DEF ArmedTasks
  <2>3. QED
    BY <2>2 DEF Init, Abstract!Init
<1>2. IInv /\ [Next]_vars => [Abstract!Next]_(Abstract!vars)
  BY StepRefines
<1>3. QED
  BY <1>1, <1>2, Invariance, PTL DEF Spec, TimersSpec, Abstract!Spec
=============================================================================
