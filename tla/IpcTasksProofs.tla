-------------------------- MODULE IpcTasksProofs ----------------------------
(***************************************************************************)
(* What flyos_ipc.c does to the links of tasks, for any number of tasks,   *)
(* priorities and wait queues: the ready rings and the lists of the wait   *)
(* queues stay apart and sound, and the most urgent task is found.  The    *)
(* proofs about the IPC objects rest on this module.                       *)
(*                                                                         *)
(* The order of a list is given by a rank of each task: to link a task at  *)
(* one end is to give it a rank beyond that end, and to unlink one changes *)
(* no rank.                                                                *)
(***************************************************************************)
EXTENDS IpcTasks, Integers, SequenceTheorems, FiniteSetTheorems,
        WellFoundedInduction, TLAPS

-----------------------------------------------------------------------------
(* The delta queue as a sequence                                           *)

\* No element occurs twice in s.
NoDuplicates(s) == \A i, j \in 1..Len(s) : s[i] = s[j] => i = j

\* A stretch of a list keeps the order of its nodes.
LEMMA PartOf ==
    ASSUME NEW S, NEW s \in Seq(S), NEW j \in 1..(Len(s) + 1), NEW k \in 0..Len(s), j <= k + 1
    PROVE  /\ SubSeq(s, j, k) \in Seq(S) /\ Len(SubSeq(s, j, k)) = k - j + 1
           /\ \A i \in 1..(k - j + 1) : SubSeq(s, j, k)[i] = s[j + i - 1]
<1>1. /\ j \in Int /\ k \in Int /\ \A i \in j..k : s[i] \in S
  BY LenProperties, ElementOfSeq
<1>. QED
  BY <1>1, SubSeqProperties

\* Linking a node (delta_queue_insert) shifts the nodes that follow it by one.
LEMMA InsertAtProperties ==
    ASSUME NEW S, NEW s \in Seq(S), NEW k \in 1..(Len(s) + 1), NEW e \in S
    PROVE  /\ InsertAt(s, k, e) \in Seq(S)
           /\ Len(InsertAt(s, k, e)) = Len(s) + 1
           /\ \A i \in 1..(Len(s) + 1) :
                 InsertAt(s, k, e)[i] = IF i < k THEN s[i]
                                        ELSE IF i = k THEN e ELSE s[i - 1]
<1> DEFINE a == SubSeq(s, 1, k - 1)
           b == SubSeq(s, k, Len(s))
<1>1. Len(s) \in Nat
  OBVIOUS
<1>2. /\ a \in Seq(S) /\ Len(a) = k - 1 /\ \A i \in 1..(k - 1) : a[i] = s[i]
      /\ b \in Seq(S) /\ Len(b) = Len(s) - k + 1
      /\ \A i \in 1..(Len(s) - k + 1) : b[i] = s[k + i - 1]
  BY <1>1, PartOf
<1> DEFINE ae == a \o <<e>>
<1>3. InsertAt(s, k, e) = ae \o b
  BY DEF InsertAt
<1> HIDE DEF a, b
<1>4. /\ ae \in Seq(S) /\ Len(ae) = k
      /\ \A i \in 1..k : ae[i] = IF i < k THEN a[i] ELSE e
  BY <1>1, <1>2
<1> HIDE DEF ae
<1>5. /\ ae \o b \in Seq(S) /\ Len(ae \o b) = Len(s) + 1
      /\ \A i \in 1..(Len(s) + 1) : (ae \o b)[i] = IF i <= k THEN ae[i] ELSE b[i - k]
  <2>1. Len(ae) + Len(b) = Len(s) + 1
    BY <1>1, <1>2, <1>4
  <2>2. /\ ae \o b \in Seq(S) /\ Len(ae \o b) = Len(ae) + Len(b)
        /\ \A i \in 1..(Len(ae) + Len(b)) :
              (ae \o b)[i] = IF i <= Len(ae) THEN ae[i] ELSE b[i - Len(ae)]
    BY <1>2, <1>4, ConcatProperties
  <2>. QED
    BY <1>4, <2>1, <2>2
<1>6. \A i \in (k + 1)..(Len(s) + 1) : b[i - k] = s[k + (i - k) - 1] /\ k + (i - k) - 1 = i - 1
  BY <1>1, <1>2
<1>7. \A i \in 1..(Len(s) + 1) :
         (ae \o b)[i] = IF i < k THEN s[i] ELSE IF i = k THEN e ELSE s[i - 1]
  BY <1>1, <1>2, <1>4, <1>5, <1>6
<1>. QED
  BY <1>3, <1>5, <1>7

\* Unlinking a node (delta_queue_remove) shifts back those that follow it.
LEMMA RemoveAtProperties ==
    ASSUME NEW S, NEW s \in Seq(S), NEW k \in 1..Len(s)
    PROVE  /\ RemoveAt(s, k) \in Seq(S)
           /\ Len(RemoveAt(s, k)) = Len(s) - 1
           /\ \A i \in 1..(Len(s) - 1) :
                 RemoveAt(s, k)[i] = IF i < k THEN s[i] ELSE s[i + 1]
<1> DEFINE a == SubSeq(s, 1, k - 1)
           b == SubSeq(s, k + 1, Len(s))
<1>1. Len(s) \in Nat
  OBVIOUS
<1>2. /\ a \in Seq(S) /\ Len(a) = k - 1 /\ \A i \in 1..(k - 1) : a[i] = s[i]
      /\ b \in Seq(S) /\ Len(b) = Len(s) - k
      /\ \A i \in 1..(Len(s) - k) : b[i] = s[k + i]
  BY <1>1, PartOf
<1>3. RemoveAt(s, k) = a \o b
  BY DEF RemoveAt
<1> HIDE DEF a, b
<1>4. /\ a \o b \in Seq(S) /\ Len(a \o b) = Len(s) - 1
      /\ \A i \in 1..(Len(s) - 1) : (a \o b)[i] = IF i < k THEN a[i] ELSE b[i - (k - 1)]
  <2>1. Len(a) + Len(b) = Len(s) - 1
    BY <1>1, <1>2
  <2>2. /\ a \o b \in Seq(S) /\ Len(a \o b) = Len(a) + Len(b)
        /\ \A i \in 1..(Len(a) + Len(b)) :
              (a \o b)[i] = IF i <= Len(a) THEN a[i] ELSE b[i - Len(a)]
    BY <1>2, ConcatProperties
  <2>. QED
    BY <1>1, <1>2, <2>1, <2>2
<1>5. \A i \in k..(Len(s) - 1) : b[i - (k - 1)] = s[k + (i - (k - 1))] /\ k + (i - (k - 1)) = i + 1
  BY <1>1, <1>2
<1>6. \A i \in 1..(Len(s) - 1) : (a \o b)[i] = IF i < k THEN s[i] ELSE s[i + 1]
  BY <1>1, <1>2, <1>4, <1>5
<1>. QED
  BY <1>3, <1>4, <1>6

\* The elements of a sequence are what stands at its places.
LEMMA ToSetMembers ==
    ASSUME NEW S, NEW s \in Seq(S)
    PROVE  /\ ToSet(s) \subseteq S
           /\ \A x : x \in ToSet(s) <=> \E i \in 1..Len(s) : s[i] = x
BY DEF ToSet

\* The facts about a list that most steps start from.
LEMMA ListFacts ==
    ASSUME NEW S, NEW s \in Seq(S)
    PROVE  /\ Len(s) \in Nat
           /\ \A i \in 1..Len(s) : s[i] \in S
           /\ \A x : x \in ToSet(s) <=> \E i \in 1..Len(s) : s[i] = x
           /\ s # <<>> <=> 1 \in 1..Len(s)
           /\ s = <<>> <=> Len(s) = 0
           /\ s = <<>> => ToSet(s) = {}
BY EmptySeq DEF ToSet

\* Linking a node adds it, and keeps the list free of duplicates.
LEMMA InsertAtElements ==
    ASSUME NEW S, NEW s \in Seq(S), NEW k \in 1..(Len(s) + 1), NEW e \in S
    PROVE  /\ ToSet(InsertAt(s, k, e)) = ToSet(s) \cup {e}
           /\ NoDuplicates(s) /\ e \notin ToSet(s)
                 => NoDuplicates(InsertAt(s, k, e))
<1> DEFINE t == InsertAt(s, k, e)
           New(i) == IF i < k THEN i ELSE i + 1
           Old(i) == IF i < k THEN i ELSE i - 1
<1>1. /\ t \in Seq(S) /\ Len(t) = Len(s) + 1 /\ Len(s) \in Nat
      /\ \A i \in 1..(Len(s) + 1) :
            t[i] = IF i < k THEN s[i] ELSE IF i = k THEN e ELSE s[i - 1]
  BY InsertAtProperties, LenProperties
<1>2. /\ \A x : x \in ToSet(s) <=> \E i \in 1..Len(s) : s[i] = x
      /\ \A x : x \in ToSet(t) <=> \E i \in 1..Len(t) : t[i] = x
  BY <1>1, ListFacts
<1> HIDE DEF t
<1>3. /\ k \in 1..Len(t) /\ t[k] = e
      /\ \A i \in 1..Len(t) : i # k => Old(i) \in 1..Len(s) /\ t[i] = s[Old(i)]
      /\ \A i \in 1..Len(s) : New(i) \in 1..Len(t) /\ t[New(i)] = s[i]
      /\ \A i, j \in 1..Len(t) : i # k /\ j # k /\ Old(i) = Old(j) => i = j
  BY <1>1
<1> HIDE DEF New, Old
<1>4. ToSet(t) = ToSet(s) \cup {e}
  BY <1>2, <1>3
<1>5. ASSUME NoDuplicates(s), e \notin ToSet(s)
      PROVE  NoDuplicates(t)
  <2>1. \A i \in 1..Len(t) : i # k => t[i] # e
    BY <1>2, <1>3, <1>5
  <2>2. \A i, j \in 1..Len(t) : i # k /\ j # k /\ t[i] = t[j] => i = j
    BY <1>3, <1>5 DEF NoDuplicates
  <2>. QED
    BY <1>3, <2>1, <2>2 DEF NoDuplicates
<1>. QED
  BY <1>4, <1>5 DEF t

\* Unlinking a node of a list without duplicates takes that node away.
LEMMA RemoveAtElements ==
    ASSUME NEW S, NEW s \in Seq(S), NEW k \in 1..Len(s), NoDuplicates(s)
    PROVE  /\ ToSet(RemoveAt(s, k)) = ToSet(s) \ {s[k]}
           /\ NoDuplicates(RemoveAt(s, k))
<1> DEFINE t == RemoveAt(s, k)
           New(i) == IF i < k THEN i ELSE i - 1
           Old(i) == IF i < k THEN i ELSE i + 1
<1>1. /\ t \in Seq(S) /\ Len(t) = Len(s) - 1 /\ Len(s) \in Nat
      /\ \A i \in 1..(Len(s) - 1) : t[i] = IF i < k THEN s[i] ELSE s[i + 1]
  BY RemoveAtProperties
<1>2. /\ \A x : x \in ToSet(s) <=> \E i \in 1..Len(s) : s[i] = x
      /\ \A x : x \in ToSet(t) <=> \E i \in 1..Len(t) : t[i] = x
  BY <1>1, ListFacts
<1> HIDE DEF t
<1>3. /\ \A i \in 1..Len(t) : Old(i) \in 1..Len(s) \ {k} /\ t[i] = s[Old(i)]
      /\ \A i \in 1..Len(s) \ {k} : New(i) \in 1..Len(t) /\ t[New(i)] = s[i]
      /\ \A i, j \in 1..Len(t) : Old(i) = Old(j) => i = j
  BY <1>1
<1> HIDE DEF New, Old
<1>4. \A i \in 1..Len(s) : s[i] # s[k] <=> i # k
  BY DEF NoDuplicates
<1>5. ToSet(t) = ToSet(s) \ {s[k]}
  BY <1>2, <1>3, <1>4
<1>6. NoDuplicates(t)
  BY <1>3 DEF NoDuplicates
<1>. QED
  BY <1>5, <1>6 DEF t

\* A set of naturals has a smallest element.
LEMMA Smallest ==
    ASSUME NEW T, T \subseteq Nat, T # {}
    PROVE  \E x \in T : \A y \in T : x <= y
<1>1. PICK x \in T : \A y \in T : <<y, x>> \notin OpToRel(<, Nat)
  BY WFMin, NatLessThanWellFounded, Zenon
<1>2. \A y \in T : ~(y < x)
  BY <1>1, Zenon DEF OpToRel
<1>3. QED
  BY <1>2

-----------------------------------------------------------------------------
(* Rings and lists                                                         *)

\* The tasks in R are linked by next and prev into a ring for each priority p,
\* in the order of their ranks, from ready[p] on.
Rings(next, prev, ready, R, P, rank) ==
    /\ \A t, u \in R : P[t] = P[u] /\ rank[t] = rank[u] => t = u
    /\ \A t \in R :
        /\ next[t] \in R /\ P[next[t]] = P[t] /\ prev[next[t]] = t
        /\ prev[t] \in R /\ P[prev[t]] = P[t] /\ next[prev[t]] = t
        /\ \A u \in R : P[u] = P[t] =>
              IF next[t] = ready[P[t]] THEN rank[u] <= rank[t]
              ELSE /\ rank[t] < rank[next[t]]
                   /\ rank[u] <= rank[t] \/ rank[next[t]] <= rank[u]
    /\ \A p \in Prio :
        /\ ready[p] # NULL => ready[p] \in R /\ P[ready[p]] = p
        /\ \A u \in R : P[u] = p => ready[p] # NULL /\ rank[ready[p]] <= rank[u]

\* The tasks that wait in q with priority p, W[t] = q and P[t] = p, are linked
\* into a list in the order of their ranks, from wait[q][p] on.
Lines(next, prev, wait, W, P, rank) ==
    /\ \A t, u \in Thread :
          W[t] # NULL /\ W[t] = W[u] /\ P[t] = P[u] /\ rank[t] = rank[u] => t = u
    /\ \A t \in Thread : W[t] # NULL =>
        /\ next[t] # NULL => /\ W[next[t]] = W[t] /\ P[next[t]] = P[t]
                             /\ prev[next[t]] = t /\ rank[t] < rank[next[t]]
        /\ prev[t] # NULL => /\ W[prev[t]] = W[t] /\ P[prev[t]] = P[t]
                             /\ next[prev[t]] = t
        /\ prev[t] = NULL <=> wait[W[t]][P[t]] = t
        /\ \A u \in Thread : W[u] = W[t] /\ P[u] = P[t] =>
              IF next[t] = NULL THEN rank[u] <= rank[t]
              ELSE rank[u] <= rank[t] \/ rank[next[t]] <= rank[u]
    /\ \A q \in Queue, p \in Prio :
        /\ wait[q][p] # NULL => W[wait[q][p]] = q /\ P[wait[q][p]] = p
        /\ \A u \in Thread : W[u] = q /\ P[u] = p =>
              wait[q][p] # NULL /\ rank[wait[q][p]] <= rank[u]

\* In the lists m the tasks of R are in the ready rings, every task t with
\* W[t] # NULL waits in W[t], and the others are in no list.
Placed(m, R, W, P, rank) ==
    /\ m \in Lists
    /\ R \subseteq Thread
    /\ W \in [Thread -> Queue \cup {NULL}]
    /\ P \in [Thread -> Prio]
    /\ rank \in [Thread -> Int]
    /\ \A t \in R : W[t] = NULL
    /\ \A t \in Thread \ R : W[t] = NULL => m.next[t] = NULL /\ m.prev[t] = NULL
    /\ Rings(m.next, m.prev, m.ready, R, P, rank)
    /\ Lines(m.next, m.prev, m.wait, W, P, rank)
    /\ \A p \in Prio : p \in m.bits <=> m.ready[p] # NULL
    /\ \A q \in Queue, p \in Prio : p \in m.waitBits[q] <=> m.wait[q][p] # NULL

Linked(m, R, W, P) == \E rank : Placed(m, R, W, P, rank)

Waiting(W) == {t \in Thread : W[t] # NULL}

\* For the tasks in S, the links n and v are next and prev, or differ from them
\* in that t is linked between a and b, or in that t is unlinked.
Keeps(S, n, v, Q, k, next, prev, P, rank) ==
    \A u \in S : n[u] = next[u] /\ v[u] = prev[u] /\ Q[u] = P[u] /\ k[u] = rank[u]

Adds(S, t, a, b, n, v, next, prev) ==
    \A u \in S : /\ n[u] = IF u = a THEN t ELSE IF u = t THEN b ELSE next[u]
                 /\ v[u] = IF u = b THEN t ELSE IF u = t THEN a ELSE prev[u]

Drops(S, t, n, v, next, prev) ==
    \A u \in S : /\ n[u] = IF u = prev[t] THEN next[t] ELSE next[u]
                 /\ v[u] = IF u = next[t] THEN prev[t] ELSE prev[u]

\* t becomes the head of the list of its priority in q, or is no longer in it.
Enqueues(V, k, f, W, rank, wait, P, t, q) ==
    LET h == wait[q][P[t]]
    IN  /\ V = [W EXCEPT ![t] = q]
        /\ k = [rank EXCEPT ![t] = IF h = NULL THEN 0 ELSE rank[h] - 1]
        /\ \A x \in Queue, p \in Prio :
              f[x][p] = IF x = q /\ p = P[t] THEN t ELSE wait[x][p]

Dequeues(V, f, W, wait, P, t, next, prev) ==
    /\ V = [W EXCEPT ![t] = NULL]
    /\ \A x \in Queue, p \in Prio :
          f[x][p] = IF x = W[t] /\ p = P[t] /\ prev[t] = NULL THEN next[t] ELSE wait[x][p]

\* A task that has neighbours leaves its ring.
LEMMA RingWithout ==
    ASSUME NEW R, R \subseteq Thread, NEW P \in [Thread -> Prio],
           NEW rank \in [Thread -> Int],
           NEW next \in [Thread -> Link], NEW prev \in [Thread -> Link],
           NEW ready \in [Prio -> Link],
           Rings(next, prev, ready, R, P, rank),
           NEW t \in R, next[t] # t,
           NEW n, NEW v, NEW r,
           Drops(R \ {t}, t, n, v, next, prev),
           \A p \in Prio : r[p] = IF p = P[t] /\ ready[p] = t THEN next[t] ELSE ready[p]
    PROVE  Rings(n, v, r, R \ {t}, P, rank)
<1>. USE DEF Drops
<1>1. next[t] \in R \ {t} /\ prev[t] \in R \ {t}
  BY DEF Rings
<1>2. ASSUME NEW u \in R \ {t}
      PROVE  /\ n[u] \in R \ {t} /\ P[n[u]] = P[u] /\ v[n[u]] = u
             /\ v[u] \in R \ {t} /\ P[v[u]] = P[u] /\ n[v[u]] = u
  BY <1>1, <1>2 DEF Rings
<1>3. ASSUME NEW u \in R \ {t}, NEW w \in R \ {t}, P[w] = P[u]
      PROVE  IF n[u] = r[P[u]] THEN rank[w] <= rank[u]
             ELSE /\ rank[u] < rank[n[u]]
                  /\ rank[w] <= rank[u] \/ rank[n[u]] <= rank[w]
  <2>0. P[u] \in Prio /\ P[t] \in Prio /\ NULL \notin R
    BY IpcAssumption
  <2>1. CASE u = prev[t]
    <3> DEFINE h == ready[P[t]]
    <3>1. /\ n[u] = next[t] /\ next[u] = t /\ P[u] = P[t] /\ t # u
          /\ r[P[t]] = IF h = t THEN next[t] ELSE h
      BY <1>1, <2>0, <2>1 DEF Rings
    <3>2. IF t = h THEN rank[w] <= rank[u]
          ELSE rank[u] < rank[t] /\ (rank[w] <= rank[u] \/ rank[t] <= rank[w])
      BY <1>3, <3>1 DEF Rings
    <3>3. IF next[t] = h THEN rank[w] <= rank[t]
          ELSE rank[t] < rank[next[t]] /\ (rank[w] <= rank[t] \/ rank[next[t]] <= rank[w])
      BY <1>3, <3>1 DEF Rings
    <3>4. rank[w] # rank[t]
      BY <1>3, <3>1 DEF Rings
    <3>5. /\ rank[w] \in Int /\ rank[u] \in Int
          /\ rank[t] \in Int /\ rank[next[t]] \in Int
      BY <1>1
    <3> HIDE DEF h
    <3>. QED
      BY <3>1, <3>2, <3>3, <3>4, <3>5
  <2>2. CASE u # prev[t]
    BY <1>1, <1>3, <2>0, <2>2 DEF Rings
  <2>. QED
    BY <2>1, <2>2
<1>4. ASSUME NEW p \in Prio
      PROVE  /\ r[p] # NULL => r[p] \in R \ {t} /\ P[r[p]] = p
             /\ \A u \in R \ {t} : P[u] = p => r[p] # NULL /\ rank[r[p]] <= rank[u]
  BY <1>1, IpcAssumption DEF Rings
<1>. QED
  BY <1>2, <1>3, <1>4 DEF Rings

\* A task that is in no ring becomes the last of the ring of its priority.
LEMMA RingWith ==
    ASSUME NEW R, R \subseteq Thread, NEW P \in [Thread -> Prio],
           NEW rank \in [Thread -> Int],
           NEW next \in [Thread -> Link], NEW prev \in [Thread -> Link],
           NEW ready \in [Prio -> Link],
           Rings(next, prev, ready, R, P, rank),
           NEW t \in Thread \ R,
           NEW h, h = ready[P[t]], h # NULL,
           NEW n, NEW v, NEW k,
           Adds(R \cup {t}, t, prev[h], h, n, v, next, prev),
           k = [rank EXCEPT ![t] = rank[prev[h]] + 1]
    PROVE  Rings(n, v, ready, R \cup {t}, P, k)
<1>. USE DEF Adds
<1>1. /\ P[t] \in Prio /\ h \in R /\ P[h] = P[t]
      /\ prev[h] \in R /\ P[prev[h]] = P[t] /\ next[prev[h]] = h
  BY DEF Rings
<1>2. /\ k \in [Thread -> Int]
      /\ \A u \in R : k[u] = rank[u]
      /\ k[t] = rank[prev[h]] + 1
  BY <1>1
<1>3. ASSUME NEW u \in R, P[u] = P[t]
      PROVE  k[u] < k[t] /\ k[h] <= k[u]
  <2>1. rank[u] <= rank[prev[h]] /\ rank[h] <= rank[u]
    BY <1>1, <1>3 DEF Rings
  <2>2. rank[u] \in Int /\ rank[prev[h]] \in Int
    BY <1>1
  <2>. QED
    BY <1>1, <1>2, <2>1, <2>2
<1>4. ASSUME NEW u \in R \cup {t}, NEW w \in R \cup {t}, P[u] = P[w], k[u] = k[w]
      PROVE  u = w
  <2>1. \A x \in R : k[x] \in Int
    BY <1>2
  <2>2. k[t] \in Int
    BY <1>2
  <2>3. CASE u \in R /\ w \in R
    BY <1>2, <1>4, <2>3 DEF Rings
  <2>. QED
    BY <1>3, <1>4, <2>1, <2>2, <2>3
<1>5. ASSUME NEW u \in R \cup {t}
      PROVE  /\ n[u] \in R \cup {t} /\ P[n[u]] = P[u] /\ v[n[u]] = u
             /\ v[u] \in R \cup {t} /\ P[v[u]] = P[u] /\ n[v[u]] = u
  <2>1. CASE u = t
    BY <1>1, <2>1 DEF Rings
  <2>2. CASE u \in R
    BY <1>1, <2>2 DEF Rings
  <2>. QED
    BY <2>1, <2>2
<1>6. ASSUME NEW u \in R \cup {t}, NEW w \in R \cup {t}, P[w] = P[u]
      PROVE  IF n[u] = ready[P[u]] THEN k[w] <= k[u]
             ELSE /\ k[u] < k[n[u]]
                  /\ k[w] <= k[u] \/ k[n[u]] <= k[w]
  <2>0. \A x \in R \cup {t} : k[x] \in Int
    BY <1>2
  <2>1. CASE u = t
    <3>1. n[u] = ready[P[u]]
      BY <1>1, <2>1
    <3>2. k[w] <= k[u]
      BY <1>3, <1>6, <2>0, <2>1
    <3>. QED
      BY <3>1, <3>2
  <2>2. CASE u = prev[h]
    <3>1. n[u] = t /\ n[u] # ready[P[u]] /\ u \in R /\ P[u] = P[t]
      BY <1>1, <2>2
    <3>2. k[u] < k[t]
      BY <1>3, <3>1
    <3>3. k[w] <= k[u] \/ k[t] <= k[w]
      <4>1. CASE w = t
        BY <2>0, <4>1
      <4>2. CASE w \in R
        <5>1. rank[w] <= rank[u]
          BY <1>1, <1>6, <2>2, <4>2 DEF Rings
        <5>. QED
          BY <1>2, <3>1, <4>2, <5>1
      <4>. QED
        BY <4>1, <4>2
    <3>. QED
      BY <3>1, <3>2, <3>3
  <2>3. CASE u \in R /\ u # prev[h]
    <3>1. n[u] = next[u] /\ next[u] \in R
      BY <2>3 DEF Rings
    <3>2. P[u] = P[t] => n[u] # h
      BY <1>1, <2>3, <3>1 DEF Rings
    <3>3. CASE w \in R
      BY <1>2, <1>6, <2>3, <3>1, <3>3 DEF Rings
    <3>4. CASE w = t
      <4>1. P[u] = P[t] /\ ready[P[u]] = h /\ n[u] # h
        BY <1>1, <1>6, <3>2, <3>4
      <4>2. rank[u] < rank[next[u]]
        BY <2>3, <3>1, <4>1 DEF Rings
      <4>3. k[next[u]] < k[t]
        BY <1>3, <2>3, <3>1, <4>1 DEF Rings
      <4>. QED
        BY <1>2, <2>0, <2>3, <3>1, <3>4, <4>1, <4>2, <4>3
    <3>. QED
      BY <3>3, <3>4
  <2>. QED
    BY <2>1, <2>2, <2>3
<1>7. ASSUME NEW p \in Prio
      PROVE  /\ ready[p] # NULL => ready[p] \in R \cup {t} /\ P[ready[p]] = p
             /\ \A u \in R \cup {t} : P[u] = p =>
                   ready[p] # NULL /\ k[ready[p]] <= k[u]
  <2>1. ready[p] # NULL => ready[p] \in R /\ P[ready[p]] = p
    BY DEF Rings
  <2>2. ASSUME NEW u \in R, P[u] = p
        PROVE  ready[p] # NULL /\ k[ready[p]] <= k[u]
    BY <1>2, <2>1, <2>2 DEF Rings
  <2>3. P[t] = p => ready[p] # NULL /\ k[ready[p]] <= k[t]
    <3>1. k[h] < k[t] /\ k[h] \in Int /\ k[t] \in Int
      BY <1>1, <1>2, <1>3
    <3>. QED
      BY <3>1
  <2>. QED
    BY <2>1, <2>2, <2>3
<1>. QED
  BY <1>4, <1>5, <1>6, <1>7 DEF Rings

\* A task becomes the only one of its ring.
LEMMA RingOfOne ==
    ASSUME NEW R, R \subseteq Thread, NEW P \in [Thread -> Prio],
           NEW rank \in [Thread -> Int], NEW next, NEW prev, NEW ready,
           Rings(next, prev, ready, R, P, rank),
           NEW t \in Thread \ R, ready[P[t]] = NULL,
           NEW n, NEW v, NEW r,
           \A u \in R : n[u] = next[u] /\ v[u] = prev[u],
           n[t] = t, v[t] = t,
           \A p \in Prio : r[p] = IF p = P[t] THEN t ELSE ready[p]
    PROVE  Rings(n, v, r, R \cup {t}, P, rank)
<1>1. P[t] \in Prio /\ \A u \in R : P[u] # P[t] /\ P[u] \in Prio
  BY DEF Rings
<1>2. \A u \in R : next[u] \in R /\ prev[u] \in R
  BY DEF Rings
<1>3. ASSUME NEW u \in R \cup {t}, NEW w \in R \cup {t}, P[w] = P[u]
      PROVE  /\ n[u] \in R \cup {t} /\ P[n[u]] = P[u] /\ v[n[u]] = u
             /\ v[u] \in R \cup {t} /\ P[v[u]] = P[u] /\ n[v[u]] = u
             /\ rank[w] = rank[u] => w = u
             /\ IF n[u] = r[P[u]] THEN rank[w] <= rank[u]
                ELSE /\ rank[u] < rank[n[u]]
                     /\ rank[w] <= rank[u] \/ rank[n[u]] <= rank[w]
  <2>1. CASE u = t
    <3>1. w = t
      BY <1>1, <1>3, <2>1
    <3>. QED
      BY <1>1, <2>1, <3>1
  <2>2. CASE u \in R
    <3>1. w \in R /\ r[P[u]] = ready[P[u]] /\ P[u] # P[t]
      BY <1>1, <1>3, <2>2
    <3>. QED
      BY <1>2, <1>3, <2>2, <3>1 DEF Rings
  <2>. QED
    BY <2>1, <2>2
<1>4. ASSUME NEW p \in Prio
      PROVE  /\ r[p] # NULL => r[p] \in R \cup {t} /\ P[r[p]] = p
             /\ \A u \in R \cup {t} : P[u] = p => r[p] # NULL /\ rank[r[p]] <= rank[u]
  <2>1. CASE p = P[t]
    BY <1>1, <2>1, IpcAssumption
  <2>2. CASE p # P[t]
    BY <1>1, <2>2 DEF Rings
  <2>. QED
    BY <2>1, <2>2
<1>. QED
  BY <1>3, <1>4 DEF Rings

\* The head of a ring moves on to the task behind c: those before it, and c,
\* follow the last.
LEMMA RingTurned ==
    ASSUME NEW R, R \subseteq Thread, NEW P \in [Thread -> Prio],
           NEW rank \in [Thread -> Int],
           NEW next \in [Thread -> Link], NEW prev \in [Thread -> Link],
           NEW ready \in [Prio -> Link],
           Rings(next, prev, ready, R, P, rank),
           NEW c \in R,
           NEW r, r = [ready EXCEPT ![P[c]] = next[c]]
    PROVE  \E k \in [Thread -> Int] : Rings(next, prev, r, R, P, k)
<1> DEFINE p == P[c]
           h == ready[p]
           b == next[c]
           last == prev[h]
           D == rank[last] - rank[h] + 1
           Low(u) == rank[u] <= rank[c]
           k == [u \in Thread |-> IF P[u] = p /\ Low(u) THEN rank[u] + D ELSE rank[u]]
<1>0. CASE b = h
  <2>1. r = ready
    BY <1>0
  <2>. QED
    BY <2>1
<1>1. CASE b # h
  <2>1. /\ p \in Prio /\ b \in R /\ P[b] = p /\ h \in R /\ P[h] = p
        /\ last \in R /\ P[last] = p /\ next[last] = h
        /\ rank[c] < rank[b]
    BY <1>1 DEF Rings
  <2>2. ASSUME NEW x \in R, P[x] = p
        PROVE  /\ rank[x] \in Int /\ rank[c] \in Int /\ rank[b] \in Int
               /\ rank[h] \in Int /\ rank[last] \in Int
               /\ rank[h] <= rank[x] /\ rank[x] <= rank[last]
               /\ Low(x) \/ rank[b] <= rank[x]
    BY <1>1, <2>1, <2>2 DEF Rings
  <2>3. /\ D \in Int
        /\ k \in [Thread -> Int]
        /\ \A x \in R : P[x] = p /\ Low(x) => k[x] = rank[x] + D
        /\ \A x \in R : ~(P[x] = p /\ Low(x)) => k[x] = rank[x]
        /\ \A q \in Prio : r[q] = IF q = p THEN b ELSE ready[q]
    BY <2>1, <2>2
  <2>4. ASSUME NEW x \in R, NEW y \in R, P[x] = p, P[y] = p
        PROVE  /\ Low(x) /\ ~Low(y) => k[y] < k[x]
               /\ (Low(x) <=> Low(y)) => /\ k[x] <= k[y] <=> rank[x] <= rank[y]
                                         /\ k[x] < k[y] <=> rank[x] < rank[y]
               /\ rank[x] \in Int /\ k[x] \in Int
    <3>1. /\ rank[x] \in Int /\ rank[h] \in Int /\ rank[last] \in Int
          /\ rank[y] \in Int /\ rank[h] <= rank[x] /\ rank[y] <= rank[last]
      BY <2>2, <2>4
    <3>2. CASE Low(x) /\ ~Low(y)
      BY <2>3, <2>4, <3>1, <3>2
    <3>3. CASE Low(x) /\ Low(y)
      <4>1. k[x] = rank[x] + D /\ k[y] = rank[y] + D
        BY <2>3, <2>4, <3>3
      <4>. HIDE DEF k, D
      <4>. QED
        BY <2>3, <3>1, <3>3, <4>1
    <3>4. CASE ~Low(x) /\ ~Low(y)
      BY <2>3, <2>4, <3>1, <3>4
    <3>5. CASE ~Low(x) /\ Low(y)
      BY <2>3, <2>4, <3>1, <3>5
    <3>. QED
      BY <3>2, <3>3, <3>4, <3>5
  <2>5. Low(c) /\ Low(h) /\ ~Low(b) /\ (last # c => ~Low(last))
    <3>1. /\ rank[c] \in Int /\ rank[b] \in Int
          /\ rank[h] \in Int /\ rank[last] \in Int
          /\ rank[h] <= rank[c] /\ rank[c] <= rank[last]
      BY <2>2
    <3>2. last # c => rank[last] # rank[c]
      BY <2>1 DEF Rings
    <3>. QED
      BY <2>1, <3>1, <3>2
  <2> HIDE DEF k, D
  <2>6. ASSUME NEW u \in R, NEW w \in R, P[u] = P[w], k[u] = k[w]
        PROVE  u = w
    <3>1. CASE P[u] # p
      BY <2>3, <2>6, <3>1 DEF Rings
    <3>2. CASE P[u] = p
      <4>0. /\ P[w] = p /\ k[u] \in Int /\ k[w] \in Int
            /\ rank[u] \in Int /\ rank[w] \in Int
        BY <2>4, <2>6, <3>2
      <4>1. rank[u] = rank[w]
        <5>1. CASE Low(u) <=> Low(w)
          <6>1. rank[u] <= rank[w] /\ rank[w] <= rank[u]
            BY <2>4, <2>6, <3>2, <4>0, <5>1
          <6>. QED
            BY <4>0, <6>1
        <5>2. CASE ~(Low(u) <=> Low(w))
          <6>1. k[u] < k[w] \/ k[w] < k[u]
            BY <2>4, <3>2, <4>0, <5>2
          <6>. QED
            BY <2>6, <4>0, <6>1
        <5>. QED
          BY <5>1, <5>2
      <4>. QED
        BY <2>6, <4>1 DEF Rings
    <3>. QED
      BY <3>1, <3>2
  <2>7. ASSUME NEW u \in R, NEW w \in R, P[w] = P[u]
        PROVE  IF next[u] = r[P[u]] THEN k[w] <= k[u]
               ELSE /\ k[u] < k[next[u]]
                    /\ k[w] <= k[u] \/ k[next[u]] <= k[w]
    <3>1. CASE P[u] # p
      <4>1. /\ next[u] \in R /\ P[next[u]] # p /\ P[u] \in Prio
            /\ r[P[u]] = ready[P[u]]
        BY <2>3, <2>7, <3>1 DEF Rings
      <4>. QED
        BY <2>3, <2>7, <3>1, <4>1 DEF Rings
    <3>2. CASE u = c
      <4>1. next[u] = r[P[u]]
        BY <2>1, <2>3, <3>2
      <4>2. k[w] <= k[c]
        BY <2>4, <2>5, <2>7, <3>2
      <4>. QED
        BY <3>2, <4>1, <4>2
    <3>3. CASE u # c /\ P[u] = p /\ next[u] = h
      <4>1. u = last /\ ~Low(u) /\ r[P[u]] = b
        BY <2>1, <2>3, <2>5, <3>3 DEF Rings
      <4>2. k[u] < k[h]
        BY <2>1, <2>4, <2>5, <3>3, <4>1
      <4>3. k[w] <= k[u] \/ k[h] <= k[w]
        <5>1. rank[w] <= rank[u] /\ rank[h] <= rank[w]
          BY <2>2, <2>7, <3>3, <4>1
        <5>. QED
          BY <2>1, <2>4, <2>5, <2>7, <3>3, <4>1, <5>1
      <4>. QED
        BY <1>1, <3>3, <4>1, <4>2, <4>3
    <3>4. CASE u # c /\ P[u] = p /\ next[u] # h
      <4>1. /\ next[u] \in R /\ P[next[u]] = p /\ next[u] # b /\ r[P[u]] = b
        BY <2>1, <2>3, <3>4 DEF Rings
      <4>2. /\ rank[u] < rank[next[u]]
            /\ rank[w] <= rank[u] \/ rank[next[u]] <= rank[w]
            /\ rank[c] <= rank[u] \/ rank[next[u]] <= rank[c]
            /\ rank[c] # rank[u]
        BY <2>7, <3>4 DEF Rings
      <4>3. /\ rank[u] \in Int /\ rank[c] \in Int /\ rank[w] \in Int
            /\ rank[next[u]] \in Int
        BY <4>1
      <4>4. Low(u) <=> Low(next[u])
        BY <4>2, <4>3
      <4>5. k[u] < k[next[u]]
        BY <2>4, <3>4, <4>1, <4>2, <4>4
      <4>6. k[w] <= k[u] \/ k[next[u]] <= k[w]
        <5>1. P[w] = p
          BY <2>7, <3>4
        <5>2. CASE Low(w) <=> Low(u)
          BY <2>4, <3>4, <4>1, <4>2, <4>4, <5>1, <5>2
        <5>3. CASE Low(w) /\ ~Low(u)
          <6>1. k[next[u]] < k[w] /\ k[next[u]] \in Int /\ k[w] \in Int
            BY <2>4, <4>1, <4>4, <5>1, <5>3
          <6>. QED
            BY <6>1
        <5>4. CASE ~Low(w) /\ Low(u)
          <6>1. k[w] < k[u] /\ k[u] \in Int /\ k[w] \in Int
            BY <2>4, <3>4, <5>1, <5>4
          <6>. QED
            BY <6>1
        <5>. QED
          BY <5>2, <5>3, <5>4
      <4>. QED
        BY <4>1, <4>5, <4>6
    <3>. QED
      BY <3>1, <3>2, <3>3, <3>4
  <2>8. ASSUME NEW q \in Prio
        PROVE  /\ r[q] # NULL => r[q] \in R /\ P[r[q]] = q
               /\ \A u \in R : P[u] = q => r[q] # NULL /\ k[r[q]] <= k[u]
    <3>1. CASE q = p
      <4>1. r[q] = b /\ b # NULL
        BY <2>1, <2>3, <3>1, IpcAssumption
      <4>2. ASSUME NEW u \in R, P[u] = q
            PROVE  k[b] <= k[u]
        <5>1. CASE Low(u)
          <6>1. k[b] < k[u] /\ k[b] \in Int /\ k[u] \in Int
            BY <2>1, <2>4, <2>5, <3>1, <4>2, <5>1
          <6>. QED
            BY <6>1
        <5>2. CASE ~Low(u)
          BY <2>1, <2>2, <2>4, <2>5, <3>1, <4>2, <5>2
        <5>. QED
          BY <5>1, <5>2
      <4>. QED
        BY <2>1, <3>1, <4>1, <4>2
    <3>2. CASE q # p
      <4>1. r[q] = ready[q] /\ (ready[q] # NULL => ready[q] \in R /\ P[ready[q]] # p)
        BY <2>3, <3>2 DEF Rings
      <4>. QED
        BY <2>3, <3>2, <4>1 DEF Rings
    <3>. QED
      BY <3>1, <3>2
  <2>9. Rings(next, prev, r, R, P, k)
    BY <2>6, <2>7, <2>8 DEF Rings
  <2>. QED
    BY <2>3, <2>9
<1>. QED
  BY <1>0, <1>1

\* A task that waits nowhere becomes the head of a list.
LEMMA LineWith ==
    ASSUME NEW W \in [Thread -> Queue \cup {NULL}], NEW P \in [Thread -> Prio],
           NEW rank \in [Thread -> Int],
           NEW next \in [Thread -> Link], NEW prev \in [Thread -> Link],
           NEW wait \in [Queue -> [Prio -> Link]],
           Lines(next, prev, wait, W, P, rank),
           NEW t \in Thread, W[t] = NULL, NEW q \in Queue,
           NEW n, NEW v, NEW f, NEW V, NEW k, NEW h, h = wait[q][P[t]],
           Enqueues(V, k, f, W, rank, wait, P, t, q),
           Adds(Waiting(V), t, NULL, h, n, v, next, prev)
    PROVE  Lines(n, v, f, V, P, k)
<1>0. /\ V = [W EXCEPT ![t] = q]
      /\ k = [rank EXCEPT ![t] = IF h = NULL THEN 0 ELSE rank[h] - 1]
      /\ \A x \in Queue, p \in Prio :
            f[x][p] = IF x = q /\ p = P[t] THEN t ELSE wait[x][p]
  BY DEF Enqueues
<1>. USE <1>0 DEF Adds, Waiting
<1>1. /\ NULL \notin Thread /\ NULL \notin Queue /\ P[t] \in Prio /\ h \in Link
      /\ h # NULL => h \in Thread /\ W[h] = q /\ P[h] = P[t] /\ h # t
      /\ \A u \in Thread : u # t => V[u] = W[u]
      /\ V[t] = q
  BY IpcAssumption DEF Lines, Link
<1>2. /\ k \in [Thread -> Int]
      /\ \A u \in Thread : u # t => k[u] = rank[u]
      /\ h # NULL => k[t] = rank[h] - 1
  <2>1. h # NULL => rank[h] \in Int
    BY <1>1
  <2>. QED
    BY <2>1
<1>3. ASSUME NEW u \in Thread, V[u] = q, P[u] = P[t], u # t
      PROVE  h # NULL /\ k[t] < k[u] /\ k[h] <= k[u]
  <2>1. h # NULL /\ rank[h] <= rank[u]
    BY <1>1, <1>3 DEF Lines
  <2>2. rank[h] \in Int /\ rank[u] \in Int
    BY <1>1, <2>1
  <2>. QED
    BY <1>1, <1>2, <1>3, <2>1, <2>2
<1>4. ASSUME NEW u \in Thread, NEW w \in Thread,
             V[u] # NULL, V[u] = V[w], P[u] = P[w], k[u] = k[w]
      PROVE  u = w
  <2>1. k[u] \in Int /\ k[w] \in Int
    BY <1>2
  <2>2. CASE u # t /\ w # t
    BY <1>1, <1>2, <1>4, <2>2 DEF Lines
  <2>. QED
    BY <1>1, <1>3, <1>4, <2>1, <2>2
<1>5. ASSUME NEW u \in Thread, V[u] # NULL
      PROVE  /\ n[u] # NULL => /\ V[n[u]] = V[u] /\ P[n[u]] = P[u]
                               /\ v[n[u]] = u /\ k[u] < k[n[u]]
             /\ v[u] # NULL => /\ V[v[u]] = V[u] /\ P[v[u]] = P[u]
                               /\ n[v[u]] = u
             /\ v[u] = NULL <=> f[V[u]][P[u]] = u
  <2>1. CASE u = t
    <3>1. n[u] = h /\ v[u] = NULL /\ f[V[u]][P[u]] = u
      BY <1>1, <1>5, <2>1
    <3>2. h # NULL => v[h] = t /\ V[h] = q /\ k[t] < k[h]
      BY <1>1, <1>3
    <3>. QED
      BY <1>1, <2>1, <3>1, <3>2
  <2>2. CASE u # t
    <3>1. /\ W[u] = V[u] /\ W[u] \in Queue /\ P[u] \in Prio
          /\ n[u] = next[u] /\ next[u] \in Link /\ prev[u] \in Link
          /\ v[u] = IF u = h THEN t ELSE prev[u]
      BY <1>1, <1>5, <2>2
    <3>2. ASSUME n[u] # NULL
          PROVE  /\ V[n[u]] = V[u] /\ P[n[u]] = P[u]
                 /\ v[n[u]] = u /\ k[u] < k[n[u]]
      <4>1. /\ next[u] \in Thread /\ W[next[u]] = W[u] /\ P[next[u]] = P[u]
            /\ prev[next[u]] = u /\ rank[u] < rank[next[u]]
        BY <1>5, <3>1, <3>2 DEF Lines, Link
      <4>2. next[u] # t
        BY <1>1, <1>5, <3>1, <4>1
      <4>3. next[u] # h
        <5>1. h # NULL => prev[h] = NULL
          BY <1>1 DEF Lines
        <5>. QED
          BY <1>1, <4>1, <5>1
      <4>. QED
        BY <1>1, <1>2, <1>5, <2>2, <3>1, <4>1, <4>2, <4>3
    <3>3. ASSUME v[u] # NULL
          PROVE  V[v[u]] = V[u] /\ P[v[u]] = P[u] /\ n[v[u]] = u
      <4>1. CASE u = h
        BY <1>1, <3>1, <4>1
      <4>2. CASE u # h
        <5>1. /\ prev[u] \in Thread /\ W[prev[u]] = W[u] /\ P[prev[u]] = P[u]
              /\ next[prev[u]] = u /\ prev[u] # t
          BY <1>1, <1>5, <3>1, <3>3, <4>2 DEF Lines, Link
        <5>. QED
          BY <1>1, <1>5, <3>1, <4>2, <5>1
      <4>. QED
        BY <4>1, <4>2
    <3>4. v[u] = NULL <=> f[V[u]][P[u]] = u
      <4>1. prev[u] = NULL <=> wait[W[u]][P[u]] = u
        BY <1>5, <3>1 DEF Lines
      <4>. QED
        BY <1>1, <2>2, <3>1, <4>1
    <3>. QED
      BY <3>2, <3>3, <3>4
  <2>. QED
    BY <2>1, <2>2
<1>6. ASSUME NEW u \in Thread, V[u] # NULL,
             NEW w \in Thread, V[w] = V[u], P[w] = P[u]
      PROVE  IF n[u] = NULL THEN k[w] <= k[u]
             ELSE k[w] <= k[u] \/ k[n[u]] <= k[w]
  <2>0. k[u] \in Int /\ k[w] \in Int
    BY <1>2
  <2>1. CASE u = t
    <3>1. n[u] = h
      BY <1>1, <1>6, <2>1
    <3>2. CASE w = t
      BY <2>0, <2>1, <3>2
    <3>3. CASE w # t
      BY <1>1, <1>3, <1>6, <2>1, <3>1, <3>3
    <3>. QED
      BY <3>2, <3>3
  <2>2. CASE u # t
    <3>1. W[u] = V[u] /\ n[u] = next[u] /\ next[u] \in Link
      BY <1>1, <1>6, <2>2
    <3>2. CASE w = t
      <4>1. k[t] < k[u] /\ k[t] \in Int
        BY <1>1, <1>2, <1>3, <1>6, <2>2, <3>2
      <4>. QED
        BY <2>0, <3>2, <4>1
    <3>3. CASE w # t
      <4>1. IF next[u] = NULL THEN rank[w] <= rank[u]
            ELSE /\ rank[w] <= rank[u] \/ rank[next[u]] <= rank[w]
                 /\ next[u] \in Thread /\ W[next[u]] # NULL
        BY <1>1, <1>6, <3>1, <3>3 DEF Lines, Link
      <4>. QED
        BY <1>1, <1>2, <2>2, <3>1, <3>3, <4>1
    <3>. QED
      BY <3>2, <3>3
  <2>. QED
    BY <2>1, <2>2
<1>7. ASSUME NEW x \in Queue, NEW p \in Prio
      PROVE  /\ f[x][p] # NULL => V[f[x][p]] = x /\ P[f[x][p]] = p
             /\ \A u \in Thread : V[u] = x /\ P[u] = p =>
                   f[x][p] # NULL /\ k[f[x][p]] <= k[u]
  <2>1. CASE x = q /\ p = P[t]
    <3>1. f[x][p] = t
      BY <2>1
    <3>2. k[t] <= k[t]
      BY <1>2
    <3>. QED
      BY <1>1, <1>2, <1>3, <2>1, <3>1, <3>2
  <2>2. CASE ~(x = q /\ p = P[t])
    <3>1. f[x][p] = wait[x][p] /\ wait[x][p] \in Link
      BY <2>2
    <3>2. wait[x][p] # NULL =>
             wait[x][p] \in Thread /\ W[wait[x][p]] = x /\ P[wait[x][p]] = p
      BY <3>1 DEF Lines, Link
    <3>3. ASSUME NEW u \in Thread, V[u] = x, P[u] = p
          PROVE  W[u] = x /\ u # t
      BY <1>1, <2>2, <3>3
    <3>. QED
      BY <1>1, <1>2, <3>1, <3>2, <3>3 DEF Lines
  <2>. QED
    BY <2>1, <2>2
<1>. QED
  BY <1>4, <1>5, <1>6, <1>7 DEF Lines

\* A task that waits leaves its list.
LEMMA LineWithout ==
    ASSUME NEW W \in [Thread -> Queue \cup {NULL}], NEW P \in [Thread -> Prio],
           NEW rank \in [Thread -> Int],
           NEW next \in [Thread -> Link], NEW prev \in [Thread -> Link],
           NEW wait \in [Queue -> [Prio -> Link]],
           Lines(next, prev, wait, W, P, rank),
           NEW t \in Thread, NEW q \in Queue, W[t] = q,
           NEW a, NEW b, a = prev[t], b = next[t],
           NEW n, NEW v, NEW f, NEW V,
           Dequeues(V, f, W, wait, P, t, next, prev),
           Drops(Waiting(V), t, n, v, next, prev)
    PROVE  Lines(n, v, f, V, P, rank)
<1>0. /\ V = [W EXCEPT ![t] = NULL]
      /\ \A x \in Queue, p \in Prio :
            f[x][p] = IF x = q /\ p = P[t] /\ a = NULL THEN b ELSE wait[x][p]
  BY DEF Dequeues
<1>. USE <1>0 DEF Drops, Waiting
<1>1. /\ NULL \notin Thread /\ NULL \notin Queue /\ P[t] \in Prio
      /\ \A u \in Thread : u # t => V[u] = W[u]
      /\ V[t] = NULL
  BY IpcAssumption DEF Lines, Link
<1>2. /\ a # NULL => /\ a \in Thread /\ a # t /\ W[a] = q /\ P[a] = P[t]
                     /\ next[a] = t /\ rank[a] < rank[t]
      /\ b # NULL => /\ b \in Thread /\ b # t /\ W[b] = q /\ P[b] = P[t]
                     /\ prev[b] = t /\ rank[t] < rank[b]
      /\ a = NULL <=> wait[q][P[t]] = t
  <2>0. t \in Thread /\ W[t] # NULL /\ a \in Link /\ b \in Link
    BY <1>1
  <2>1. /\ a # NULL => /\ a \in Thread /\ W[a] = q /\ P[a] = P[t] /\ next[a] = t
        /\ b # NULL => /\ b \in Thread /\ W[b] = q /\ P[b] = P[t] /\ prev[b] = t
                       /\ rank[t] < rank[b]
        /\ a = NULL <=> wait[q][P[t]] = t
    BY <2>0 DEF Lines, Link
  <2>2. a # NULL => rank[a] < rank[t]
    BY <1>1, <2>0, <2>1 DEF Lines
  <2>3. rank[t] \in Int
    OBVIOUS
  <2>. QED
    BY <2>1, <2>2, <2>3
<1>3. ASSUME NEW u \in Thread, NEW w \in Thread,
             V[u] # NULL, V[u] = V[w], P[u] = P[w], rank[u] = rank[w]
      PROVE  u = w
  BY <1>1, <1>3 DEF Lines
<1>4. ASSUME NEW u \in Thread, V[u] # NULL
      PROVE  /\ n[u] # NULL => /\ V[n[u]] = V[u] /\ P[n[u]] = P[u]
                               /\ v[n[u]] = u /\ rank[u] < rank[n[u]]
             /\ v[u] # NULL => /\ V[v[u]] = V[u] /\ P[v[u]] = P[u]
                               /\ n[v[u]] = u
             /\ v[u] = NULL <=> f[V[u]][P[u]] = u
  <2>1. /\ u # t /\ W[u] = V[u] /\ W[u] \in Queue /\ P[u] \in Prio
        /\ next[u] \in Link /\ prev[u] \in Link
        /\ n[u] = IF u = a THEN b ELSE next[u]
        /\ v[u] = IF u = b THEN a ELSE prev[u]
    BY <1>1, <1>4
  <2>2. /\ next[u] # NULL => /\ next[u] \in Thread /\ W[next[u]] = W[u]
                             /\ P[next[u]] = P[u]
                             /\ prev[next[u]] = u /\ rank[u] < rank[next[u]]
        /\ prev[u] # NULL => /\ prev[u] \in Thread /\ W[prev[u]] = W[u]
                             /\ P[prev[u]] = P[u] /\ next[prev[u]] = u
        /\ prev[u] = NULL <=> wait[W[u]][P[u]] = u
    BY <1>4, <2>1 DEF Lines, Link
  <2>3. ASSUME n[u] # NULL
        PROVE  /\ V[n[u]] = V[u] /\ P[n[u]] = P[u]
               /\ v[n[u]] = u /\ rank[u] < rank[n[u]]
    <3>1. CASE u = a
      <4>1. /\ n[u] = b /\ b \in Thread /\ b # t /\ W[b] = q /\ W[u] = q /\ P[b] = P[u]
            /\ rank[u] < rank[t] /\ rank[t] < rank[b]
        BY <1>1, <1>2, <2>1, <2>3, <3>1
      <4>2. v[b] = a /\ V[b] = q
        BY <1>1, <4>1
      <4>3. rank[u] \in Int /\ rank[t] \in Int /\ rank[b] \in Int
        BY <4>1
      <4>. QED
        BY <2>1, <3>1, <4>1, <4>2, <4>3
    <3>2. CASE u # a
      <4>1. n[u] = next[u] /\ next[u] # t /\ next[u] \in Thread
        BY <1>2, <2>1, <2>2, <2>3, <3>2
      <4>2. next[u] # b
        BY <1>2, <2>1, <2>2, <2>3, <4>1
      <4>. QED
        BY <1>1, <1>4, <2>1, <2>2, <2>3, <4>1, <4>2
    <3>. QED
      BY <3>1, <3>2
  <2>4. ASSUME v[u] # NULL
        PROVE  V[v[u]] = V[u] /\ P[v[u]] = P[u] /\ n[v[u]] = u
    <3>1. CASE u = b
      <4>1. v[u] = a /\ a \in Thread /\ a # t /\ W[a] = q /\ W[u] = q /\ P[a] = P[u]
        BY <1>1, <1>2, <2>1, <2>4, <3>1
      <4>2. n[a] = b /\ V[a] = q
        BY <1>1, <4>1
      <4>. QED
        BY <2>1, <3>1, <4>1, <4>2
    <3>2. CASE u # b
      <4>1. v[u] = prev[u] /\ prev[u] # t /\ prev[u] \in Thread
        BY <1>2, <2>1, <2>2, <2>4, <3>2
      <4>2. prev[u] # a
        BY <1>2, <2>1, <2>2, <2>4, <4>1
      <4>. QED
        BY <1>1, <1>4, <2>1, <2>2, <2>4, <4>1, <4>2
    <3>. QED
      BY <3>1, <3>2
  <2>5. v[u] = NULL <=> f[V[u]][P[u]] = u
    <3>1. CASE u = b
      <4>1. W[u] = q /\ P[u] = P[t] /\ wait[q][P[t]] # u
        BY <1>1, <1>2, <2>1, <2>2, <3>1
      <4>. QED
        BY <1>1, <2>1, <3>1, <4>1
    <3>2. CASE u # b
      <4>1. f[W[u]][P[u]] = u <=> wait[W[u]][P[u]] = u
        BY <1>2, <2>1, <3>2
      <4>. QED
        BY <2>1, <2>2, <3>2, <4>1
    <3>. QED
      BY <3>1, <3>2
  <2>. QED
    BY <2>3, <2>4, <2>5
<1>5. ASSUME NEW u \in Thread, V[u] # NULL,
             NEW w \in Thread, V[w] = V[u], P[w] = P[u]
      PROVE  IF n[u] = NULL THEN rank[w] <= rank[u]
             ELSE rank[w] <= rank[u] \/ rank[n[u]] <= rank[w]
  <2>0. /\ u # t /\ w # t /\ W[u] = V[u] /\ W[w] = W[u] /\ W[u] # NULL
        /\ rank[u] \in Int /\ rank[w] \in Int /\ rank[t] \in Int
    BY <1>1, <1>5
  <2>1. IF next[u] = NULL THEN rank[w] <= rank[u]
        ELSE rank[w] <= rank[u] \/ rank[next[u]] <= rank[w]
    BY <1>5, <2>0 DEF Lines
  <2>2. CASE u # a
    BY <1>5, <2>1, <2>2
  <2>3. CASE u = a
    <3>1. n[u] = b /\ next[u] = t /\ W[u] = q /\ P[u] = P[t]
      BY <1>1, <1>2, <1>5, <2>0, <2>3
    <3>2. IF b = NULL THEN rank[w] <= rank[t]
          ELSE rank[w] <= rank[t] \/ rank[b] <= rank[w]
      BY <1>1, <1>5, <2>0, <3>1 DEF Lines
    <3>3. rank[w] # rank[t]
      BY <1>1, <1>5, <2>0, <3>1 DEF Lines
    <3>4. rank[w] <= rank[u] \/ rank[t] <= rank[w]
      BY <1>1, <2>1, <3>1
    <3>5. ~(rank[w] <= rank[u]) => ~(rank[w] <= rank[t])
      <4>1. \A x, y \in Int : x <= y /\ y <= x => x = y
        OBVIOUS
      <4>2. rank[w] \in Int /\ rank[t] \in Int
        BY <2>0
      <4>. QED
        BY <3>3, <3>4, <4>1, <4>2, Zenon
    <3>. QED
      BY <3>1, <3>2, <3>5
  <2>. QED
    BY <2>2, <2>3
<1>6. ASSUME NEW x \in Queue, NEW p \in Prio
      PROVE  /\ f[x][p] # NULL => V[f[x][p]] = x /\ P[f[x][p]] = p
             /\ \A u \in Thread : V[u] = x /\ P[u] = p =>
                   f[x][p] # NULL /\ rank[f[x][p]] <= rank[u]
  <2>1. CASE x = q /\ p = P[t] /\ a = NULL
    <3>1. f[x][p] = b
      BY <2>1
    <3>2. ASSUME NEW u \in Thread, V[u] = x, P[u] = p
          PROVE  b # NULL /\ rank[b] <= rank[u]
      <4>1. u # t /\ W[u] = q /\ W[t] = q /\ W[t] # NULL
        BY <1>1, <2>1, <3>2
      <4>2. /\ rank[t] <= rank[u] /\ rank[u] # rank[t]
            /\ IF b = NULL THEN rank[u] <= rank[t]
               ELSE rank[u] <= rank[t] \/ rank[b] <= rank[u]
        BY <1>1, <1>2, <2>1, <3>2, <4>1 DEF Lines
      <4>3. rank[t] \in Int /\ rank[u] \in Int
        OBVIOUS
      <4>4. ~(rank[u] <= rank[t])
          <5>1. \A i, j \in Int : i <= j /\ j <= i => i = j
          OBVIOUS
        <5>. QED
          BY <4>2, <4>3, <5>1, Zenon
      <4>. QED
        BY <4>2, <4>4
    <3>. QED
      BY <1>1, <1>2, <2>1, <3>1, <3>2
  <2>2. CASE ~(x = q /\ p = P[t] /\ a = NULL)
    <3>1. f[x][p] = wait[x][p] /\ wait[x][p] \in Link
      BY <2>2
    <3>2. wait[x][p] # NULL => /\ wait[x][p] \in Thread /\ wait[x][p] # t
                               /\ W[wait[x][p]] = x /\ P[wait[x][p]] = p
      BY <1>2, <2>2, <3>1 DEF Lines, Link
    <3>3. ASSUME NEW u \in Thread, V[u] = x, P[u] = p
          PROVE  W[u] = x
      BY <1>1, <3>3
    <3>. QED
      BY <1>1, <3>1, <3>2, <3>3 DEF Lines
  <2>. QED
    BY <2>1, <2>2
<1>. QED
  BY <1>3, <1>4, <1>5, <1>6 DEF Lines

\* The order of a ring is told by the tasks in it and their links alone.
LEMMA SameRings ==
    ASSUME NEW R, NEW P, NEW rank, NEW next, NEW prev, NEW ready,
           Rings(next, prev, ready, R, P, rank),
           NEW n, NEW v, NEW Q, NEW k,
           Keeps(R, n, v, Q, k, next, prev, P, rank)
    PROVE  Rings(n, v, ready, R, Q, k)
<1>. USE DEF Keeps
<1>1. ASSUME NEW t \in R, NEW u \in R, Q[t] = Q[u]
      PROVE  /\ k[t] = k[u] => t = u
             /\ n[t] \in R /\ Q[n[t]] = Q[t] /\ v[n[t]] = t
             /\ v[t] \in R /\ Q[v[t]] = Q[t] /\ n[v[t]] = t
             /\ IF n[t] = ready[Q[t]] THEN k[u] <= k[t]
                ELSE k[t] < k[n[t]] /\ (k[u] <= k[t] \/ k[n[t]] <= k[u])
  BY <1>1 DEF Rings
<1>2. ASSUME NEW p \in Prio
      PROVE  /\ ready[p] # NULL => ready[p] \in R /\ Q[ready[p]] = p
             /\ \A u \in R : Q[u] = p => ready[p] # NULL /\ k[ready[p]] <= k[u]
  BY DEF Rings
<1>. QED
  BY <1>1, <1>2 DEF Rings

\* So is the order of the lists of the wait queues.
LEMMA SameLines ==
    ASSUME NEW W \in [Thread -> Queue \cup {NULL}], NEW P \in [Thread -> Prio], NEW rank,
           NEW next \in [Thread -> Link], NEW prev \in [Thread -> Link],
           NEW wait \in [Queue -> [Prio -> Link]],
           Lines(next, prev, wait, W, P, rank),
           NEW n, NEW v, NEW Q, NEW k,
           Keeps(Waiting(W), n, v, Q, k, next, prev, P, rank)
    PROVE  Lines(n, v, wait, W, Q, k)
<1>. USE DEF Keeps, Waiting
<1>0. NULL \notin Thread /\ NULL \notin Queue
  BY IpcAssumption
<1>1. ASSUME NEW t \in Thread, NEW u \in Thread, W[t] # NULL, W[t] = W[u], Q[t] = Q[u]
      PROVE  /\ k[t] = k[u] => t = u
             /\ n[t] # NULL => /\ W[n[t]] = W[t] /\ Q[n[t]] = Q[t]
                               /\ v[n[t]] = t /\ k[t] < k[n[t]]
             /\ v[t] # NULL => W[v[t]] = W[t] /\ Q[v[t]] = Q[t] /\ n[v[t]] = t
             /\ v[t] = NULL <=> wait[W[t]][Q[t]] = t
             /\ IF n[t] = NULL THEN k[u] <= k[t] ELSE k[u] <= k[t] \/ k[n[t]] <= k[u]
  <2>1. /\ next[t] \in Link /\ prev[t] \in Link
        /\ n[t] = next[t] /\ v[t] = prev[t] /\ Q[t] = P[t] /\ k[t] = rank[t]
        /\ Q[u] = P[u] /\ k[u] = rank[u] /\ P[u] = P[t]
    BY <1>1
  <2>2. /\ next[t] # NULL => /\ next[t] \in Thread /\ W[next[t]] = W[t]
                             /\ P[next[t]] = P[t] /\ prev[next[t]] = t
                             /\ rank[t] < rank[next[t]]
        /\ prev[t] # NULL => /\ prev[t] \in Thread /\ W[prev[t]] = W[t]
                             /\ P[prev[t]] = P[t] /\ next[prev[t]] = t
        /\ prev[t] = NULL <=> wait[W[t]][P[t]] = t
        /\ IF next[t] = NULL THEN rank[u] <= rank[t]
           ELSE rank[u] <= rank[t] \/ rank[next[t]] <= rank[u]
        /\ rank[t] = rank[u] => t = u
    BY <1>1, <2>1 DEF Lines, Link
  <2>. QED
    BY <1>1, <2>1, <2>2
<1>2. ASSUME NEW q \in Queue, NEW p \in Prio
      PROVE  /\ wait[q][p] # NULL => W[wait[q][p]] = q /\ Q[wait[q][p]] = p
             /\ \A u \in Thread : W[u] = q /\ Q[u] = p =>
                   wait[q][p] # NULL /\ k[wait[q][p]] <= k[u]
  <2>1. wait[q][p] # NULL => /\ wait[q][p] \in Thread /\ W[wait[q][p]] = q
                             /\ P[wait[q][p]] = p
    BY DEF Lines, Link
  <2>. QED
    BY <1>0, <2>1 DEF Lines
<1>. QED
  BY <1>1, <1>2 DEF Lines

\* flyos_remove_ready_list takes a READY task out of the ring of its priority.
LEMMA LeavesRing ==
    ASSUME NEW m, NEW R, NEW W, NEW P, Linked(m, R, W, P), NEW t \in R
    PROVE  Linked(RemoveReady(m, t, P[t]), R \ {t}, W, P)
<1> DEFINE p == P[t]
           S == R \ {t}
           a == m.prev[t]
           b == m.next[t]
<1>1. PICK rank : Placed(m, R, W, P, rank)
  BY DEF Linked
<1>2. /\ m.next \in [Thread -> Link] /\ m.prev \in [Thread -> Link]
      /\ m.ready \in [Prio -> Link] /\ m.bits \in SUBSET Prio
      /\ m.wait \in [Queue -> [Prio -> Link]] /\ m.waitBits \in [Queue -> SUBSET Prio]
      /\ R \subseteq Thread /\ t \in Thread /\ p \in Prio
      /\ W \in [Thread -> Queue \cup {NULL}] /\ P \in [Thread -> Prio]
      /\ rank \in [Thread -> Int]
      /\ Rings(m.next, m.prev, m.ready, R, P, rank)
      /\ Lines(m.next, m.prev, m.wait, W, P, rank)
      /\ \A u \in R : W[u] = NULL
      /\ \A u \in Thread \ R : W[u] = NULL => m.next[u] = NULL /\ m.prev[u] = NULL
      /\ \A x \in Prio : x \in m.bits <=> m.ready[x] # NULL
      /\ \A q \in Queue, x \in Prio : x \in m.waitBits[q] <=> m.wait[q][x] # NULL
  BY <1>1 DEF Placed, Lists
<1>3. /\ a \in R /\ b \in R /\ NULL \notin R /\ NULL \in Link
      /\ \A u \in R : m.next[u] \in R /\ m.prev[u] \in R
                     /\ m.next[m.prev[u]] = u /\ m.prev[m.next[u]] = u
  BY <1>2, IpcAssumption DEF Rings, Link
<1>4. CASE b = t
  <2> DEFINE n == [m.next EXCEPT ![t] = NULL]
             v == [m.prev EXCEPT ![t] = NULL]
             r == [m.ready EXCEPT ![p] = NULL]
             c == m.bits \ {p}
             z == [m EXCEPT !.ready[p] = NULL, !.bits = @ \ {p},
                            !.next[t] = NULL, !.prev[t] = NULL]
  <2>1. RemoveReady(m, t, p) = z
    BY <1>3, <1>4 DEF RemoveReady
  <2>2. /\ z \in Lists
        /\ z.next = n /\ z.prev = v /\ z.ready = r /\ z.bits = c
        /\ z.wait = m.wait /\ z.waitBits = m.waitBits
    BY <1>1, <1>2, <1>3 DEF Placed, Lists
  <2> HIDE DEF z
  <2>3. \A u \in S : P[u] # p
    <3> SUFFICES ASSUME NEW u \in R, P[u] = p PROVE u = t
      OBVIOUS
    <3>1. b = m.ready[p]
      <4>1. rank[t] \in Int /\ ~(rank[t] < rank[t])
        BY <1>2
      <4>. QED
        BY <1>2, <1>4, <4>1 DEF Rings
    <3>2. rank[u] <= rank[t] /\ rank[t] <= rank[u]
      BY <1>2, <1>3, <1>4, <3>1 DEF Rings
    <3>3. rank[u] \in Int /\ rank[t] \in Int /\ u \in Thread
      BY <1>2
    <3>4. rank[u] = rank[t]
      BY <3>2, <3>3
    <3>. QED
      BY <1>2, <3>4 DEF Rings
  <2>4. /\ \A u \in Thread : u # t => n[u] = m.next[u] /\ v[u] = m.prev[u]
        /\ n[t] = NULL /\ v[t] = NULL
        /\ \A x \in Prio : r[x] = IF x = p THEN NULL ELSE m.ready[x]
    BY <1>2
  <2> HIDE DEF n, v, r
  <2>5. Rings(n, v, r, S, P, rank)
    <3>1. ASSUME NEW u \in S
          PROVE  /\ u # t /\ u \in R /\ n[u] = m.next[u] /\ v[u] = m.prev[u]
                 /\ r[P[u]] = m.ready[P[u]]
                 /\ n[u] \in S /\ v[u] \in S
      <4>1. m.next[u] # t /\ m.prev[u] # t
        BY <1>2, <1>3, <2>3 DEF Rings
      <4>. QED
        BY <1>2, <1>3, <2>3, <2>4, <4>1
    <3>2. ASSUME NEW u \in S, NEW w \in S, P[w] = P[u]
          PROVE  /\ rank[u] = rank[w] => u = w
                 /\ n[u] \in S /\ P[n[u]] = P[u] /\ v[n[u]] = u
                 /\ v[u] \in S /\ P[v[u]] = P[u] /\ n[v[u]] = u
                 /\ IF n[u] = r[P[u]] THEN rank[w] <= rank[u]
                    ELSE /\ rank[u] < rank[n[u]]
                         /\ rank[w] <= rank[u] \/ rank[n[u]] <= rank[w]
      <4>1. /\ rank[u] = rank[w] => u = w
            /\ P[m.next[u]] = P[u] /\ m.prev[m.next[u]] = u
            /\ P[m.prev[u]] = P[u] /\ m.next[m.prev[u]] = u
            /\ IF m.next[u] = m.ready[P[u]] THEN rank[w] <= rank[u]
               ELSE /\ rank[u] < rank[m.next[u]]
                    /\ rank[w] <= rank[u] \/ rank[m.next[u]] <= rank[w]
        BY <1>2, <3>2 DEF Rings
      <4>2. /\ n[u] = m.next[u] /\ v[u] = m.prev[u] /\ r[P[u]] = m.ready[P[u]]
            /\ n[u] \in S /\ v[u] \in S
            /\ v[n[u]] = m.prev[n[u]] /\ n[v[u]] = m.next[v[u]]
        BY <3>1
      <4>. QED
        BY <4>1, <4>2
    <3>3. ASSUME NEW x \in Prio
          PROVE  /\ r[x] # NULL => r[x] \in S /\ P[r[x]] = x
                 /\ \A u \in S : P[u] = x => r[x] # NULL /\ rank[r[x]] <= rank[u]
      BY <1>2, <2>3, <2>4 DEF Rings
    <3>. QED
      BY <3>2, <3>3 DEF Rings
  <2>6. Lines(n, v, m.wait, W, P, rank)
    <3>1. Keeps(Waiting(W), n, v, P, rank, m.next, m.prev, P, rank)
      BY <1>2, <2>4 DEF Keeps, Waiting
    <3>. QED
      BY <1>2, <3>1, SameLines
  <2>7. Placed(z, S, W, P, rank)
    <3>1. \A u \in Thread \ S : W[u] = NULL => n[u] = NULL /\ v[u] = NULL
      BY <1>2, <2>4
    <3>2. \A x \in Prio : x \in c <=> r[x] # NULL
      BY <1>2, <2>4
    <3>. QED
      BY <1>2, <2>2, <2>5, <2>6, <3>1, <3>2 DEF Placed
  <2>. QED
    BY <2>1, <2>7 DEF Linked
<1>5. CASE b # t
  <2> DEFINE n == [m.next EXCEPT ![a] = b, ![t] = NULL]
             v == [m.prev EXCEPT ![b] = a, ![t] = NULL]
             r == [m.ready EXCEPT ![p] = IF m.ready[p] = t THEN b ELSE m.ready[p]]
             z == [m EXCEPT !.next  = [@ EXCEPT ![m.prev[t]] = m.next[t], ![t] = NULL],
                            !.prev  = [@ EXCEPT ![m.next[t]] = m.prev[t], ![t] = NULL],
                            !.ready[p] = IF @ = t THEN m.next[t] ELSE @]
  <2>1. RemoveReady(m, t, p) = z
    BY <1>3, <1>5 DEF RemoveReady
  <2>2. /\ n \in [Thread -> Link] /\ v \in [Thread -> Link] /\ r \in [Prio -> Link]
        /\ a # t /\ a \in Thread /\ b \in Thread
        /\ \A u \in Thread : n[u] = IF u = t THEN NULL ELSE IF u = a THEN b ELSE m.next[u]
        /\ \A u \in Thread : v[u] = IF u = t THEN NULL ELSE IF u = b THEN a ELSE m.prev[u]
        /\ \A x \in Prio : r[x] = IF x = p /\ m.ready[p] = t THEN b ELSE m.ready[x]
    BY <1>2, <1>3, <1>5
  <2>3. /\ z \in Lists
        /\ z.next = n /\ z.prev = v /\ z.ready = r /\ z.bits = m.bits
        /\ z.wait = m.wait /\ z.waitBits = m.waitBits
    BY <1>1, <1>2, <2>2 DEF Placed, Lists
  <2> HIDE DEF z, n, v, r
  <2>4. Rings(n, v, r, S, P, rank)
    <3>1. /\ Drops(S, t, n, v, m.next, m.prev)
          /\ \A x \in Prio : r[x] = IF x = P[t] /\ m.ready[x] = t
                                    THEN m.next[t] ELSE m.ready[x]
      BY <1>2, <2>2 DEF Drops
    <3>. QED
      BY <1>2, <1>5, <3>1, RingWithout
  <2>5. Lines(n, v, m.wait, W, P, rank)
    <3>1. Keeps(Waiting(W), n, v, P, rank, m.next, m.prev, P, rank)
      BY <1>2, <1>3, <2>2 DEF Keeps, Waiting
    <3>. QED
      BY <1>2, <3>1, SameLines
  <2>6. Placed(z, S, W, P, rank)
    <3>1. \A u \in Thread \ S : W[u] = NULL => n[u] = NULL /\ v[u] = NULL
      BY <1>2, <1>3, <2>2
    <3>2. \A x \in Prio : x \in m.bits <=> r[x] # NULL
      BY <1>2, <1>3, <2>2
    <3>. QED
      BY <1>2, <2>3, <2>4, <2>5, <3>1, <3>2 DEF Placed
  <2>. QED
    BY <2>1, <2>6 DEF Linked
<1>. QED
  BY <1>4, <1>5

\* What Placed says, field by field.
LEMMA PlacedMeans ==
    ASSUME NEW m, NEW R, NEW W, NEW P, NEW rank, Placed(m, R, W, P, rank)
    PROVE  /\ m.next \in [Thread -> Link] /\ m.prev \in [Thread -> Link]
           /\ m.ready \in [Prio -> Link] /\ m.bits \in SUBSET Prio
           /\ m.wait \in [Queue -> [Prio -> Link]] /\ m.waitBits \in [Queue -> SUBSET Prio]
           /\ m = [next |-> m.next, prev |-> m.prev, ready |-> m.ready,
                   bits |-> m.bits, wait |-> m.wait, waitBits |-> m.waitBits]
           /\ R \subseteq Thread
           /\ W \in [Thread -> Queue \cup {NULL}] /\ P \in [Thread -> Prio]
           /\ rank \in [Thread -> Int]
           /\ Rings(m.next, m.prev, m.ready, R, P, rank)
           /\ Lines(m.next, m.prev, m.wait, W, P, rank)
           /\ \A u \in R : W[u] = NULL
           /\ \A u \in Thread \ R : W[u] = NULL => m.next[u] = NULL /\ m.prev[u] = NULL
           /\ \A x \in Prio : x \in m.bits <=> m.ready[x] # NULL
           /\ \A q \in Queue, x \in Prio : x \in m.waitBits[q] <=> m.wait[q][x] # NULL
           /\ NULL \notin Thread /\ NULL \notin Queue /\ NULL \in Link /\ NULL \notin R
           /\ \A u \in R : m.next[u] \in R /\ m.prev[u] \in R
BY IpcAssumption DEF Placed, Lists, Link, Rings

\* flyos_insert_ready_list puts a task that is in no list into the ring of its
\* priority.
LEMMA EntersRing ==
    ASSUME NEW m, NEW R, NEW W, NEW P, Linked(m, R, W, P),
           NEW t \in Thread \ R, W[t] = NULL
    PROVE  Linked(InsertReady(m, t, P[t]), R \cup {t}, W, P)
<1> DEFINE p == P[t]
           S == R \cup {t}
           h == m.ready[p]
           tail == m.prev[h]
           c == m.bits \cup {p}
<1>1. PICK rank : Placed(m, R, W, P, rank)
  BY DEF Linked
<1>2. /\ m.next \in [Thread -> Link] /\ m.prev \in [Thread -> Link]
      /\ m.ready \in [Prio -> Link] /\ m.bits \in SUBSET Prio
      /\ m.wait \in [Queue -> [Prio -> Link]] /\ m.waitBits \in [Queue -> SUBSET Prio]
      /\ R \subseteq Thread /\ t \in Thread /\ t \notin R /\ p \in Prio
      /\ W \in [Thread -> Queue \cup {NULL}] /\ P \in [Thread -> Prio]
      /\ rank \in [Thread -> Int]
      /\ Rings(m.next, m.prev, m.ready, R, P, rank)
      /\ Lines(m.next, m.prev, m.wait, W, P, rank)
      /\ \A u \in R : W[u] = NULL
      /\ \A u \in Thread \ R : W[u] = NULL => m.next[u] = NULL /\ m.prev[u] = NULL
      /\ \A x \in Prio : x \in m.bits <=> m.ready[x] # NULL
      /\ \A q \in Queue, x \in Prio : x \in m.waitBits[q] <=> m.wait[q][x] # NULL
      /\ NULL \notin Thread /\ NULL \in Link /\ NULL \notin R
  BY <1>1, PlacedMeans
<1>L. /\ W \in [Thread -> Queue \cup {NULL}] /\ P \in [Thread -> Prio]
      /\ m.next \in [Thread -> Link] /\ m.prev \in [Thread -> Link]
      /\ m.wait \in [Queue -> [Prio -> Link]]
      /\ Lines(m.next, m.prev, m.wait, W, P, rank)
  BY <1>1, PlacedMeans
<1>R. /\ R \subseteq Thread /\ P \in [Thread -> Prio] /\ rank \in [Thread -> Int]
      /\ m.next \in [Thread -> Link] /\ m.prev \in [Thread -> Link]
      /\ m.ready \in [Prio -> Link]
      /\ Rings(m.next, m.prev, m.ready, R, P, rank)
  BY <1>1, PlacedMeans
<1>3. /\ m.next[t] = NULL /\ m.prev[t] = NULL
      /\ m = [next |-> m.next, prev |-> m.prev, ready |-> m.ready,
              bits |-> m.bits, wait |-> m.wait, waitBits |-> m.waitBits]
  BY <1>1, <1>2, PlacedMeans
<1>4. CASE h = NULL
  <2> DEFINE n == [m.next EXCEPT ![t] = t]
             v == [m.prev EXCEPT ![t] = t]
             r == [m.ready EXCEPT ![p] = t]
             z == [next |-> n, prev |-> v, ready |-> r, bits |-> c,
                   wait |-> m.wait, waitBits |-> m.waitBits]
  <2>1. InsertReady(m, t, p) = z
    BY <1>2, <1>3, <1>4 DEF InsertReady, Ring
  <2>2. /\ n \in [Thread -> Link] /\ v \in [Thread -> Link] /\ r \in [Prio -> Link]
        /\ \A u \in Thread : u # t => n[u] = m.next[u] /\ v[u] = m.prev[u]
        /\ n[t] = t /\ v[t] = t
        /\ \A x \in Prio : r[x] = IF x = P[t] THEN t ELSE m.ready[x]
    BY <1>2 DEF Link
  <2> HIDE DEF n, v, r
  <2>3. z \in Lists
    BY <1>2, <2>2 DEF Lists
  <2>4. Rings(n, v, r, S, P, rank)
    <3>1. \A u \in R : n[u] = m.next[u] /\ v[u] = m.prev[u]
      BY <1>2, <2>2
    <3>. QED
      BY <1>R, <1>4, <2>2, <3>1, RingOfOne
  <2>5. Lines(n, v, m.wait, W, P, rank)
    <3>1. Keeps(Waiting(W), n, v, P, rank, m.next, m.prev, P, rank)
      BY <2>2 DEF Keeps, Waiting
    <3>. QED
      BY <1>L, <3>1, SameLines
  <2>6. Placed(z, S, W, P, rank)
    <3>1. \A u \in Thread \ S : W[u] = NULL => n[u] = NULL /\ v[u] = NULL
      BY <1>2, <2>2
    <3>2. \A x \in Prio : x \in c <=> r[x] # NULL
      BY <1>2, <2>2
    <3>3. \A u \in S : W[u] = NULL
      BY <1>2
    <3>. QED
      BY <1>2, <2>3, <2>4, <2>5, <3>1, <3>2, <3>3 DEF Placed
  <2>. QED
    BY <2>1, <2>6 DEF Linked
<1>5. CASE h # NULL
  <2> DEFINE n == [m.next EXCEPT ![tail] = t, ![t] = h]
             v == [m.prev EXCEPT ![t] = tail, ![h] = t]
             k == [rank EXCEPT ![t] = rank[tail] + 1]
             z == [next |-> n, prev |-> v, ready |-> m.ready, bits |-> c,
                   wait |-> m.wait, waitBits |-> m.waitBits]
  <2>1. InsertReady(m, t, p) = z
    BY <1>2, <1>3, <1>5 DEF InsertReady, Ring
  <2>2. h \in R /\ tail \in R /\ tail # t /\ h # t
    BY <1>2, <1>5 DEF Rings
  <2>3. /\ n \in [Thread -> Link] /\ v \in [Thread -> Link] /\ k \in [Thread -> Int]
        /\ \A u \in Thread : n[u] = IF u = tail THEN t ELSE IF u = t THEN h ELSE m.next[u]
        /\ \A u \in Thread : v[u] = IF u = h THEN t ELSE IF u = t THEN tail ELSE m.prev[u]
        /\ \A u \in Thread : u # t => k[u] = rank[u]
    <3>1. rank[tail] + 1 \in Int
      BY <1>2, <2>2
    <3>. QED
      BY <1>2, <2>2, <3>1 DEF Link
  <2> HIDE DEF n, v
  <2>4. z \in Lists
    BY <1>2, <2>3 DEF Lists
  <2>5. Rings(n, v, m.ready, S, P, k)
    <3>1. /\ Adds(S, t, m.prev[h], h, n, v, m.next, m.prev)
          /\ k = [rank EXCEPT ![t] = rank[m.prev[h]] + 1]
          /\ h = m.ready[P[t]]
      BY <1>2, <2>3 DEF Adds
    <3> HIDE DEF k, h
    <3>. QED
      BY <1>R, <1>5, <3>1, RingWith
  <2> HIDE DEF k
  <2>6. Lines(n, v, m.wait, W, P, k)
    <3>1. Keeps(Waiting(W), n, v, P, k, m.next, m.prev, P, rank)
      BY <1>2, <2>2, <2>3 DEF Keeps, Waiting
    <3>. QED
      BY <1>L, <3>1, SameLines
  <2>7. Placed(z, S, W, P, k)
    <3>1. \A u \in Thread \ S : W[u] = NULL => n[u] = NULL /\ v[u] = NULL
      BY <1>2, <2>2, <2>3
    <3>2. \A x \in Prio : x \in c <=> m.ready[x] # NULL
      BY <1>2, <1>5
    <3>3. \A u \in S : W[u] = NULL
      BY <1>2
    <3>. QED
      BY <1>2, <2>3, <2>4, <2>5, <2>6, <3>1, <3>2, <3>3 DEF Placed
  <2>. QED
    BY <2>1, <2>7 DEF Linked
<1>. QED
  BY <1>4, <1>5

\* What wait_queue_insert writes.
LEMMA WaitInsertWrites ==
    ASSUME NEW m \in Lists, NEW q \in Queue, NEW t \in Thread, NEW p \in Prio,
           NEW z, z = WaitInsert(m, q, t, p)
    PROVE  /\ z \in Lists
           /\ z.next = [m.next EXCEPT ![t] = m.wait[q][p]]
           /\ z.prev = [u \in Thread |-> CASE u = t            -> NULL
                                          [] u = m.wait[q][p] -> t
                                          [] OTHER            -> m.prev[u]]
           /\ z.ready = m.ready /\ z.bits = m.bits
           /\ z.wait = [m.wait EXCEPT ![q][p] = t]
           /\ z.waitBits = [m.waitBits EXCEPT ![q] = @ \cup {p}]
<1>1. /\ m = [next |-> m.next, prev |-> m.prev, ready |-> m.ready,
              bits |-> m.bits, wait |-> m.wait, waitBits |-> m.waitBits]
      /\ m.next \in [Thread -> Link] /\ m.prev \in [Thread -> Link]
      /\ m.wait \in [Queue -> [Prio -> Link]] /\ m.waitBits \in [Queue -> SUBSET Prio]
      /\ NULL \in Link /\ t \in Link /\ m.wait[q][p] \in Link
  BY DEF Lists, Link
<1>2. z.next = [m.next EXCEPT ![t] = m.wait[q][p]]
  BY <1>1 DEF WaitInsert
<1>3. z.prev = [u \in Thread |-> CASE u = t            -> NULL
                                   [] u = m.wait[q][p] -> t
                                   [] OTHER            -> m.prev[u]]
  BY <1>1 DEF WaitInsert
<1>4. z.wait = [m.wait EXCEPT ![q][p] = t]
  BY <1>1 DEF WaitInsert
<1>5. z.waitBits = [m.waitBits EXCEPT ![q] = @ \cup {p}]
  BY <1>1 DEF WaitInsert
<1>6. z.ready = m.ready /\ z.bits = m.bits
  BY <1>1 DEF WaitInsert
<1>7. z \in Lists
  <2>1. [m.next EXCEPT ![t] = m.wait[q][p]] \in [Thread -> Link]
    BY <1>1
  <2>2. [u \in Thread |-> CASE u = t            -> NULL
                            [] u = m.wait[q][p] -> t
                            [] OTHER            -> m.prev[u]] \in [Thread -> Link]
    BY <1>1
  <2>3. [m.wait EXCEPT ![q][p] = t] \in [Queue -> [Prio -> Link]]
    BY <1>1
  <2>4. [m.waitBits EXCEPT ![q] = @ \cup {p}] \in [Queue -> SUBSET Prio]
    BY <1>1
  <2>. QED
    BY <2>1, <2>2, <2>3, <2>4 DEF WaitInsert, Lists
<1>. QED
  BY <1>2, <1>3, <1>4, <1>5, <1>6, <1>7

\* What wait_queue_remove writes.
LEMMA WaitRemoveWrites ==
    ASSUME NEW m \in Lists, NEW q \in Queue, NEW t \in Thread, NEW p \in Prio,
           NEW a, a = m.prev[t], NEW b, b = m.next[t],
           NEW x, x = IF a = NULL THEN b ELSE m.wait[q][p],
           NEW z, z = WaitRemove(m, q, t, p)
    PROVE  /\ z \in Lists
           /\ z.next = [u \in Thread |-> CASE u = t -> NULL [] u = a -> b
                                          [] OTHER -> m.next[u]]
           /\ z.prev = [u \in Thread |-> CASE u = t -> NULL [] u = b -> a
                                          [] OTHER -> m.prev[u]]
           /\ z.ready = m.ready /\ z.bits = m.bits
           /\ z.wait = [m.wait EXCEPT ![q][p] = x]
           /\ z.waitBits = [m.waitBits EXCEPT ![q] = IF x = NULL THEN @ \ {p} ELSE @]
<1>1. /\ m = [next |-> m.next, prev |-> m.prev, ready |-> m.ready,
              bits |-> m.bits, wait |-> m.wait, waitBits |-> m.waitBits]
      /\ m.next \in [Thread -> Link] /\ m.prev \in [Thread -> Link]
      /\ m.wait \in [Queue -> [Prio -> Link]] /\ m.waitBits \in [Queue -> SUBSET Prio]
      /\ NULL \in Link /\ a \in Link /\ b \in Link /\ x \in Link
  BY DEF Lists, Link
<1>2. z.next = [u \in Thread |-> CASE u = t -> NULL [] u = a -> b [] OTHER -> m.next[u]]
  BY <1>1 DEF WaitRemove
<1>3. z.prev = [u \in Thread |-> CASE u = t -> NULL [] u = b -> a [] OTHER -> m.prev[u]]
  BY <1>1 DEF WaitRemove
<1>4. z.wait = [m.wait EXCEPT ![q][p] = x]
  BY <1>1 DEF WaitRemove
<1>5. z.waitBits = [m.waitBits EXCEPT ![q] = IF x = NULL THEN @ \ {p} ELSE @]
  BY <1>1 DEF WaitRemove
<1>6. z.ready = m.ready /\ z.bits = m.bits
  BY <1>1 DEF WaitRemove
<1>7. z \in Lists
  <2>1. [u \in Thread |-> CASE u = t -> NULL [] u = a -> b [] OTHER -> m.next[u]]
          \in [Thread -> Link]
    BY <1>1
  <2>2. [u \in Thread |-> CASE u = t -> NULL [] u = b -> a [] OTHER -> m.prev[u]]
          \in [Thread -> Link]
    BY <1>1
  <2>3. [m.wait EXCEPT ![q][p] = x] \in [Queue -> [Prio -> Link]]
    BY <1>1
  <2>4. [m.waitBits EXCEPT ![q] = IF x = NULL THEN @ \ {p} ELSE @]
          \in [Queue -> SUBSET Prio]
    BY <1>1
  <2>. QED
    BY <2>1, <2>2, <2>3, <2>4 DEF WaitRemove, Lists
<1>. QED
  BY <1>2, <1>3, <1>4, <1>5, <1>6, <1>7

\* wait_queue_insert puts a task that is in no list into a list of the queue.
LEMMA EntersQueue ==
    ASSUME NEW m, NEW R, NEW W, NEW P, Linked(m, R, W, P),
           NEW t \in Thread \ R, W[t] = NULL, NEW q \in Queue
    PROVE  Linked(WaitInsert(m, q, t, P[t]), R, [W EXCEPT ![t] = q], P)
<1> DEFINE p == P[t]
           V == [W EXCEPT ![t] = q]
           h == m.wait[q][p]
           n == [m.next EXCEPT ![t] = h]
           v == [u \in Thread |-> CASE u = t -> NULL [] u = h -> t [] OTHER -> m.prev[u]]
           f == [m.wait EXCEPT ![q][p] = t]
           c == [m.waitBits EXCEPT ![q] = @ \cup {p}]
           z == WaitInsert(m, q, t, p)
<1>1. PICK rank : Placed(m, R, W, P, rank)
  BY DEF Linked
<1> DEFINE k == [rank EXCEPT ![t] = IF h = NULL THEN 0 ELSE rank[h] - 1]
<1>2. /\ m.next \in [Thread -> Link] /\ m.prev \in [Thread -> Link]
      /\ m.ready \in [Prio -> Link] /\ m.bits \in SUBSET Prio
      /\ m.wait \in [Queue -> [Prio -> Link]] /\ m.waitBits \in [Queue -> SUBSET Prio]
      /\ R \subseteq Thread /\ t \in Thread /\ t \notin R /\ p \in Prio
      /\ W \in [Thread -> Queue \cup {NULL}] /\ P \in [Thread -> Prio]
      /\ rank \in [Thread -> Int]
      /\ Rings(m.next, m.prev, m.ready, R, P, rank)
      /\ Lines(m.next, m.prev, m.wait, W, P, rank)
      /\ \A u \in R : W[u] = NULL
      /\ \A u \in Thread \ R : W[u] = NULL => m.next[u] = NULL /\ m.prev[u] = NULL
      /\ \A x \in Prio : x \in m.bits <=> m.ready[x] # NULL
      /\ \A y \in Queue, x \in Prio : x \in m.waitBits[y] <=> m.wait[y][x] # NULL
      /\ NULL \notin Thread /\ NULL \notin Queue /\ NULL \in Link /\ NULL \notin R
  BY <1>1, PlacedMeans
<1>L. /\ W \in [Thread -> Queue \cup {NULL}] /\ P \in [Thread -> Prio]
      /\ m.next \in [Thread -> Link] /\ m.prev \in [Thread -> Link]
      /\ m.wait \in [Queue -> [Prio -> Link]]
      /\ Lines(m.next, m.prev, m.wait, W, P, rank)
  BY <1>1, PlacedMeans
<1>R. /\ R \subseteq Thread /\ P \in [Thread -> Prio] /\ rank \in [Thread -> Int]
      /\ m.next \in [Thread -> Link] /\ m.prev \in [Thread -> Link]
      /\ m.ready \in [Prio -> Link]
      /\ Rings(m.next, m.prev, m.ready, R, P, rank)
  BY <1>1, PlacedMeans
<1>3. /\ z \in Lists
      /\ z.next = n /\ z.prev = v /\ z.ready = m.ready /\ z.bits = m.bits
      /\ z.wait = f /\ z.waitBits = c
  <2>1. m \in Lists /\ p \in Prio
    BY <1>1, <1>2 DEF Placed
  <2> HIDE DEF z, p
  <2>2. z = WaitInsert(m, q, t, p)
    BY DEF z
  <2>. QED
    BY <2>1, <2>2, WaitInsertWrites DEF p
<1> HIDE DEF z
<1>4. /\ V \in [Thread -> Queue \cup {NULL}] /\ V[t] = q
      /\ \A u \in Thread : u # t => V[u] = W[u]
      /\ h \in Link /\ h # t /\ (h # NULL => W[h] = q)
  BY <1>2 DEF Lines
<1>5. /\ n \in [Thread -> Link] /\ v \in [Thread -> Link]
      /\ f \in [Queue -> [Prio -> Link]] /\ c \in [Queue -> SUBSET Prio]
      /\ \A u \in Thread : n[u] = IF u = t THEN h ELSE m.next[u]
      /\ \A u \in Thread : v[u] = IF u = t THEN NULL ELSE IF u = h THEN t ELSE m.prev[u]
      /\ \A x \in Queue, y \in Prio : f[x][y] = IF x = q /\ y = P[t] THEN t ELSE m.wait[x][y]
      /\ \A x \in Queue, y \in Prio : y \in c[x] <=> (x = q /\ y = p) \/ y \in m.waitBits[x]
  BY <1>2, <1>4 DEF Link
<1>6. k \in [Thread -> Int] /\ \A u \in Thread : u # t => k[u] = rank[u]
  <2>1. h # NULL => h \in Thread /\ rank[h] \in Int
    BY <1>2, <1>4 DEF Link
  <2>. QED
    BY <1>2, <2>1
<1>8. Lines(n, v, f, V, P, k)
  <2>1. /\ Adds(Waiting(V), t, NULL, h, n, v, m.next, m.prev)
        /\ h = m.wait[q][P[t]]
    BY <1>2, <1>4, <1>5 DEF Adds, Waiting
  <2>2. Enqueues(V, k, f, W, rank, m.wait, P, t, q)
    BY <1>5 DEF Enqueues
  <2>3. rank \in [Thread -> Int] /\ t \in Thread
    BY <1>2
  <2> HIDE DEF n, v, f, c, k, h, V
  <2>. QED
    BY <1>L, <2>1, <2>2, <2>3, LineWith
<1> HIDE DEF n, v, f, c, k, V
<1>9. Rings(n, v, m.ready, R, P, k)
  <2>1. Keeps(R, n, v, P, k, m.next, m.prev, P, rank)
    BY <1>2, <1>4, <1>5, <1>6 DEF Keeps, Waiting
  <2>. QED
    BY <1>R, <2>1, SameRings
<1>10. Placed(z, R, V, P, k)
  <2>1. /\ \A u \in R : V[u] = NULL
        /\ \A u \in Thread \ R : V[u] = NULL => n[u] = NULL /\ v[u] = NULL
    BY <1>2, <1>4, <1>5
  <2>2. \A y \in Queue, x \in Prio : x \in c[y] <=> f[y][x] # NULL
    BY <1>2, <1>5
  <2>. QED
    BY <1>2, <1>3, <1>4, <1>6, <1>8, <1>9, <2>1, <2>2 DEF Placed
<1>. QED
  BY <1>10 DEF Linked, V, z

\* wait_queue_remove takes a task that waits in q out of its list.
LEMMA LeavesQueue ==
    ASSUME NEW m, NEW R, NEW W, NEW P, Linked(m, R, W, P),
           NEW t \in Thread, NEW q \in Queue, W[t] = q
    PROVE  Linked(WaitRemove(m, q, t, P[t]), R, [W EXCEPT ![t] = NULL], P)
<1> DEFINE p == P[t]
           V == [W EXCEPT ![t] = NULL]
           a == m.prev[t]
           b == m.next[t]
           x == IF a = NULL THEN b ELSE m.wait[q][p]
           n == [u \in Thread |-> CASE u = t -> NULL [] u = a -> b [] OTHER -> m.next[u]]
           v == [u \in Thread |-> CASE u = t -> NULL [] u = b -> a [] OTHER -> m.prev[u]]
           f == [m.wait EXCEPT ![q][p] = x]
           c == [m.waitBits EXCEPT ![q] = IF x = NULL THEN @ \ {p} ELSE @]
           z == WaitRemove(m, q, t, p)
<1>1. PICK rank : Placed(m, R, W, P, rank)
  BY DEF Linked
<1>2. /\ m.next \in [Thread -> Link] /\ m.prev \in [Thread -> Link]
      /\ m.wait \in [Queue -> [Prio -> Link]] /\ m.waitBits \in [Queue -> SUBSET Prio]
      /\ R \subseteq Thread /\ t \notin R /\ p \in Prio
      /\ W \in [Thread -> Queue \cup {NULL}] /\ P \in [Thread -> Prio]
      /\ rank \in [Thread -> Int]
      /\ Rings(m.next, m.prev, m.ready, R, P, rank)
      /\ Lines(m.next, m.prev, m.wait, W, P, rank)
      /\ \A u \in R : W[u] = NULL
      /\ \A u \in Thread \ R : W[u] = NULL => m.next[u] = NULL /\ m.prev[u] = NULL
      /\ \A y \in Prio : y \in m.bits <=> m.ready[y] # NULL
      /\ \A w \in Queue, y \in Prio : y \in m.waitBits[w] <=> m.wait[w][y] # NULL
      /\ NULL \notin Thread /\ NULL \notin Queue /\ NULL \in Link /\ NULL \notin R
  BY <1>1, PlacedMeans
<1>L. /\ W \in [Thread -> Queue \cup {NULL}] /\ P \in [Thread -> Prio]
      /\ rank \in [Thread -> Int]
      /\ m.next \in [Thread -> Link] /\ m.prev \in [Thread -> Link]
      /\ m.wait \in [Queue -> [Prio -> Link]]
      /\ Lines(m.next, m.prev, m.wait, W, P, rank)
  BY <1>1, PlacedMeans
<1>R. Rings(m.next, m.prev, m.ready, R, P, rank)
  BY <1>1, PlacedMeans
<1>3. /\ z \in Lists
      /\ z.next = n /\ z.prev = v /\ z.ready = m.ready /\ z.bits = m.bits
      /\ z.wait = f /\ z.waitBits = c
  <2>1. m \in Lists /\ p \in Prio
    BY <1>1, <1>2 DEF Placed
  <2> HIDE DEF z, p
  <2>2. z = WaitRemove(m, q, t, p)
    BY DEF z
  <2>. QED
    BY <2>1, <2>2, WaitRemoveWrites DEF p
<1> HIDE DEF z
<1>4. /\ V \in [Thread -> Queue \cup {NULL}] /\ V[t] = NULL
      /\ \A u \in Thread : u # t => V[u] = W[u]
      /\ a # NULL => a \in Thread /\ W[a] = q
      /\ b # NULL => b \in Thread /\ W[b] = q
      /\ a # t /\ b # t
      /\ m.wait[q][p] # NULL
  <2>1. a \in Thread \cup {NULL} /\ b \in Thread \cup {NULL}
    BY <1>2 DEF Link
  <2>2. /\ b # NULL => W[b] = W[t] /\ rank[t] < rank[b]
        /\ a # NULL => W[a] = W[t] /\ m.next[a] = t
        /\ m.wait[q][p] # NULL
    BY <1>2 DEF Lines
  <2>3. a # NULL => rank[a] < rank[t]
    BY <1>2, <2>1, <2>2 DEF Lines
  <2>4. rank[t] \in Int
    BY <1>2
  <2>. QED
    BY <1>2, <2>1, <2>2, <2>3, <2>4
<1>5. /\ \A u \in Thread : n[u] = IF u = t THEN NULL ELSE IF u = a THEN b ELSE m.next[u]
      /\ \A u \in Thread : v[u] = IF u = t THEN NULL ELSE IF u = b THEN a ELSE m.prev[u]
      /\ \A w \in Queue, y \in Prio : f[w][y] = IF w = q /\ y = p THEN x ELSE m.wait[w][y]
      /\ \A w \in Queue, y \in Prio :
            y \in c[w] <=> y \in m.waitBits[w] /\ ~(w = q /\ y = p /\ x = NULL)
  <2>1. /\ \A u \in Thread : n[u] = IF u = t THEN NULL ELSE IF u = a THEN b ELSE m.next[u]
        /\ \A u \in Thread : v[u] = IF u = t THEN NULL ELSE IF u = b THEN a ELSE m.prev[u]
    BY <1>2, <1>4
  <2> HIDE DEF x
  <2>2. \A w \in Queue, y \in Prio : f[w][y] = IF w = q /\ y = p THEN x ELSE m.wait[w][y]
    BY <1>2
  <2>3. \A w \in Queue, y \in Prio :
            y \in c[w] <=> y \in m.waitBits[w] /\ ~(w = q /\ y = p /\ x = NULL)
    BY <1>2
  <2>. QED
    BY <2>1, <2>2, <2>3
<1>6. Lines(n, v, f, V, P, rank)
  <2>1. Drops(Waiting(V), t, n, v, m.next, m.prev)
    BY <1>2, <1>4, <1>5 DEF Drops, Waiting
  <2>2. Dequeues(V, f, W, m.wait, P, t, m.next, m.prev)
    <3>1. \A w \in Queue, y \in Prio : w = q /\ y = p /\ a # NULL => x = m.wait[w][y]
      BY DEF x
    <3>. QED
      BY <1>5, <3>1 DEF Dequeues
  <2> HIDE DEF n, v, f, c, V, a, b, x
  <2>. QED
    BY <1>L, <2>1, <2>2, LineWithout
<1> HIDE DEF n, v, f, c, V
<1>7. Rings(n, v, m.ready, R, P, rank)
  <2>1. Keeps(R, n, v, P, rank, m.next, m.prev, P, rank)
    BY <1>2, <1>4, <1>5 DEF Keeps
  <2>. QED
    BY <1>R, <2>1, SameRings
<1>8. /\ \A u \in R : V[u] = NULL
      /\ \A u \in Thread \ R : V[u] = NULL => n[u] = NULL /\ v[u] = NULL
  BY <1>2, <1>4, <1>5
<1>9. \A w \in Queue, y \in Prio : y \in c[w] <=> f[w][y] # NULL
  BY <1>2, <1>4, <1>5
<1>10. Placed(z, R, V, P, rank)
  BY <1>2, <1>3, <1>4, <1>6, <1>7, <1>8, <1>9 DEF Placed
<1>. QED
  BY <1>10 DEF Linked, V, z

\* wait_queue_remove, applied to a queue in which the task does not wait, does no
\* harm if the task is linked nowhere and nobody of its priority is in the queue.
LEMMA LeavesNothing ==
    ASSUME NEW m, NEW R, NEW W, NEW P, Linked(m, R, W, P),
           NEW t \in Thread, m.next[t] = NULL, m.prev[t] = NULL,
           NEW q \in Queue, \A u \in Thread : W[u] = q => P[u] # P[t]
    PROVE  WaitRemove(m, q, t, P[t]) = m
<1> DEFINE p == P[t]
           z == WaitRemove(m, q, t, p)
<1>1. PICK rank : Placed(m, R, W, P, rank)
  BY DEF Linked
<1>2. /\ m \in Lists
      /\ m.next \in [Thread -> Link] /\ m.prev \in [Thread -> Link]
      /\ m.wait \in [Queue -> [Prio -> Link]] /\ m.waitBits \in [Queue -> SUBSET Prio]
      /\ p \in Prio /\ NULL \notin Queue /\ NULL \notin Thread
      /\ Lines(m.next, m.prev, m.wait, W, P, rank)
      /\ \A x \in Queue, y \in Prio : y \in m.waitBits[x] <=> m.wait[x][y] # NULL
  <2>1. m \in Lists /\ p \in Prio
    BY <1>1 DEF Placed
  <2>. QED
    BY <1>1, <2>1, PlacedMeans
<1>3. m.wait[q][p] = NULL /\ p \notin m.waitBits[q]
  <2>1. m.wait[q][p] # NULL => W[m.wait[q][p]] = q /\ P[m.wait[q][p]] = p
    BY <1>2 DEF Lines
  <2>2. m.wait[q][p] \in Link
    BY <1>2
  <2>3. m.wait[q][p] = NULL
    BY <2>1, <2>2 DEF Link
  <2>. QED
    BY <1>2, <2>3
<1> HIDE DEF p
<1> DEFINE a == m.prev[t]
           b == m.next[t]
           x == IF a = NULL THEN b ELSE m.wait[q][p]
<1>0. a = NULL /\ b = NULL /\ x = NULL
  OBVIOUS
<1>4. /\ z = WaitRemove(m, q, t, p) /\ a = m.prev[t] /\ b = m.next[t]
      /\ x = IF a = NULL THEN b ELSE m.wait[q][p]
  OBVIOUS
<1> HIDE DEF a, b, x, z
<1>5. /\ z \in Lists
      /\ z.next = [u \in Thread |-> CASE u = t -> NULL [] u = a -> b
                                     [] OTHER -> m.next[u]]
      /\ z.prev = [u \in Thread |-> CASE u = t -> NULL [] u = b -> a
                                     [] OTHER -> m.prev[u]]
      /\ z.ready = m.ready /\ z.bits = m.bits
      /\ z.wait = [m.wait EXCEPT ![q][p] = x]
      /\ z.waitBits = [m.waitBits EXCEPT ![q] = IF x = NULL THEN @ \ {p} ELSE @]
  <2>1. m \in Lists /\ p \in Prio
    BY <1>2
  <2>. QED
    BY <1>4, <2>1, WaitRemoveWrites
<1>6. /\ z.next \in [Thread -> Link] /\ z.prev \in [Thread -> Link]
      /\ z.wait \in [Queue -> [Prio -> Link]] /\ z.waitBits \in [Queue -> SUBSET Prio]
      /\ z = [next |-> z.next, prev |-> z.prev, ready |-> z.ready,
              bits |-> z.bits, wait |-> z.wait, waitBits |-> z.waitBits]
      /\ m = [next |-> m.next, prev |-> m.prev, ready |-> m.ready,
              bits |-> m.bits, wait |-> m.wait, waitBits |-> m.waitBits]
  <2>1. \A l \in Lists :
          /\ l.next \in [Thread -> Link] /\ l.prev \in [Thread -> Link]
          /\ l.wait \in [Queue -> [Prio -> Link]] /\ l.waitBits \in [Queue -> SUBSET Prio]
          /\ l = [next |-> l.next, prev |-> l.prev, ready |-> l.ready,
                  bits |-> l.bits, wait |-> l.wait, waitBits |-> l.waitBits]
    BY DEF Lists
  <2>2. z \in Lists /\ m \in Lists
    BY <1>2, <1>5
  <2>. QED
    BY <2>1, <2>2
<1>7. z.next = m.next /\ z.prev = m.prev
  <2>1. \A u \in Thread : z.next[u] = m.next[u] /\ z.prev[u] = m.prev[u]
    BY <1>2, <1>0, <1>5
  <2>. QED
    BY <1>2, <1>6, <2>1
<1>8. z.wait = m.wait
  <2>1. \A w \in Queue : \A y \in Prio : z.wait[w][y] = m.wait[w][y]
    BY <1>2, <1>3, <1>0, <1>5
  <2>2. \A w \in Queue : z.wait[w] = m.wait[w]
    BY <1>2, <1>6, <2>1
  <2>. QED
    BY <1>2, <1>6, <2>2
<1>9. z.waitBits = m.waitBits
  <2>1. m.waitBits[q] \ {p} = m.waitBits[q]
    BY <1>3
  <2>2. \A w \in Queue : z.waitBits[w] = m.waitBits[w]
    BY <1>2, <1>0, <1>5, <2>1
  <2>. QED
    BY <1>2, <1>6, <2>2
<1>. QED
  BY <1>5, <1>6, <1>7, <1>8, <1>9 DEF p, z

\* flyos_ipc_remove_task_from_wait_list tries two wait queues of an object.  It
\* does what it should for a task in the one it tries first; for a task in the
\* other one it does so if the task is alone in its list.
LEMMA LeavesOneOfTwo ==
    ASSUME NEW m, NEW R, NEW W, NEW P, Linked(m, R, W, P),
           NEW t \in Thread \ R, NEW q \in Queue, W[t] = q,
           NEW r \in Queue, \A u \in Thread : W[u] = r => P[u] # P[t]
    PROVE  /\ WaitRemove(WaitRemove(m, q, t, P[t]), r, t, P[t]) = WaitRemove(m, q, t, P[t])
           /\ (\A u \in Thread \ {t} : W[u] = q => P[u] # P[t])
              => WaitRemove(WaitRemove(m, r, t, P[t]), q, t, P[t]) = WaitRemove(m, q, t, P[t])
<1>1. PICK rank : Placed(m, R, W, P, rank)
  BY DEF Linked
<1>2. /\ m.next \in [Thread -> Link] /\ m.prev \in [Thread -> Link]
      /\ W \in [Thread -> Queue \cup {NULL}] /\ rank \in [Thread -> Int]
      /\ NULL \notin Queue /\ q # NULL
      /\ Lines(m.next, m.prev, m.wait, W, P, rank)
  BY <1>1, PlacedMeans, IpcAssumption DEF Placed
<1>3. WaitRemove(WaitRemove(m, q, t, P[t]), r, t, P[t]) = WaitRemove(m, q, t, P[t])
  <2> DEFINE z == WaitRemove(m, q, t, P[t])
             V == [W EXCEPT ![t] = NULL]
  <2>1. Linked(z, R, V, P)
    BY LeavesQueue
  <2>2. V[t] = NULL /\ \A u \in Thread : V[u] = r => P[u] # P[t]
    BY <1>2
  <2> HIDE DEF z, V
  <2>3. z.next[t] = NULL /\ z.prev[t] = NULL
    BY <2>1, <2>2 DEF Linked, Placed
  <2>4. WaitRemove(z, r, t, P[t]) = z
    BY <2>1, <2>2, <2>3, LeavesNothing
  <2>. QED
    BY <2>4 DEF z
<1>4. ASSUME \A u \in Thread \ {t} : W[u] = q => P[u] # P[t]
      PROVE  WaitRemove(WaitRemove(m, r, t, P[t]), q, t, P[t]) = WaitRemove(m, q, t, P[t])
  <2>1. m.next[t] = NULL
    <3>1. SUFFICES ASSUME m.next[t] # NULL PROVE FALSE
      OBVIOUS
    <3>2. /\ m.next[t] \in Thread
          /\ W[m.next[t]] = q /\ P[m.next[t]] = P[t] /\ rank[t] < rank[m.next[t]]
      BY <1>2, <3>1 DEF Lines, Link
    <3>3. m.next[t] # t
      BY <1>2, <3>2
    <3>. QED
      BY <1>4, <3>2, <3>3
  <2>2. m.prev[t] = NULL
    <3>1. SUFFICES ASSUME m.prev[t] # NULL PROVE FALSE
      OBVIOUS
    <3>2. /\ m.prev[t] \in Thread
          /\ W[m.prev[t]] = q /\ P[m.prev[t]] = P[t] /\ m.next[m.prev[t]] = t
      BY <1>2, <3>1 DEF Lines, Link
    <3>3. m.prev[t] # t
      BY <2>1, <3>2, IpcAssumption
    <3>. QED
      BY <1>4, <3>2, <3>3
  <2>3. WaitRemove(m, r, t, P[t]) = m
    BY <2>1, <2>2, LeavesNothing
  <2>. QED
    BY <2>3
<1>. QED
  BY <1>3, <1>4

\* wait_queue_init of a queue in which nobody waits.
LEMMA NewQueue ==
    ASSUME NEW m, NEW R, NEW W, NEW P, Linked(m, R, W, P),
           NEW q \in Queue, \A t \in Thread : W[t] # q
    PROVE  Linked(WaitInit(m, q), R, W, P)
<1> DEFINE z == WaitInit(m, q)
           f == [m.wait EXCEPT ![q] = [p \in Prio |-> NULL]]
           c == [m.waitBits EXCEPT ![q] = {}]
<1>1. PICK rank : Placed(m, R, W, P, rank)
  BY DEF Linked
<1>2. /\ m.wait \in [Queue -> [Prio -> Link]] /\ m.waitBits \in [Queue -> SUBSET Prio]
      /\ m = [next |-> m.next, prev |-> m.prev, ready |-> m.ready,
              bits |-> m.bits, wait |-> m.wait, waitBits |-> m.waitBits]
      /\ \A w \in Queue, y \in Prio : y \in m.waitBits[w] <=> m.wait[w][y] # NULL
      /\ W \in [Thread -> Queue \cup {NULL}] /\ P \in [Thread -> Prio]
      /\ m.next \in [Thread -> Link] /\ m.prev \in [Thread -> Link]
      /\ Lines(m.next, m.prev, m.wait, W, P, rank) /\ NULL \in Link
  BY <1>1, PlacedMeans
<1>3. f \in [Queue -> [Prio -> Link]] /\ c \in [Queue -> SUBSET Prio]
  BY <1>2
<1>4. /\ z.next = m.next /\ z.prev = m.prev /\ z.ready = m.ready /\ z.bits = m.bits
      /\ z.wait = f /\ z.waitBits = c
  BY <1>2 DEF WaitInit
<1>5. z \in Lists
  BY <1>1, <1>3 DEF WaitInit, Placed, Lists
<1>6. /\ \A w \in Queue : w # q => f[w] = m.wait[w] /\ c[w] = m.waitBits[w]
      /\ \A y \in Prio : f[q][y] = NULL
      /\ c[q] = {}
  BY <1>2
<1> HIDE DEF z, f, c
<1>7. Lines(m.next, m.prev, f, W, P, rank)
  <2>1. ASSUME NEW t \in Thread, W[t] # NULL
        PROVE  f[W[t]] = m.wait[W[t]] /\ W[t] \in Queue /\ W[t] # q
    BY <1>2, <1>6, <2>1
  <2>2. ASSUME NEW w \in Queue, NEW y \in Prio
        PROVE  /\ f[w][y] # NULL => W[f[w][y]] = w /\ P[f[w][y]] = y
               /\ \A u \in Thread : W[u] = w /\ P[u] = y =>
                     f[w][y] # NULL /\ rank[f[w][y]] <= rank[u]
    BY <1>2, <1>6 DEF Lines
  <2>3. ASSUME NEW t \in Thread, W[t] # NULL
        PROVE  m.prev[t] = NULL <=> f[W[t]][P[t]] = t
    BY <1>2, <2>1, <2>3 DEF Lines
  <2>. QED
    BY <1>2, <2>2, <2>3 DEF Lines
<1>8. \A w \in Queue, y \in Prio : y \in c[w] <=> f[w][y] # NULL
  BY <1>2, <1>6
<1>9. Placed(z, R, W, P, rank)
  BY <1>1, <1>4, <1>5, <1>7, <1>8 DEF Placed
<1>. QED
  BY <1>9 DEF Linked, z

\* At the end of a slice the ring of a task that is READY turns.
LEMMA RingTurns ==
    ASSUME NEW m, NEW R, NEW W, Linked(m, R, W, prio), NEW c \in R
    PROVE  Linked(Rotated(m, c), R, W, prio)
<1> DEFINE r == [m.ready EXCEPT ![prio[c]] = m.next[c]]
           z == Rotated(m, c)
<1>1. PICK rank : Placed(m, R, W, prio, rank)
  BY DEF Linked
<1>2. /\ m.next \in [Thread -> Link] /\ m.prev \in [Thread -> Link]
      /\ m.ready \in [Prio -> Link]
      /\ m = [next |-> m.next, prev |-> m.prev, ready |-> m.ready,
              bits |-> m.bits, wait |-> m.wait, waitBits |-> m.waitBits]
      /\ R \subseteq Thread /\ prio \in [Thread -> Prio] /\ rank \in [Thread -> Int]
      /\ W \in [Thread -> Queue \cup {NULL}]
      /\ Rings(m.next, m.prev, m.ready, R, prio, rank)
      /\ \A u \in R : W[u] = NULL
      /\ \A x \in Prio : x \in m.bits <=> m.ready[x] # NULL
      /\ NULL \notin R
      /\ \A u \in R : m.next[u] \in R /\ m.prev[u] \in R
  BY <1>1, PlacedMeans
<1>L. /\ m.wait \in [Queue -> [Prio -> Link]]
      /\ m.next \in [Thread -> Link] /\ m.prev \in [Thread -> Link]
      /\ W \in [Thread -> Queue \cup {NULL}] /\ prio \in [Thread -> Prio]
      /\ Lines(m.next, m.prev, m.wait, W, prio, rank)
  BY <1>1, PlacedMeans
<1>3. CASE m.next[c] = c
  BY <1>2, <1>3 DEF Rotated
<1>4. CASE m.next[c] # c
  <2>1. /\ z.next = m.next /\ z.prev = m.prev /\ z.ready = r /\ z.bits = m.bits
        /\ z.wait = m.wait /\ z.waitBits = m.waitBits
    BY <1>2, <1>4 DEF Rotated
  <2>2. r \in [Prio -> Link]
    BY <1>2
  <2>3. z \in Lists
    BY <1>1, <1>2, <1>4, <2>2 DEF Rotated, Placed, Lists
  <2>4. \A x \in Prio : x \in m.bits <=> r[x] # NULL
    BY <1>2 DEF Rings
  <2> HIDE DEF z
  <2>5. PICK j \in [Thread -> Int] : Rings(m.next, m.prev, r, R, prio, j)
    BY <1>2, RingTurned
  <2> DEFINE k == [u \in Thread |-> IF u \in R THEN j[u] ELSE rank[u]]
  <2>6. k \in [Thread -> Int]
    BY <1>2, <2>5
  <2>7. Rings(m.next, m.prev, r, R, prio, k)
    <3>1. Keeps(R, m.next, m.prev, prio, k, m.next, m.prev, prio, j)
      BY <1>2 DEF Keeps
    <3> HIDE DEF k, r
    <3>. QED
      BY <2>5, <3>1, SameRings
  <2>8. Lines(m.next, m.prev, m.wait, W, prio, k)
    <3>1. Keeps(Waiting(W), m.next, m.prev, prio, k, m.next, m.prev, prio, rank)
      BY <1>2 DEF Keeps, Waiting
    <3> HIDE DEF k, r
    <3>. QED
      BY <1>L, <3>1, SameLines
  <2> HIDE DEF k, r
  <2>9. Placed(z, R, W, prio, k)
    BY <1>1, <2>1, <2>3, <2>4, <2>6, <2>7, <2>8 DEF Placed
  <2>. QED
    BY <2>9 DEF Linked, z
<1>. QED
  BY <1>3, <1>4

-----------------------------------------------------------------------------
(* The most urgent task                                                    *)

\* find_highest_priority finds the smallest number in the bitmap.
LEMMA HighestFacts ==
    ASSUME NEW b, b \subseteq Prio, b # {}
    PROVE  Highest(b) \in b /\ \A q \in b : Highest(b) <= q
<1>1. b \subseteq Nat
  BY IpcAssumption DEF Prio
<1>2. \E p \in b : \A q \in b : p <= q
  BY <1>1, Smallest
<1>. QED
  BY <1>2 DEF Highest

\* The task the scheduler would run is a most urgent READY task.
LEMMA NextFacts ==
    ASSUME NEW m, NEW R, NEW W, NEW P, Linked(m, R, W, P)
    PROVE  /\ NextTask(m) # NULL => NextTask(m) \in R
           /\ \A u \in R : NextTask(m) # NULL /\ P[NextTask(m)] <= P[u]
<1> DEFINE h == Highest(m.bits)
<1>1. PICK rank : Placed(m, R, W, P, rank)
  BY DEF Linked
<1>2. /\ m.bits \in SUBSET Prio /\ m.ready \in [Prio -> Link]
      /\ R \subseteq Thread /\ P \in [Thread -> Prio]
      /\ Rings(m.next, m.prev, m.ready, R, P, rank)
      /\ \A x \in Prio : x \in m.bits <=> m.ready[x] # NULL
  BY <1>1, PlacedMeans
<1>3. h \in Prio
  <2>1. CASE m.bits = {}
    BY <2>1, IpcAssumption DEF Highest, Prio
  <2>2. CASE m.bits # {}
    BY <1>2, <2>2, HighestFacts
  <2>. QED
    BY <2>1, <2>2
<1> HIDE DEF h
<1>4. NextTask(m) = m.ready[h]
  BY DEF NextTask, h
<1>5. ASSUME NEW u \in R
      PROVE  NextTask(m) # NULL /\ P[NextTask(m)] <= P[u]
  <2>1. P[u] \in m.bits
    BY <1>2, <1>5 DEF Rings
  <2>2. h \in m.bits /\ h <= P[u]
    BY <1>2, <2>1, HighestFacts DEF h
  <2>3. m.ready[h] # NULL /\ P[m.ready[h]] = h
    BY <1>2, <1>3, <2>2 DEF Rings
  <2>. QED
    BY <1>4, <2>2, <2>3
<1>6. NextTask(m) # NULL => NextTask(m) \in R
  BY <1>2, <1>3, <1>4 DEF Rings
<1>. QED
  BY <1>5, <1>6

\* The bitmap of a wait queue tells whether somebody waits, and
\* wait_queue_remove_highest finds a most urgent of those who do.
LEMMA WaiterFacts ==
    ASSUME NEW R, NEW W, NEW P, Linked(lists, R, W, P), NEW q \in Queue
    PROVE  /\ HasWaiter(q) <=> \E t \in Thread : W[t] = q
           /\ HasWaiter(q) =>
                 /\ HighestWaiter(q) \in Thread /\ W[HighestWaiter(q)] = q
                 /\ \A u \in Thread : W[u] = q => P[HighestWaiter(q)] <= P[u]
<1> DEFINE b == lists.waitBits[q]
           h == Highest(b)
<1>1. PICK rank : Placed(lists, R, W, P, rank)
  BY DEF Linked
<1>2. /\ b \subseteq Prio /\ lists.wait \in [Queue -> [Prio -> Link]]
      /\ W \in [Thread -> Queue \cup {NULL}] /\ P \in [Thread -> Prio]
      /\ Lines(lists.next, lists.prev, lists.wait, W, P, rank)
      /\ \A x \in Prio : x \in b <=> lists.wait[q][x] # NULL
      /\ NULL \notin Queue
  BY <1>1, PlacedMeans
<1> HIDE DEF b
<1>3. ASSUME NEW x \in b
      PROVE  /\ lists.wait[q][x] \in Thread /\ W[lists.wait[q][x]] = q
             /\ P[lists.wait[q][x]] = x
  BY <1>2, <1>3 DEF Lines, Link
<1>4. ASSUME NEW t \in Thread, W[t] = q
      PROVE  P[t] \in b
  BY <1>2, <1>4 DEF Lines
<1>5. HasWaiter(q) <=> b # {}
  BY DEF HasWaiter, b
<1>6. ASSUME b # {}
      PROVE  h \in b /\ \A x \in b : h <= x
  BY <1>2, <1>6, HighestFacts
<1>7. HighestWaiter(q) = lists.wait[q][h]
  BY DEF HighestWaiter, b
<1> HIDE DEF h
<1>. QED
  BY <1>3, <1>4, <1>5, <1>6, <1>7

-----------------------------------------------------------------------------
(* The delta queue                                                         *)

\* The queue q is in the order of the ticks l that its tasks have left.
GoodQueue(q, l) ==
    /\ q \in Seq(Thread)
    /\ NoDuplicates(q)
    /\ \A i, j \in 1..Len(q) : i < j => l[q[i]] <= l[q[j]]

\* The order does not depend on the ticks of tasks outside the queue.
LEMMA SameTicks ==
    ASSUME NEW q, NEW l, NEW m, GoodQueue(q, l), \A t \in ToSet(q) : m[t] = l[t]
    PROVE  GoodQueue(q, m)
<1>1. \A i \in 1..Len(q) : q[i] \in ToSet(q)
  BY ListFacts DEF GoodQueue
<1>2. QED
  BY <1>1 DEF GoodQueue

\* flyos_delta_queue_remove keeps the order and takes out one task.
LEMMA Waking ==
    ASSUME GoodQueue(dq, left), NEW t
    PROVE  /\ GoodQueue(QueueWithout(t), left)
           /\ \A u : u \in ToSet(QueueWithout(t)) <=> u \in ToSet(dq) /\ u # t
<1> DEFINE k == CHOOSE i \in 1..Len(dq) : dq[i] = t
           q == RemoveAt(dq, k)
<1>1. /\ dq \in Seq(Thread)
      /\ NoDuplicates(dq)
      /\ \A i, j \in 1..Len(dq) : i < j => left[dq[i]] <= left[dq[j]]
  BY DEF GoodQueue
<1>2. CASE t \in ToSet(dq)
  <2>1. k \in 1..Len(dq) /\ Len(dq) \in Nat /\ dq[k] = t
    BY <1>1, <1>2, ListFacts
  <2> HIDE DEF k
  <2>2. /\ q \in Seq(Thread)
        /\ Len(q) = Len(dq) - 1
        /\ \A i \in 1..(Len(dq) - 1) : q[i] = IF i < k THEN dq[i] ELSE dq[i + 1]
    BY <1>1, <2>1, RemoveAtProperties
  <2>3. ToSet(q) = ToSet(dq) \ {t} /\ NoDuplicates(q)
    BY <1>1, <2>1, RemoveAtElements
  <2> HIDE DEF q
  <2>4. ASSUME NEW i \in 1..Len(q), NEW j \in 1..Len(q), i < j
        PROVE  left[q[i]] <= left[q[j]]
    <3> DEFINE m(n) == IF n < k THEN n ELSE n + 1
    <3>1. q[i] = dq[m(i)] /\ q[j] = dq[m(j)]
      BY <2>2
    <3>2. m(i) \in 1..Len(dq) /\ m(j) \in 1..Len(dq) /\ m(i) < m(j)
      BY <2>1, <2>2, <2>4
    <3> HIDE DEF m
    <3>3. QED
      BY <1>1, <3>1, <3>2
  <2>5. QueueWithout(t) = q
    BY <1>2 DEF QueueWithout, q, k
  <2>6. QED
    BY <2>2, <2>3, <2>4, <2>5 DEF GoodQueue
<1>3. CASE t \notin ToSet(dq)
  BY <1>3 DEF QueueWithout
<1>4. QED
  BY <1>2, <1>3

\* The search of flyos_delta_queue_insert stops between the tasks that fall due
\* no later and those that fall due later.
LEMMA DelayPlaceFacts ==
    ASSUME GoodQueue(dq, left), left \in [Thread -> Nat], NEW n \in Nat
    PROVE  /\ DelayPlace(n) \in 1..(Len(dq) + 1)
           /\ \A i \in 1..Len(dq) :
                 IF i < DelayPlace(n) THEN left[dq[i]] <= n ELSE left[dq[i]] > n
<1> DEFINE T == {i \in 1..(Len(dq) + 1) : i <= Len(dq) => left[dq[i]] > n}
           P(k) == /\ \A i \in 1..(k - 1) : left[dq[i]] <= n
                   /\ k <= Len(dq) => left[dq[k]] > n
<1>1. /\ Len(dq) \in Nat
      /\ \A i \in 1..Len(dq) : dq[i] \in Thread
      /\ \A i, j \in 1..Len(dq) : i < j => left[dq[i]] <= left[dq[j]]
  BY ListFacts DEF GoodQueue
<1>2. \A i \in 1..Len(dq) : left[dq[i]] \in Nat
  BY <1>1
<1>3. T \subseteq Nat /\ Len(dq) + 1 \in T
  BY <1>1
<1>4. PICK k \in T : \A j \in T : k <= j
  BY <1>3, Smallest
<1>5. P(k)
  <2>1. ASSUME NEW i \in 1..(k - 1) PROVE left[dq[i]] <= n
    <3>1. i \in 1..Len(dq) /\ i \notin T
      BY <1>1, <1>4
    <3>2. ~(left[dq[i]] > n)
      BY <1>1, <3>1
    <3>3. QED
      BY <1>2, <3>1, <3>2
  <2>2. QED
    BY <1>1, <2>1
<1> DEFINE d == DelayPlace(n)
<1>6. d \in 1..(Len(dq) + 1) /\ P(d)
  BY <1>4, <1>5 DEF DelayPlace
<1> HIDE DEF d, T
<1>7. ASSUME NEW i \in 1..Len(dq)
      PROVE  IF i < d THEN left[dq[i]] <= n ELSE left[dq[i]] > n
  <2>1. CASE i < d
    BY <1>1, <1>6, <2>1
  <2>2. CASE i = d
    BY <1>1, <1>6, <2>2
  <2>3. CASE i > d
    <3>1. d \in 1..Len(dq) /\ left[dq[d]] <= left[dq[i]] /\ left[dq[d]] > n
      BY <1>1, <1>6, <2>3
    <3>2. QED
      BY <1>2, <1>6, <2>3, <3>1
  <2>4. QED
    BY <1>6, <2>1, <2>2, <2>3
<1>8. QED
  BY <1>6, <1>7 DEF d

\* Arming a task that is not in the queue puts it at its place in the order.
LEMMA Arming ==
    ASSUME GoodQueue(dq, left), left \in [Thread -> Nat],
           NEW t \in Thread, t \notin ToSet(dq), NEW n \in Nat
    PROVE  /\ GoodQueue(InsertAt(dq, DelayPlace(n), t), [left EXCEPT ![t] = n])
           /\ ToSet(InsertAt(dq, DelayPlace(n), t)) = ToSet(dq) \cup {t}
<1> DEFINE d == DelayPlace(n)
           l == [left EXCEPT ![t] = n]
           r == InsertAt(dq, d, t)
<1>1. /\ dq \in Seq(Thread)
      /\ NoDuplicates(dq)
      /\ Len(dq) \in Nat
      /\ \A i \in 1..Len(dq) : dq[i] \in Thread /\ dq[i] # t
      /\ \A i, j \in 1..Len(dq) : i < j => left[dq[i]] <= left[dq[j]]
  BY ListFacts DEF GoodQueue
<1>2. /\ d \in 1..(Len(dq) + 1)
      /\ \A i \in 1..Len(dq) : IF i < d THEN left[dq[i]] <= n ELSE left[dq[i]] > n
  BY DelayPlaceFacts
<1> HIDE DEF d
<1>3. /\ r \in Seq(Thread)
      /\ Len(r) = Len(dq) + 1
      /\ \A i \in 1..(Len(dq) + 1) :
            r[i] = IF i < d THEN dq[i] ELSE IF i = d THEN t ELSE dq[i - 1]
  BY <1>1, <1>2, InsertAtProperties
<1>4. ToSet(r) = ToSet(dq) \cup {t} /\ NoDuplicates(r)
  <2>1. /\ ToSet(InsertAt(dq, d, t)) = ToSet(dq) \cup {t}
        /\ NoDuplicates(dq) /\ t \notin ToSet(dq) => NoDuplicates(InsertAt(dq, d, t))
    BY <1>1, <1>2, InsertAtElements
  <2>2. QED
    BY <1>1, <2>1
<1> HIDE DEF r
<1>5. l[t] = n /\ \A i \in 1..Len(dq) : l[dq[i]] = left[dq[i]] /\ left[dq[i]] \in Nat
  BY <1>1
<1> HIDE DEF l
<1>6. ASSUME NEW i \in 1..Len(r), NEW j \in 1..Len(r), i < j
      PROVE  l[r[i]] <= l[r[j]]
  <2>0. /\ i \in Int /\ j \in Int /\ i >= 1 /\ i < j /\ j <= Len(dq) + 1
        /\ r[i] = IF i < d THEN dq[i] ELSE IF i = d THEN t ELSE dq[i - 1]
        /\ r[j] = IF j < d THEN dq[j] ELSE IF j = d THEN t ELSE dq[j - 1]
    BY <1>1, <1>3, <1>6
  <2>1. CASE j < d
    <3>1. /\ i \in 1..Len(dq) /\ j \in 1..Len(dq) /\ i < j
          /\ r[i] = dq[i] /\ r[j] = dq[j]
      BY <1>1, <1>2, <2>0, <2>1
    <3>2. QED
      BY <1>1, <1>5, <3>1
  <2>2. CASE j = d
    <3>1. i \in 1..Len(dq) /\ r[i] = dq[i] /\ r[j] = t /\ left[dq[i]] <= n
      BY <1>1, <1>2, <2>0, <2>2
    <3>2. QED
      BY <1>5, <3>1
  <2>3. CASE j > d /\ i = d
    <3>1. j - 1 \in 1..Len(dq) /\ r[j] = dq[j - 1] /\ r[i] = t /\ left[dq[j - 1]] > n
      BY <1>1, <1>2, <2>0, <2>3
    <3>2. QED
      BY <1>5, <3>1
  <2>4. CASE j > d /\ i < d
    <3>1. /\ i \in 1..Len(dq) /\ j - 1 \in 1..Len(dq)
          /\ r[i] = dq[i] /\ r[j] = dq[j - 1]
          /\ i < d /\ ~(j - 1 < d)
      BY <1>1, <1>2, <2>0, <2>4
    <3>2. left[dq[i]] <= n /\ left[dq[j - 1]] > n
      BY <1>2, <3>1
    <3>3. QED
      BY <1>5, <3>1, <3>2
  <2>5. CASE j > d /\ i > d
    <3>1. /\ i - 1 \in 1..Len(dq) /\ j - 1 \in 1..Len(dq) /\ i - 1 < j - 1
          /\ r[i] = dq[i - 1] /\ r[j] = dq[j - 1]
      BY <1>1, <1>2, <2>0, <2>5
    <3>2. QED
      BY <1>1, <1>5, <3>1
  <2>6. QED
    BY <1>2, <2>0, <2>1, <2>2, <2>3, <2>4, <2>5
<1>7. QED
  BY <1>3, <1>4, <1>6 DEF GoodQueue, l, r, d

-----------------------------------------------------------------------------
(* From ranks to sequences                                                 *)

\* The elements of a finite set in the order of their ranks.
LEMMA InOrder ==
    ASSUME NEW S, IsFiniteSet(S), NEW rank, \A u \in S : rank[u] \in Int,
           \A u, w \in S : rank[u] = rank[w] => u = w
    PROVE  \E s \in SetToSeqs(S) :
              /\ Len(s) \in Nat /\ Len(s) = Cardinality(S)
              /\ \A i \in 1..Len(s) : s[i] \in S
              /\ \A u \in S : \E i \in 1..Len(s) : s[i] = u
              /\ \A i, j \in 1..Len(s) : i < j => rank[s[i]] < rank[s[j]]
<1> DEFINE n == Cardinality(S)
           Upto(u) == {w \in S : rank[w] <= rank[u]}
           place == [u \in S |-> Cardinality(Upto(u))]
<1>1. n \in Nat
  BY FS_CardinalityType
<1>2. ASSUME NEW u \in S
      PROVE  /\ IsFiniteSet(Upto(u)) /\ place[u] = Cardinality(Upto(u))
             /\ place[u] \in 1..n
  <2>1. Upto(u) \in SUBSET S
    OBVIOUS
  <2>2. IsFiniteSet(Upto(u)) /\ Cardinality(Upto(u)) <= n
    BY <2>1, FS_Subset
  <2>3. Upto(u) # {}
    BY <1>2
  <2> HIDE DEF Upto
  <2>4. Cardinality(Upto(u)) \in Nat /\ Cardinality(Upto(u)) # 0
    BY <2>2, <2>3, FS_CardinalityType, FS_EmptySet
  <2>. QED
    BY <1>1, <2>2, <2>4
<1>3. ASSUME NEW u \in S, NEW w \in S, rank[u] < rank[w]
      PROVE  place[u] < place[w]
  <2>1. Upto(u) \in SUBSET Upto(w)
    BY <1>3
  <2>2. w \in Upto(w) /\ w \notin Upto(u)
    BY <1>3
  <2> HIDE DEF Upto
  <2>3. /\ Cardinality(Upto(u)) <= Cardinality(Upto(w))
        /\ Cardinality(Upto(u)) # Cardinality(Upto(w))
    BY <1>2, <2>1, <2>2, FS_Subset
  <2> HIDE DEF place, n
  <2>. QED
    BY <1>2, <2>3
<1> HIDE DEF place, Upto
<1>4. \A u, w \in S : place[u] = place[w] => u = w
  <2>1. SUFFICES ASSUME NEW u \in S, NEW w \in S, place[u] = place[w], u # w
                 PROVE  FALSE
    OBVIOUS
  <2>2. rank[u] < rank[w] \/ rank[w] < rank[u]
    BY <2>1
  <2> HIDE DEF n
  <2>3. place[u] \in Int
    BY <1>1, <1>2
  <2>. QED
    BY <1>3, <2>1, <2>2, <2>3
<1>5. \A k \in 1..n : \E u \in S : place[u] = k
  <2>1. place \in [S -> 1..n]
    BY <1>2 DEF place
  <2>2. place \in Injection(S, 1..n)
    BY <1>4, <2>1 DEF Injection, IsInjective
  <2>3. IsFiniteSet(1..n) /\ Cardinality(1..n) = n
    BY <1>1, FS_Interval
  <2> HIDE DEF n
  <2>4. place \in Surjection(S, 1..n)
    BY <2>2, <2>3, FS_Injection DEF n
  <2>. QED
    BY <2>4 DEF Surjection
<1> DEFINE s == [k \in 1..n |-> CHOOSE u \in S : place[u] = k]
<1>6. \A k \in 1..n : s[k] \in S /\ place[s[k]] = k
  BY <1>5
<1>7. s \in [1..n -> S] /\ Len(s) = n
  <2>1. s \in [1..n -> S]
    BY <1>6
  <2> HIDE DEF s, n
  <2>2. s \in Seq(S) /\ DOMAIN s = 1..n
    BY <1>1, <2>1, SeqDef
  <2>. QED
    BY <1>1, <2>1, <2>2, LenProperties
<1> HIDE DEF s, n
<1>8. s \in SetToSeqs(S)
  BY <1>6, <1>7 DEF SetToSeqs, n
<1>9. \A u \in S : \E i \in 1..Len(s) : s[i] = u
  BY <1>2, <1>4, <1>6, <1>7
<1>10. ASSUME NEW i \in 1..Len(s), NEW j \in 1..Len(s), i < j
       PROVE  rank[s[i]] < rank[s[j]]
  <2>1. s[i] \in S /\ s[j] \in S /\ place[s[i]] = i /\ place[s[j]] = j
    BY <1>6, <1>7
  <2>2. ~(rank[s[j]] < rank[s[i]])
    BY <1>1, <1>3, <1>7, <1>10, <2>1
  <2>3. rank[s[i]] # rank[s[j]]
    BY <1>1, <1>7, <1>10, <2>1
  <2>. QED
    BY <2>1, <2>2, <2>3
<1>. QED
  BY <1>1, <1>6, <1>7, <1>8, <1>9, <1>10 DEF n

\* The step from one place to the next, around the end.
LEMMA StepAround ==
    ASSUME NEW n \in Nat, NEW i \in 1..n
    PROVE  (i % n) + 1 = IF i = n THEN 1 ELSE i + 1
<1>1. i < n => i % n = i
  BY SMTT(30)
<1>2. n % n = 0
  BY SMTT(30)
<1>. QED
  BY <1>1, <1>2

\* The rings of ranks are rings in the sense of IsRing.
LEMMA RingsAreRings ==
    ASSUME NEW R, R \subseteq Thread, IsFiniteSet(R), NEW P \in [Thread -> Prio],
           NEW rank \in [Thread -> Int],
           Rings(lists.next, lists.prev, lists.ready, R, P, rank), NEW p \in Prio
    PROVE  \E s \in SetToSeqs({t \in R : P[t] = p}) : IsRing(s, lists.ready[p])
<1> DEFINE S == {t \in R : P[t] = p}
           h == lists.ready[p]
<1>1. IsFiniteSet(S) /\ S \subseteq R
  <2>1. S \in SUBSET R
    OBVIOUS
  <2>. QED
    BY <2>1, FS_Subset
<1>2. \A u \in S : rank[u] \in Int
  OBVIOUS
<1>3. \A u, w \in S : rank[u] = rank[w] => u = w
  BY DEF Rings
<1>4. /\ h # NULL => h \in S
      /\ \A u \in S : h # NULL /\ rank[h] <= rank[u]
  BY DEF Rings
<1>5. \A t \in S : /\ lists.next[t] \in S /\ lists.prev[lists.next[t]] = t
                   /\ \A u \in S :
                         IF lists.next[t] = h THEN rank[u] <= rank[t]
                         ELSE /\ rank[t] < rank[lists.next[t]]
                              /\ rank[u] <= rank[t] \/ rank[lists.next[t]] <= rank[u]
  BY DEF Rings
<1> HIDE DEF S, h
<1>6. PICK s \in SetToSeqs(S) :
              /\ Len(s) \in Nat /\ Len(s) = Cardinality(S)
              /\ \A i \in 1..Len(s) : s[i] \in S
              /\ \A u \in S : \E i \in 1..Len(s) : s[i] = u
              /\ \A i, j \in 1..Len(s) : i < j => rank[s[i]] < rank[s[j]]
  BY <1>1, <1>2, <1>3, InOrder
<1> DEFINE n == Len(s)
<1>7. s = <<>> <=> n = 0
  <2>1. s \in [1..Cardinality(S) -> S]
    BY DEF SetToSeqs
  <2>2. s \in Seq(S)
    BY <1>6, <2>1, SeqDef
  <2>. QED
    BY <2>2, EmptySeq, LenProperties
<1> HIDE DEF n
<1>8. /\ n \in Nat
      /\ \A i \in 1..n : s[i] \in S
      /\ \A u \in S : \E i \in 1..n : s[i] = u
      /\ \A i, j \in 1..n : i < j => rank[s[i]] < rank[s[j]]
  BY <1>6 DEF n
<1>9. n # 0 => h = s[1]
  <2>1. SUFFICES ASSUME n # 0 PROVE h = s[1]
    OBVIOUS
  <2>2. 1 \in 1..n
    BY <1>8, <2>1
  <2>3. h \in S /\ s[1] \in S /\ rank[h] <= rank[s[1]]
    BY <1>4, <1>8, <2>2
  <2>4. PICK i \in 1..n : s[i] = h
    BY <1>8, <2>3
  <2>5. i = 1
    <3>1. 1 < i => rank[s[1]] < rank[s[i]]
      BY <1>8, <2>2
    <3>2. rank[s[1]] \in Int /\ rank[s[i]] \in Int
      BY <1>2, <2>3, <2>4
    <3>. QED
      BY <2>3, <2>4, <3>1, <3>2
  <2>. QED
    BY <2>4, <2>5
<1>10. n = 0 => h = NULL
  BY <1>4, <1>8
<1>11. ASSUME NEW i \in 1..n
       PROVE  lists.next[s[i]] = IF i = n THEN s[1] ELSE s[i + 1]
  <2>1. PICK k \in 1..n : lists.next[s[i]] = s[k]
    BY <1>5, <1>8
  <2>2. \A j \in 1..n : rank[s[j]] \in Int
    BY <1>2, <1>8
  <2>3. CASE s[k] = h
    <3>1. \A j \in 1..n : rank[s[j]] <= rank[s[i]]
      BY <1>5, <1>8, <2>1, <2>3
    <3>2. n \in 1..n /\ (i < n => rank[s[i]] < rank[s[n]])
      BY <1>8
    <3>3. i = n
      BY <1>8, <2>2, <3>1, <3>2
    <3>. QED
      BY <1>8, <1>9, <2>1, <2>3, <3>3
  <2>4. CASE s[k] # h
    <3>1. rank[s[i]] < rank[s[k]]
      BY <1>5, <1>8, <2>1, <2>4
    <3>2. i < k
      <4>1. k < i => rank[s[k]] < rank[s[i]]
        BY <1>8
      <4>. QED
        BY <2>2, <3>1, <4>1
    <3>3. i + 1 \in 1..n /\ i # n
      BY <1>8, <3>2
    <3>4. rank[s[i + 1]] <= rank[s[i]] \/ rank[s[k]] <= rank[s[i + 1]]
      BY <1>5, <1>8, <2>1, <2>4, <3>3
    <3>5. rank[s[i]] < rank[s[i + 1]]
      BY <1>8, <3>3
    <3>6. i + 1 < k => rank[s[i + 1]] < rank[s[k]]
      BY <1>8, <3>3
    <3>7. k = i + 1
      <4>1. rank[s[i]] \in Int /\ rank[s[i + 1]] \in Int /\ rank[s[k]] \in Int
        BY <2>2, <3>3
      <4>. QED
        BY <3>2, <3>4, <3>5, <3>6, <4>1
    <3>. QED
      BY <2>1, <3>3, <3>7
  <2>. QED
    BY <2>3, <2>4
<1>12. ASSUME NEW i \in 1..n
       PROVE  LET j == (i % n) + 1
              IN  lists.next[s[i]] = s[j] /\ lists.prev[s[j]] = s[i]
  <2>1. (i % n) + 1 = IF i = n THEN 1 ELSE i + 1
    BY <1>8, StepAround
  <2>2. lists.prev[lists.next[s[i]]] = s[i]
    BY <1>5, <1>8
  <2>. QED
    BY <1>11, <2>1, <2>2
<1>13. IsRing(s, h)
  BY <1>7, <1>9, <1>10, <1>12 DEF IsRing, n
<1>. QED
  BY <1>13 DEF S, h

\* The lists of ranks are lists in the sense of IsList.
LEMMA LinesAreLists ==
    ASSUME NEW W \in [Thread -> Queue \cup {NULL}], NEW P \in [Thread -> Prio],
           NEW rank \in [Thread -> Int], IsFiniteSet(Thread),
           lists.next \in [Thread -> Link], lists.prev \in [Thread -> Link],
           lists.wait \in [Queue -> [Prio -> Link]],
           Lines(lists.next, lists.prev, lists.wait, W, P, rank),
           NEW q \in Queue, NEW p \in Prio
    PROVE  \E s \in SetToSeqs({t \in Thread : W[t] = q /\ P[t] = p}) :
              IsList(s, lists.wait[q][p])
<1> DEFINE S == {t \in Thread : W[t] = q /\ P[t] = p}
           h == lists.wait[q][p]
<1>1. IsFiniteSet(S) /\ S \subseteq Thread /\ q # NULL /\ NULL \notin S
  <2>1. S \in SUBSET Thread
    OBVIOUS
  <2>. QED
    BY <2>1, FS_Subset, IpcAssumption
<1>2. \A u \in S : rank[u] \in Int
  OBVIOUS
<1>3. \A u, w \in S : rank[u] = rank[w] => u = w
  BY <1>1 DEF Lines
<1>4. /\ h # NULL => h \in S
      /\ \A u \in S : h # NULL /\ rank[h] <= rank[u]
  BY DEF Lines, Link
<1>5. ASSUME NEW t \in S
      PROVE  /\ lists.next[t] # NULL => lists.next[t] \in S /\ lists.prev[lists.next[t]] = t
                                        /\ rank[t] < rank[lists.next[t]]
             /\ lists.prev[t] = NULL <=> h = t
             /\ \A u \in S :
                   IF lists.next[t] = NULL THEN rank[u] <= rank[t]
                   ELSE rank[u] <= rank[t] \/ rank[lists.next[t]] <= rank[u]
  <2>1. t \in Thread /\ W[t] = q /\ P[t] = p /\ W[t] # NULL /\ lists.next[t] \in Link
    BY <1>1
  <2>2. lists.next[t] # NULL => lists.next[t] \in Thread
    BY <2>1 DEF Link
  <2>3. \A u \in S : u \in Thread /\ W[u] = W[t] /\ P[u] = P[t]
    BY <2>1
  <2>. QED
    BY <2>1, <2>2, <2>3 DEF Lines
<1> HIDE DEF S, h
<1>6. PICK s \in SetToSeqs(S) :
              /\ Len(s) \in Nat /\ Len(s) = Cardinality(S)
              /\ \A i \in 1..Len(s) : s[i] \in S
              /\ \A u \in S : \E i \in 1..Len(s) : s[i] = u
              /\ \A i, j \in 1..Len(s) : i < j => rank[s[i]] < rank[s[j]]
  BY <1>1, <1>2, <1>3, InOrder
<1> DEFINE n == Len(s)
<1>7. s = <<>> <=> n = 0
  <2>1. s \in [1..Cardinality(S) -> S]
    BY DEF SetToSeqs
  <2>2. s \in Seq(S)
    BY <1>6, <2>1, SeqDef
  <2>. QED
    BY <2>2, EmptySeq, LenProperties
<1> HIDE DEF n
<1>8. /\ n \in Nat
      /\ \A i \in 1..n : s[i] \in S
      /\ \A u \in S : \E i \in 1..n : s[i] = u
      /\ \A i, j \in 1..n : i < j => rank[s[i]] < rank[s[j]]
  BY <1>6 DEF n
<1>9. n # 0 => h = s[1]
  <2>1. SUFFICES ASSUME n # 0 PROVE h = s[1]
    OBVIOUS
  <2>2. 1 \in 1..n
    BY <1>8, <2>1
  <2>3. h \in S /\ s[1] \in S /\ rank[h] <= rank[s[1]]
    BY <1>4, <1>8, <2>2
  <2>4. PICK i \in 1..n : s[i] = h
    BY <1>8, <2>3
  <2>5. i = 1
    <3>1. 1 < i => rank[s[1]] < rank[s[i]]
      BY <1>8, <2>2
    <3>2. rank[s[1]] \in Int /\ rank[s[i]] \in Int
      BY <1>2, <2>3, <2>4
    <3>. QED
      BY <2>3, <2>4, <3>1, <3>2
  <2>. QED
    BY <2>4, <2>5
<1>10. n = 0 => h = NULL
  BY <1>4, <1>8
<1>11. ASSUME NEW i \in 1..n
       PROVE  lists.next[s[i]] = IF i = n THEN NULL ELSE s[i + 1]
  <2>1. \A j \in 1..n : rank[s[j]] \in Int
    BY <1>2, <1>8
  <2>2. CASE lists.next[s[i]] = NULL
    <3>1. n \in 1..n /\ (i < n => rank[s[i]] < rank[s[n]])
      BY <1>8
    <3>2. rank[s[n]] <= rank[s[i]]
      BY <1>5, <1>8, <2>2, <3>1
    <3>3. i = n
      BY <1>8, <2>1, <3>1, <3>2
    <3>. QED
      BY <2>2, <3>3
  <2>3. CASE lists.next[s[i]] # NULL
    <3>1. PICK k \in 1..n : lists.next[s[i]] = s[k]
      BY <1>5, <1>8, <2>3
    <3>2. rank[s[i]] < rank[s[k]]
      BY <1>5, <1>8, <2>3, <3>1
    <3>3. i < k
      <4>1. k < i => rank[s[k]] < rank[s[i]]
        BY <1>8
      <4>2. rank[s[i]] \in Int /\ rank[s[k]] \in Int /\ i \in Int /\ k \in Int
        BY <1>8, <2>1
      <4> DEFINE x == rank[s[i]]
                 y == rank[s[k]]
      <4>3. k # i
        BY <3>2, <4>2
      <4> HIDE DEF x, y
      <4>4. x \in Int /\ y \in Int /\ x < y /\ (k < i => y < x)
        BY <3>2, <4>1, <4>2 DEF x, y
      <4>. QED
        BY <4>2, <4>3, <4>4
    <3>4. i + 1 \in 1..n /\ i # n
      BY <1>8, <3>3
    <3>5. rank[s[i + 1]] <= rank[s[i]] \/ rank[s[k]] <= rank[s[i + 1]]
      BY <1>5, <1>8, <2>3, <3>1, <3>4
    <3>6. rank[s[i]] < rank[s[i + 1]]
      BY <1>8, <3>4
    <3>7. i + 1 < k => rank[s[i + 1]] < rank[s[k]]
      BY <1>8, <3>4
    <3>8. k = i + 1
      <4>1. rank[s[i]] \in Int /\ rank[s[i + 1]] \in Int /\ rank[s[k]] \in Int
        BY <2>1, <3>4
      <4>. QED
        BY <3>3, <3>5, <3>6, <3>7, <4>1
    <3>. QED
      BY <3>1, <3>4, <3>8
  <2>. QED
    BY <2>2, <2>3
<1>12. ASSUME NEW i \in 1..n
       PROVE  lists.prev[s[i]] = IF i = 1 THEN NULL ELSE s[i - 1]
  <2>1. CASE i = 1
    BY <1>5, <1>8, <1>9, <2>1
  <2>2. CASE i # 1
    <3>1. i - 1 \in 1..n /\ i - 1 # n /\ (i - 1) + 1 = i
      BY <1>8, <2>2
    <3>2. lists.next[s[i - 1]] = s[i] /\ s[i] # NULL
      BY <1>1, <1>8, <1>11, <3>1
    <3>3. lists.prev[lists.next[s[i - 1]]] = s[i - 1]
      BY <1>5, <1>8, <3>1, <3>2
    <3>. QED
      BY <2>2, <3>2, <3>3
  <2>. QED
    BY <2>1, <2>2
<1>13. IsList(s, h)
  BY <1>7, <1>9, <1>10, <1>11, <1>12 DEF IsList, n
<1>. QED
  BY <1>13 DEF S, h

-----------------------------------------------------------------------------
(* The invariant of the kernel                                             *)

ReadyTasks == {t \in Thread : state[t] = "READY"}

\* The lists hold exactly the tasks they should.
ListsSound == Linked(lists, ReadyTasks, object, prio)

\* A task is blocked while it waits for an object, and then it is in the middle
\* of a call.  The delta queue is sorted and holds only tasks that wait; while
\* no tick is being handled, none of them is due.
TasksSound ==
    /\ prio = [t \in Thread |-> IF t = Idle THEN IDLE_PRIORITY ELSE Priority[t]]
    /\ \A t \in Thread : state[t] = "BLOCK" <=> object[t] # NULL
    /\ GoodQueue(dq, left)
    /\ \A t \in ToSet(dq) : object[t] # NULL
    /\ isr # "deal" => \A t \in ToSet(dq) : left[t] > 0

CallsSound ==
    /\ pc[Idle] = "user"
    /\ \A t \in Thread : object[t] # NULL => t \in Task /\ pc[t] \in {"wait", "return"}

\* Only the running task is inside a critical section, which masks PendSV.  The
\* running task is the one the scheduler would choose, unless a switch is
\* pending or somebody is about to ask for one.
CpuSound ==
    /\ inside # NULL => /\ inside = current /\ inside \in Task
                        /\ isr = "none" /\ ~pend /\ pc[inside] = "section"
    /\ isr = "none" /\ inside = NULL /\ ~pend /\ pc[current] \notin {"schedule", "wait"}
          => NextTask(lists) = current

KernelInv ==
    /\ KernelTypeOK
    /\ ListsSound
    /\ TasksSound
    /\ CallsSound
    /\ CpuSound

\* The links of tasks are sound (flyos_ipc.c 52-250, flyos_kernel.c 355-480).
LEMMA KernelLinks ==
    ASSUME KernelInv
    PROVE  LinksSound
<1>1. PICK rank : Placed(lists, ReadyTasks, object, prio, rank)
  BY DEF KernelInv, ListsSound, Linked
<1>2. /\ lists.next \in [Thread -> Link] /\ lists.prev \in [Thread -> Link]
      /\ lists.wait \in [Queue -> [Prio -> Link]]
      /\ ReadyTasks \subseteq Thread
      /\ object \in [Thread -> Queue \cup {NULL}] /\ prio \in [Thread -> Prio]
      /\ rank \in [Thread -> Int]
      /\ Rings(lists.next, lists.prev, lists.ready, ReadyTasks, prio, rank)
      /\ Lines(lists.next, lists.prev, lists.wait, object, prio, rank)
      /\ \A x \in Prio : x \in lists.bits <=> lists.ready[x] # NULL
      /\ \A q \in Queue, x \in Prio : x \in lists.waitBits[q] <=> lists.wait[q][x] # NULL
  BY <1>1, PlacedMeans
<1>3. IsFiniteSet(Thread) /\ IsFiniteSet(ReadyTasks)
  <2>1. IsFiniteSet(Thread)
    BY IpcAssumption, FS_AddElement DEF Thread
  <2>. QED
    BY <1>2, <2>1, FS_Subset
<1>4. ASSUME NEW p \in Prio
      PROVE  \E s \in SetToSeqs({t \in Thread : state[t] = "READY" /\ prio[t] = p}) :
                IsRing(s, lists.ready[p])
  <2>1. {t \in Thread : state[t] = "READY" /\ prio[t] = p} = {t \in ReadyTasks : prio[t] = p}
    BY DEF ReadyTasks
  <2>. QED
    BY <1>2, <1>3, <2>1, RingsAreRings
<1>5. ASSUME NEW q \in Queue, NEW p \in Prio
      PROVE  \E s \in SetToSeqs({t \in Thread : object[t] = q /\ prio[t] = p}) :
                IsList(s, lists.wait[q][p])
  BY <1>2, <1>3, LinesAreLists
<1>6. /\ \A t \in Thread : state[t] = "BLOCK" <=> object[t] # NULL
      /\ \A t \in ToSet(dq) : t \in Thread /\ state[t] = "BLOCK"
  BY ToSetMembers DEF KernelInv, TasksSound, GoodQueue
<1>. QED
  BY <1>2, <1>4, <1>5, <1>6 DEF LinksSound

\* A task in its own code is the one that should run.
LEMMA KernelPrompt ==
    ASSUME KernelInv
    PROVE  PromptSwitch
BY DEF KernelInv, CpuSound, PromptSwitch

-----------------------------------------------------------------------------
(* The start                                                               *)

\* The first and the last task of a set in the order of creation.
LEMMA TurnFacts ==
    ASSUME NEW N \in Nat, NEW turn \in [Thread -> 0..N],
           NEW S, S \subseteq Thread, S # {}
    PROVE  /\ Earliest(turn, S) \in S
           /\ \A u \in S : turn[Earliest(turn, S)] <= turn[u]
           /\ Latest(turn, S) \in S
           /\ \A u \in S : turn[u] <= turn[Latest(turn, S)]
<1>1. \A u \in S : turn[u] \in 0..N
  OBVIOUS
<1>2. \E t \in S : \A u \in S : turn[t] <= turn[u]
  <2> DEFINE T == {turn[u] : u \in S}
  <2>1. T \subseteq Nat /\ T # {}
    BY <1>1
  <2>2. PICK x \in T : \A y \in T : x <= y
    <3> HIDE DEF T
    <3>. QED
      BY <2>1, Smallest
  <2>. QED
    BY <2>2
<1>3. \E t \in S : \A u \in S : turn[u] <= turn[t]
  <2> DEFINE T == {N - turn[u] : u \in S}
  <2>1. T \subseteq Nat /\ T # {}
    BY <1>1
  <2>2. PICK x \in T : \A y \in T : x <= y
    <3> HIDE DEF T
    <3>. QED
      BY <2>1, Smallest
  <2>3. PICK t \in S : x = N - turn[t]
    BY <2>2
  <2>4. \A u \in S : turn[u] <= turn[t]
    BY <1>1, <2>2, <2>3
  <2>. QED
    BY <2>4
<1>. QED
  BY <1>2, <1>3 DEF Earliest, Latest

\* After flyos_kernel_start every task is in the ring of its priority.
LEMMA StartLinks ==
    ASSUME NEW N \in Nat, NEW turn \in [Thread -> 0..N],
           \A t, u \in Thread : turn[t] = turn[u] => t = u,
           prio \in [Thread -> Prio],
           NEW W, W = [t \in Thread |-> NULL]
    PROVE  Linked(Created(turn), Thread, W, prio)
<1> DEFINE Peers(p) == {u \in Thread : prio[u] = p}
           After(t)  == {u \in Peers(prio[t]) : turn[u] > turn[t]}
           Before(t) == {u \in Peers(prio[t]) : turn[u] < turn[t]}
           next == [t \in Thread |-> Earliest(turn, IF After(t) = {} THEN Peers(prio[t])
                                                    ELSE After(t))]
           prev == [t \in Thread |-> Latest(turn, IF Before(t) = {} THEN Peers(prio[t])
                                                  ELSE Before(t))]
           ready == [p \in Prio |-> Earliest(turn, Peers(p))]
           bits == {prio[t] : t \in Thread}
           wait == [q \in Queue |-> [p \in Prio |-> NULL]]
           waitBits == [q \in Queue |-> {}]
           m == Created(turn)
<1>0. \A t \in Thread : turn[t] \in Nat
  OBVIOUS
<1>1. m = [next |-> next, prev |-> prev, ready |-> ready, bits |-> bits,
           wait |-> wait, waitBits |-> waitBits]
  BY DEF Created
<1>2. ASSUME NEW t \in Thread
      PROVE  /\ next[t] \in Thread /\ prio[next[t]] = prio[t]
             /\ prev[t] \in Thread /\ prio[prev[t]] = prio[t]
             /\ \A u \in Thread : prio[u] = prio[t] =>
                   IF After(t) = {} THEN turn[u] <= turn[t] /\ turn[next[t]] <= turn[u]
                   ELSE /\ turn[t] < turn[next[t]]
                        /\ turn[t] < turn[u] => turn[next[t]] <= turn[u]
             /\ \A u \in Thread : prio[u] = prio[t] =>
                   IF Before(t) = {} THEN turn[t] <= turn[u] /\ turn[u] <= turn[prev[t]]
                   ELSE /\ turn[prev[t]] < turn[t]
                        /\ turn[u] < turn[t] => turn[u] <= turn[prev[t]]
  <2> DEFINE A == IF After(t) = {} THEN Peers(prio[t]) ELSE After(t)
             B == IF Before(t) = {} THEN Peers(prio[t]) ELSE Before(t)
  <2>1. /\ A \subseteq Peers(prio[t]) /\ A # {}
        /\ B \subseteq Peers(prio[t]) /\ B # {}
        /\ Peers(prio[t]) \subseteq Thread
    BY <1>2
  <2>2. next[t] = Earliest(turn, A) /\ prev[t] = Latest(turn, B)
    BY <1>2
  <2> HIDE DEF next, prev
  <2>3. /\ next[t] \in A /\ \A u \in A : turn[next[t]] <= turn[u]
        /\ prev[t] \in B /\ \A u \in B : turn[u] <= turn[prev[t]]
    <3> HIDE DEF A, B, Peers
    <3>. QED
      BY <2>1, <2>2, TurnFacts
  <2>4. next[t] \in Peers(prio[t]) /\ prev[t] \in Peers(prio[t])
    BY <2>1, <2>3
  <2>5. ASSUME NEW u \in Thread, prio[u] = prio[t]
        PROVE  IF After(t) = {} THEN turn[u] <= turn[t] /\ turn[next[t]] <= turn[u]
               ELSE /\ turn[t] < turn[next[t]]
                    /\ turn[t] < turn[u] => turn[next[t]] <= turn[u]
    BY <1>0, <1>2, <2>3, <2>5
  <2>6. ASSUME NEW u \in Thread, prio[u] = prio[t]
        PROVE  IF Before(t) = {} THEN turn[t] <= turn[u] /\ turn[u] <= turn[prev[t]]
               ELSE /\ turn[prev[t]] < turn[t]
                    /\ turn[u] < turn[t] => turn[u] <= turn[prev[t]]
    BY <1>0, <1>2, <2>3, <2>6
  <2>. QED
    BY <2>4, <2>5, <2>6
<1>3. ASSUME NEW t \in Thread, NEW u \in Thread, prio[u] = prio[t]
      PROVE  /\ After(t) = {} <=> ~(turn[t] < turn[next[t]])
             /\ Before(t) = {} <=> ~(turn[prev[t]] < turn[t])
  <2>1. After(t) = {} => turn[next[t]] <= turn[t]
    BY <1>2, <1>3
  <2>2. After(t) # {} => turn[t] < turn[next[t]]
    BY <1>2, <1>3
  <2>3. Before(t) = {} => turn[t] <= turn[prev[t]]
    BY <1>2, <1>3
  <2>4. Before(t) # {} => turn[prev[t]] < turn[t]
    BY <1>2, <1>3
  <2>5. turn[t] \in Nat /\ turn[next[t]] \in Nat /\ turn[prev[t]] \in Nat
    BY <1>0, <1>2
  <2> HIDE DEF After, Before, next, prev
  <2>. QED
    BY <2>1, <2>2, <2>3, <2>4, <2>5
<1>4. ASSUME NEW p \in Prio
      PROVE  /\ ready[p] # NULL => ready[p] \in Thread /\ prio[ready[p]] = p
             /\ \A u \in Thread : prio[u] = p =>
                   ready[p] # NULL /\ turn[ready[p]] <= turn[u]
             /\ ready[p] \in Link
             /\ p \in bits <=> ready[p] # NULL
  <2>1. ready[p] = Earliest(turn, Peers(p)) /\ Peers(p) \subseteq Thread
    OBVIOUS
  <2>2. CASE Peers(p) = {}
    <3>1. ready[p] = NULL
      BY <2>1, <2>2 DEF Earliest
    <3>. QED
      BY <2>2, <3>1 DEF Link
  <2>3. CASE Peers(p) # {}
    <3>1. ready[p] \in Peers(p) /\ \A u \in Peers(p) : turn[ready[p]] <= turn[u]
      <4> HIDE DEF Peers, ready
      <4>. QED
        BY <2>1, <2>3, TurnFacts
    <3> HIDE DEF ready
    <3>. QED
      BY <3>1, IpcAssumption DEF Link
  <2>. QED
    BY <2>2, <2>3
<1>5. /\ next \in [Thread -> Link] /\ prev \in [Thread -> Link]
      /\ ready \in [Prio -> Link] /\ bits \in SUBSET Prio
      /\ wait \in [Queue -> [Prio -> Link]] /\ waitBits \in [Queue -> SUBSET Prio]
  <2>1. NULL \in Link
    BY DEF Link
  <2>2. next \in [Thread -> Link]
    BY <1>2 DEF Link
  <2>3. prev \in [Thread -> Link]
    BY <1>2 DEF Link
  <2>4. ready \in [Prio -> Link]
    BY <1>4
  <2>5. bits \in SUBSET Prio
    BY <1>1
  <2>6. wait \in [Queue -> [Prio -> Link]] /\ waitBits \in [Queue -> SUBSET Prio]
    BY <2>1
  <2> HIDE DEF next, prev, ready, bits, wait, waitBits
  <2>. QED
    BY <2>2, <2>3, <2>4, <2>5, <2>6
<1>6. \A q \in Queue, p \in Prio : p \notin waitBits[q] /\ wait[q][p] = NULL
  OBVIOUS
<1> HIDE DEF m, After, Before, Peers, next, prev, ready, bits, wait, waitBits
<1>7. m \in Lists
  BY <1>1, <1>5 DEF Lists
<1>8. /\ m.next = next /\ m.prev = prev /\ m.ready = ready /\ m.bits = bits
      /\ m.wait = wait /\ m.waitBits = waitBits
  BY <1>1
<1>9. ASSUME NEW t \in Thread
      PROVE  /\ prev[next[t]] = t /\ next[prev[t]] = t
             /\ \A u \in Thread : prio[u] = prio[t] =>
                   IF next[t] = ready[prio[t]] THEN turn[u] <= turn[t]
                   ELSE /\ turn[t] < turn[next[t]]
                        /\ turn[u] <= turn[t] \/ turn[next[t]] <= turn[u]
  <2> DEFINE b == next[t]
             a == prev[t]
             l == prev[b]
             f == next[a]
             h == ready[prio[t]]
  <2>1. /\ a \in Thread /\ prio[a] = prio[t] /\ b \in Thread /\ prio[b] = prio[t]
        /\ l \in Thread /\ prio[l] = prio[t] /\ f \in Thread /\ prio[f] = prio[t]
        /\ h \in Thread /\ prio[h] = prio[t]
    BY <1>2, <1>4, <1>9
  <2>2. /\ \A u \in Thread : turn[u] \in Nat
        /\ \A u, w \in Thread : turn[u] = turn[w] => u = w
    BY <1>0
  <2>3. ASSUME NEW u \in Thread, prio[u] = prio[t]
        PROVE  /\ IF ~(turn[t] < turn[b]) THEN turn[u] <= turn[t] /\ turn[b] <= turn[u]
                  ELSE turn[t] < turn[u] => turn[b] <= turn[u]
               /\ IF ~(turn[a] < turn[t]) THEN turn[t] <= turn[u] /\ turn[u] <= turn[a]
                  ELSE turn[u] < turn[t] => turn[u] <= turn[a]
               /\ IF ~(turn[l] < turn[b]) THEN turn[b] <= turn[u] /\ turn[u] <= turn[l]
                  ELSE turn[u] < turn[b] => turn[u] <= turn[l]
               /\ IF ~(turn[a] < turn[f]) THEN turn[u] <= turn[a] /\ turn[f] <= turn[u]
                  ELSE turn[a] < turn[u] => turn[f] <= turn[u]
               /\ turn[h] <= turn[u]
    <3>1. /\ IF After(t) = {} THEN turn[u] <= turn[t] /\ turn[b] <= turn[u]
             ELSE turn[t] < turn[u] => turn[b] <= turn[u]
          /\ After(t) = {} <=> ~(turn[t] < turn[b])
      BY <1>2, <1>3, <2>1, <2>3
    <3>2. /\ IF Before(t) = {} THEN turn[t] <= turn[u] /\ turn[u] <= turn[a]
             ELSE turn[u] < turn[t] => turn[u] <= turn[a]
          /\ Before(t) = {} <=> ~(turn[a] < turn[t])
      BY <1>2, <1>3, <2>1, <2>3
    <3>3. /\ IF Before(b) = {} THEN turn[b] <= turn[u] /\ turn[u] <= turn[l]
             ELSE turn[u] < turn[b] => turn[u] <= turn[l]
          /\ Before(b) = {} <=> ~(turn[l] < turn[b])
      BY <1>2, <1>3, <2>1, <2>3
    <3>4. /\ IF After(a) = {} THEN turn[u] <= turn[a] /\ turn[f] <= turn[u]
             ELSE turn[a] < turn[u] => turn[f] <= turn[u]
          /\ After(a) = {} <=> ~(turn[a] < turn[f])
      BY <1>2, <1>3, <2>1, <2>3
    <3>5. turn[h] <= turn[u]
      BY <1>4, <1>9, <2>3
    <3>. QED
      BY <3>1, <3>2, <3>3, <3>4, <3>5
  <2> HIDE DEF a, b, l, f, h
  <2>4. l = t
    <3>1. turn[l] \in Nat /\ turn[t] \in Nat /\ turn[b] \in Nat
      BY <2>1, <2>2
    <3>2. /\ IF ~(turn[t] < turn[b]) THEN turn[l] <= turn[t] /\ turn[b] <= turn[l]
             ELSE turn[t] < turn[l] => turn[b] <= turn[l]
          /\ IF ~(turn[l] < turn[b]) THEN turn[b] <= turn[t] /\ turn[t] <= turn[l]
             ELSE turn[t] < turn[b] => turn[t] <= turn[l]
          /\ ~(turn[t] < turn[b]) => turn[b] <= turn[t]
          /\ ~(turn[l] < turn[b]) => turn[b] <= turn[l]
      BY <2>1, <2>3, <3>1
    <3>3. turn[l] = turn[t]
      BY <3>1, <3>2
    <3>. QED
      BY <2>1, <2>2, <3>3
  <2>5. f = t
    <3>1. turn[f] \in Nat /\ turn[t] \in Nat /\ turn[a] \in Nat
      BY <2>1, <2>2
    <3>2. /\ IF ~(turn[a] < turn[t]) THEN turn[t] <= turn[f] /\ turn[f] <= turn[a]
             ELSE turn[f] < turn[t] => turn[f] <= turn[a]
          /\ IF ~(turn[a] < turn[f]) THEN turn[t] <= turn[a] /\ turn[f] <= turn[t]
             ELSE turn[a] < turn[t] => turn[f] <= turn[t]
      BY <2>1, <2>3, <3>1
    <3>3. turn[f] = turn[t]
      BY <3>1, <3>2
    <3>. QED
      BY <2>1, <2>2, <3>3
  <2>6. ASSUME NEW u \in Thread, prio[u] = prio[t]
        PROVE  IF b = h THEN turn[u] <= turn[t]
               ELSE /\ turn[t] < turn[b]
                    /\ turn[u] <= turn[t] \/ turn[b] <= turn[u]
    <3>1. /\ turn[u] \in Nat /\ turn[t] \in Nat /\ turn[b] \in Nat /\ turn[h] \in Nat
          /\ turn[h] <= turn[t] /\ turn[h] <= turn[b]
      BY <2>1, <2>2, <2>3
    <3>2. IF ~(turn[t] < turn[b]) THEN turn[u] <= turn[t] /\ turn[b] <= turn[h]
          ELSE turn[t] < turn[u] => turn[b] <= turn[u]
      BY <2>1, <2>3, <2>6
    <3>3. turn[b] = turn[h] => b = h
      BY <2>1, <2>2
    <3>. QED
      BY <3>1, <3>2, <3>3
  <2>. QED
    BY <2>4, <2>5, <2>6 DEF a, b, l, f, h
<1>10. Rings(next, prev, ready, Thread, prio, turn)
  BY <1>2, <1>4, <1>9 DEF Rings
<1>11. Lines(next, prev, wait, W, prio, turn)
  BY <1>6, IpcAssumption DEF Lines
<1>12. Placed(m, Thread, W, prio, turn)
  <2>1. W \in [Thread -> Queue \cup {NULL}]
    OBVIOUS
  <2>2. turn \in [Thread -> Int]
    OBVIOUS
  <2>. QED
    BY <1>4, <1>6, <1>7, <1>8, <1>10, <1>11, <2>1, <2>2 DEF Placed
<1>. QED
  BY <1>12 DEF Linked, m

\* The state in which flyos_kernel_start leaves the kernel is sound.
LEMMA KernelStarts ==
    ASSUME KernelInit
    PROVE  KernelInv
<1>1. /\ prio = [t \in Thread |-> IF t = Idle THEN IDLE_PRIORITY ELSE Priority[t]]
      /\ prio \in [Thread -> Prio]
      /\ object = [t \in Thread |-> NULL] /\ state = [t \in Thread |-> "READY"]
      /\ current = NextTask(lists) /\ dq = <<>> /\ inside = NULL
  BY IpcAssumption DEF KernelInit, Thread, Prio
<1>2. Cardinality(Task) \in Nat
  BY IpcAssumption, FS_CardinalityType
<1>3. PICK turn \in [Thread -> 0..Cardinality(Task)] :
        /\ \A t, u \in Thread : turn[t] = turn[u] => t = u
        /\ lists = Created(turn)
  BY DEF KernelInit
<1>4. Linked(lists, Thread, object, prio)
  <2> DEFINE N == Cardinality(Task)
  <2>1. N \in Nat /\ turn \in [Thread -> 0..N]
    BY <1>2
  <2> HIDE DEF N
  <2>. QED
    BY <1>1, <1>3, <2>1, StartLinks
<1>5. ReadyTasks = Thread
  BY <1>1 DEF ReadyTasks
<1>6. current \in Thread
  <2>1. Idle \in Thread
    BY DEF Thread
  <2>. QED
    BY <1>1, <1>4, <2>1, NextFacts
<1>7. lists \in Lists
  BY <1>4 DEF Linked, Placed
<1>8. /\ dq \in Seq(Thread) /\ NoDuplicates(dq) /\ ToSet(dq) = {} /\ Len(dq) = 0
  <2>1. dq \in Seq(Thread)
    BY <1>1
  <2>2. ToSet(dq) = {} /\ Len(dq) = 0
    BY <1>1, <2>1, ListFacts
  <2>. QED
    BY <2>1, <2>2 DEF NoDuplicates
<1>9. GoodQueue(dq, left)
  BY <1>8 DEF GoodQueue
<1>10. /\ inside \in Link /\ object \in [Thread -> Queue \cup {NULL}]
       /\ Idle \in Thread
  BY <1>1 DEF Link, Thread
<1>11. KernelTypeOK
  BY <1>1, <1>6, <1>7, <1>8, <1>10 DEF KernelInit, KernelTypeOK
<1>12. TasksSound
  BY <1>1, <1>8, <1>9 DEF TasksSound
<1>. QED
  BY <1>1, <1>4, <1>5, <1>10, <1>11, <1>12
     DEF KernelInit, KernelInv, ListsSound, CallsSound, CpuSound

-----------------------------------------------------------------------------
(* Blocking and waking                                                     *)

TasksTyped ==
    /\ lists  \in Lists
    /\ state  \in [Thread -> {"READY", "BLOCK"}]
    /\ prio   \in [Thread -> Prio]
    /\ object \in [Thread -> Queue \cup {NULL}]
    /\ err    \in [Thread -> {"OK", "TIMEOUT", "ERROR"}]
    /\ dq     \in Seq(Thread)
    /\ left   \in [Thread -> Nat]

\* ipc_block_current_task moves a READY task into a wait queue and, if the wait
\* has an end, into the delta queue.
LEMMA Blocks ==
    ASSUME KernelInv, NEW c \in Task, NEW q \in Queue, NEW timeout \in Nat \ {0},
           state[c] = "READY", BlockOn(c, q, timeout), isr' = isr
    PROVE  /\ TasksTyped' /\ ListsSound' /\ TasksSound'
           /\ \A t \in ToSet(dq') : t \in ToSet(dq) \/ (t = c /\ timeout # WAIT_FOREVER)
<1>1. /\ lists' = WaitInsert(RemoveReady(lists, c, prio[c]), q, c, prio[c])
      /\ state' = [state EXCEPT ![c] = "BLOCK"]
      /\ object' = [object EXCEPT ![c] = q]
      /\ err' = [err EXCEPT ![c] = "OK"]
      /\ prio' = prio
      /\ \/ dq' = dq /\ left' = left
         \/ /\ timeout # WAIT_FOREVER
            /\ dq' = InsertAt(dq, DelayPlace(timeout), c)
            /\ left' = [left EXCEPT ![c] = timeout]
  BY DEF BlockOn, Block
<1>2. /\ KernelTypeOK /\ ListsSound /\ TasksSound
      /\ c \in Thread /\ q # NULL
  BY IpcAssumption DEF KernelInv, Thread
<1>3. object[c] = NULL /\ c \in ReadyTasks
  BY <1>2 DEF TasksSound, ReadyTasks
<1>4. ReadyTasks' = ReadyTasks \ {c}
  BY <1>1, <1>2 DEF ReadyTasks, KernelTypeOK
<1>5. ListsSound'
  <2> DEFINE m == RemoveReady(lists, c, prio[c])
             S == ReadyTasks \ {c}
  <2>1. Linked(m, S, object, prio)
    BY <1>2, <1>3, LeavesRing DEF ListsSound
  <2>2. c \in Thread \ S
    BY <1>2
  <2> HIDE DEF m, S
  <2>3. Linked(WaitInsert(m, q, c, prio[c]), S, [object EXCEPT ![c] = q], prio)
    BY <1>3, <2>1, <2>2, EntersQueue
  <2>. QED
    BY <1>1, <1>4, <2>3 DEF ListsSound, m, S
<1>6. /\ GoodQueue(dq', left') /\ left' \in [Thread -> Nat]
      /\ \A t \in ToSet(dq') : t \in ToSet(dq) \/ (t = c /\ timeout # WAIT_FOREVER)
      /\ c \in ToSet(dq') => left'[c] > 0
      /\ \A t \in ToSet(dq) : t \in Thread /\ t # c /\ left'[t] = left[t]
  <2>1. /\ GoodQueue(dq, left) /\ left \in [Thread -> Nat]
        /\ c \notin ToSet(dq) /\ ToSet(dq) \subseteq Thread
    BY <1>2, <1>3, ToSetMembers DEF TasksSound, KernelTypeOK
  <2>2. CASE dq' = dq /\ left' = left
    BY <2>1, <2>2
  <2>3. CASE /\ timeout # WAIT_FOREVER
             /\ dq' = InsertAt(dq, DelayPlace(timeout), c)
             /\ left' = [left EXCEPT ![c] = timeout]
    <3>1. timeout \in Nat /\ timeout > 0
      OBVIOUS
    <3>2. /\ GoodQueue(InsertAt(dq, DelayPlace(timeout), c), [left EXCEPT ![c] = timeout])
          /\ ToSet(InsertAt(dq, DelayPlace(timeout), c)) = ToSet(dq) \cup {c}
      BY <1>2, <2>1, <3>1, Arming
    <3>. QED
      BY <1>2, <2>1, <2>3, <3>1, <3>2
  <2>. QED
    BY <1>1, <2>2, <2>3
<1>7. lists' \in Lists
  BY <1>5 DEF ListsSound, Linked, Placed
<1>8. TasksTyped'
  BY <1>1, <1>2, <1>6, <1>7 DEF TasksTyped, KernelTypeOK, GoodQueue
<1>9. TasksSound'
  <2>1. \A t \in Thread : state'[t] = "BLOCK" <=> object'[t] # NULL
    BY <1>1, <1>2 DEF TasksSound, KernelTypeOK
  <2>2. \A t \in ToSet(dq') : object'[t] # NULL
    BY <1>1, <1>2, <1>6 DEF TasksSound, KernelTypeOK
  <2>3. isr' # "deal" => \A t \in ToSet(dq') : left'[t] > 0
    BY <1>2, <1>6 DEF TasksSound
  <2>. QED
    BY <1>1, <1>2, <1>6, <2>1, <2>2, <2>3 DEF TasksSound
<1>. QED
  BY <1>5, <1>6, <1>8, <1>9

\* A task that waits, or one whose time is up, leaves its wait queue and the
\* delta queue and becomes READY.
LEMMA Wakes ==
    ASSUME KernelInv, NEW q \in Queue, NEW t \in Thread, object[t] = q,
           NEW e \in {"OK", "TIMEOUT", "ERROR"},
           MakeReady(t, WaitRemove(lists, q, t, prio[t]), e), isr' = isr
    PROVE  /\ TasksTyped' /\ ListsSound' /\ TasksSound'
           /\ ToSet(dq') \subseteq ToSet(dq)
           /\ state' = [state EXCEPT ![t] = "READY"]
           /\ object' = [object EXCEPT ![t] = NULL]
           /\ err' = [err EXCEPT ![t] = e]
<1>1. /\ lists' = InsertReady(WaitRemove(lists, q, t, prio[t]), t, prio[t])
      /\ state' = [state EXCEPT ![t] = "READY"]
      /\ object' = [object EXCEPT ![t] = NULL]
      /\ err' = [err EXCEPT ![t] = e]
      /\ dq' = QueueWithout(t)
      /\ left' = [left EXCEPT ![t] = 0]
      /\ prio' = prio
  BY DEF MakeReady, Unblock
<1>2. /\ KernelTypeOK /\ ListsSound /\ TasksSound /\ q # NULL
  BY IpcAssumption DEF KernelInv
<1>3. t \notin ReadyTasks
  BY <1>2 DEF TasksSound, ReadyTasks
<1>4. ReadyTasks' = ReadyTasks \cup {t}
  BY <1>1, <1>2 DEF ReadyTasks, KernelTypeOK
<1>5. ListsSound'
  <2> DEFINE m == WaitRemove(lists, q, t, prio[t])
             V == [object EXCEPT ![t] = NULL]
  <2>1. Linked(m, ReadyTasks, V, prio)
    BY <1>2, LeavesQueue DEF ListsSound
  <2>2. V[t] = NULL
    BY <1>2 DEF KernelTypeOK
  <2> HIDE DEF m, V
  <2>3. Linked(InsertReady(m, t, prio[t]), ReadyTasks \cup {t}, V, prio)
    BY <1>3, <2>1, <2>2, EntersRing
  <2>. QED
    BY <1>1, <1>4, <2>3 DEF ListsSound, m, V
<1>6. /\ GoodQueue(dq', left) /\ left' \in [Thread -> Nat]
      /\ \A u : u \in ToSet(dq') => u \in ToSet(dq) /\ u # t /\ u \in Thread
      /\ \A u \in Thread : u # t => left'[u] = left[u]
  <2>1. /\ GoodQueue(dq, left) /\ left \in [Thread -> Nat]
        /\ ToSet(dq) \subseteq Thread
    BY <1>2, ToSetMembers DEF TasksSound, KernelTypeOK
  <2>2. /\ GoodQueue(QueueWithout(t), left)
        /\ \A u : u \in ToSet(QueueWithout(t)) <=> u \in ToSet(dq) /\ u # t
    BY <2>1, Waking
  <2>. QED
    BY <1>1, <2>1, <2>2
<1>7. GoodQueue(dq', left')
  BY <1>6, SameTicks
<1>8. lists' \in Lists
  BY <1>5 DEF ListsSound, Linked, Placed
<1>9. TasksTyped'
  BY <1>1, <1>2, <1>6, <1>8 DEF TasksTyped, KernelTypeOK, GoodQueue
<1>10. TasksSound'
  <2>1. \A u \in Thread : state'[u] = "BLOCK" <=> object'[u] # NULL
    BY <1>1, <1>2 DEF TasksSound, KernelTypeOK
  <2>2. \A u \in ToSet(dq') : object'[u] # NULL
    BY <1>1, <1>2, <1>6 DEF TasksSound, KernelTypeOK
  <2>3. isr' # "deal" => \A u \in ToSet(dq') : left'[u] > 0
    BY <1>2, <1>6 DEF TasksSound
  <2>. QED
    BY <1>1, <1>2, <1>7, <2>1, <2>2, <2>3 DEF TasksSound
<1>. QED
  BY <1>1, <1>5, <1>6, <1>9, <1>10

\* ipc_wake_highest_task finds one of the most urgent of those who wait.
LEMMA WakesHighest ==
    ASSUME KernelInv, NEW q \in Queue, HasWaiter(q),
           NEW e \in {"OK", "TIMEOUT", "ERROR"}, WakeHighest(q, e), isr' = isr,
           NEW t, t = HighestWaiter(q)
    PROVE  /\ t \in Thread /\ object[t] = q
           /\ \A u \in Thread : object[u] = q => prio[t] <= prio[u]
           /\ TasksTyped' /\ ListsSound' /\ TasksSound'
           /\ ToSet(dq') \subseteq ToSet(dq)
           /\ state' = [state EXCEPT ![t] = "READY"]
           /\ object' = [object EXCEPT ![t] = NULL]
           /\ err' = [err EXCEPT ![t] = e]
<1>1. /\ t \in Thread /\ object[t] = q
      /\ \A u \in Thread : object[u] = q => prio[t] <= prio[u]
  BY WaiterFacts DEF KernelInv, ListsSound
<1>2. MakeReady(t, WaitRemove(lists, q, t, prio[t]), e)
  BY DEF WakeHighest
<1>. QED
  BY <1>1, <1>2, Wakes

-----------------------------------------------------------------------------
(* The scheduler and the handlers                                          *)

\* What a step that leaves the tasks alone keeps.
LEMMA SameTasks ==
    ASSUME KernelInv, UNCHANGED taskVars, (isr = "deal") => (isr' = "deal")
    PROVE  TasksTyped' /\ ListsSound' /\ TasksSound'
<1>1. /\ lists' = lists /\ state' = state /\ prio' = prio /\ object' = object
      /\ err' = err /\ dq' = dq /\ left' = left
  BY DEF taskVars
<1>2. KernelTypeOK /\ ListsSound /\ TasksSound
  BY DEF KernelInv
<1>3. ReadyTasks' = ReadyTasks
  BY <1>1 DEF ReadyTasks
<1>4. ListsSound'
  BY <1>1, <1>2, <1>3 DEF ListsSound
<1>5. TasksSound'
  BY <1>1, <1>2 DEF TasksSound
<1>. QED
  BY <1>1, <1>2, <1>4, <1>5 DEF TasksTyped, KernelTypeOK

\* A step that leaves the kernel alone keeps its invariant.
LEMMA SameKernel ==
    ASSUME KernelInv, UNCHANGED kernelVars
    PROVE  KernelInv'
<1>1. UNCHANGED taskVars /\ UNCHANGED <<current, pend, isr, inside, pc>>
  BY DEF kernelVars, cpuVars
<1>2. TasksTyped' /\ ListsSound' /\ TasksSound'
  BY <1>1, SameTasks
<1>3. lists' = lists /\ object' = object
  BY <1>1 DEF taskVars
<1>4. CallsSound' /\ CpuSound'
  BY <1>1, <1>3 DEF KernelInv, CallsSound, CpuSound
<1>. QED
  BY <1>1, <1>2, <1>4 DEF KernelInv, KernelTypeOK, TasksTyped

\* A task that executes its call is READY and waits for nothing.
LEMMA RunningTask ==
    ASSUME KernelInv, NEW c \in Task, Runs(c), pc[c] \notin {"schedule", "wait"}
    PROVE  /\ c = current /\ c \in Thread /\ c # Idle
           /\ isr = "none" /\ inside = NULL /\ ~pend
           /\ state[c] = "READY" /\ object[c] = NULL
<1>1. /\ c = current /\ isr = "none" /\ inside = NULL /\ ~pend
      /\ NextTask(lists) = c
  BY DEF Runs, KernelInv, CpuSound
<1>2. c \in Thread /\ c # NULL /\ c # Idle
  BY IpcAssumption DEF Thread
<1>3. state[c] = "READY"
  BY <1>1, <1>2, NextFacts DEF KernelInv, ListsSound, ReadyTasks
<1>. QED
  BY <1>1, <1>2, <1>3 DEF KernelInv, TasksSound

\* A call that ends in flyos_scheduler() asks for the switch it has made
\* necessary.
LEMMA CallsScheduler ==
    ASSUME KernelInv, NEW c \in Task, CallScheduler(c)
    PROVE  KernelInv'
<1>1. /\ current = c /\ isr = "none" /\ inside = NULL /\ ~pend
      /\ \/ pc[c] = "schedule" /\ pc' = [pc EXCEPT ![c] = "user"]
         \/ pc[c] = "wait" /\ pc' = [pc EXCEPT ![c] = "return"]
      /\ pend' = (pend \/ NextTask(lists) # current)
      /\ UNCHANGED taskVars /\ UNCHANGED <<current, isr, inside>>
  BY DEF CallScheduler, Runs, Goto, Reschedule
<1>2. /\ KernelTypeOK /\ CallsSound /\ c \in Thread /\ c # Idle
  BY IpcAssumption DEF KernelInv, Thread
<1>3. TasksTyped' /\ ListsSound' /\ TasksSound'
  BY <1>1, SameTasks
<1>4. lists' = lists /\ object' = object
  BY <1>1 DEF taskVars
<1>5. CallsSound'
  <2>1. /\ \A t \in Thread : t # c => pc'[t] = pc[t]
        /\ (pc[c] = "schedule" /\ pc'[c] = "user") \/ pc'[c] = "return"
    BY <1>1, <1>2 DEF KernelTypeOK
  <2>2. Idle \in Thread
    BY DEF Thread
  <2>. QED
    BY <1>2, <1>4, <2>1, <2>2 DEF CallsSound
<1>6. CpuSound'
  BY <1>1, <1>4 DEF CpuSound
<1>7. /\ (current \in Thread)' /\ (pend \in BOOLEAN)'
      /\ (isr \in {"none", "deal", "schedule"})' /\ (inside \in Link)'
      /\ (pc \in [Thread -> {"user", "schedule", "wait", "return", "finish", "section"}])'
  BY <1>1, <1>2 DEF KernelTypeOK
<1>. QED
  BY <1>3, <1>5, <1>6, <1>7 DEF KernelInv, KernelTypeOK, TasksTyped

\* A tick counts for every task in the delta queue.
LEMMA Ticks ==
    ASSUME KernelInv, SysTick
    PROVE  KernelInv'
<1>1. /\ isr = "none" /\ inside = NULL /\ ~pend /\ isr' = "deal"
      /\ left' = [t \in Thread |-> IF t \in ToSet(dq) THEN left[t] - 1 ELSE left[t]]
      /\ UNCHANGED <<lists, state, prio, object, err, dq, current, pend, inside, pc>>
  BY DEF SysTick, Runs, LeftAfterTick
<1>2. /\ KernelTypeOK /\ ListsSound /\ TasksSound /\ CallsSound
  BY DEF KernelInv
<1>3. /\ GoodQueue(dq, left) /\ left \in [Thread -> Nat]
      /\ \A t \in ToSet(dq) : t \in Thread /\ left[t] > 0
  BY <1>1, <1>2, ToSetMembers DEF TasksSound, KernelTypeOK
<1>4. left' \in [Thread -> Nat] /\ \A t \in ToSet(dq) : left'[t] = left[t] - 1
  BY <1>1, <1>3
<1>5. GoodQueue(dq, left')
  <2>1. \A i \in 1..Len(dq) : dq[i] \in ToSet(dq) /\ left[dq[i]] \in Nat
    BY <1>3, ListFacts DEF GoodQueue
  <2>. QED
    BY <1>3, <1>4, <2>1 DEF GoodQueue
<1>6. TasksSound'
  BY <1>1, <1>2, <1>5 DEF TasksSound
<1>7. ReadyTasks' = ReadyTasks
  BY <1>1 DEF ReadyTasks
<1>8. ListsSound'
  BY <1>1, <1>2, <1>7 DEF ListsSound
<1>9. CallsSound'
  BY <1>1, <1>2 DEF CallsSound
<1>10. CpuSound'
  BY <1>1 DEF CpuSound
<1>11. KernelTypeOK'
  BY <1>1, <1>2, <1>4 DEF KernelTypeOK
<1>. QED
  BY <1>6, <1>8, <1>9, <1>10, <1>11 DEF KernelInv

\* No task whose slice may run out waits in one list with another task: the
\* turn of a ring is meant for READY tasks, but the handler does not look.
SlicesApart ==
    \A t \in Sliced : \A u \in Thread \ {t} :
        object[t] # NULL /\ object[u] = object[t] => prio[u] # prio[t]

\* The end of a slice turns a ring, and nothing else if the task waits alone.
LEMMA SliceEnds ==
    ASSUME KernelInv, SlicesApart, SysTickSlice
    PROVE  KernelInv'
<1>1. /\ isr = "deal" /\ isr' = "schedule" /\ ~Due
      /\ (current \in Sliced /\ lists' = Rotated(lists, current)) \/ lists' = lists
      /\ UNCHANGED <<state, prio, object, err, dq, left, current, pend, inside, pc>>
  BY DEF SysTickSlice
<1>2. /\ KernelTypeOK /\ ListsSound /\ TasksSound /\ CallsSound /\ CpuSound
      /\ current \in Thread
  BY DEF KernelInv, KernelTypeOK
<1>3. ReadyTasks' = ReadyTasks
  BY <1>1 DEF ReadyTasks
<1>4. Linked(lists', ReadyTasks, object, prio)
  <2>1. CASE lists' = lists
    BY <1>2, <2>1 DEF ListsSound
  <2>2. CASE lists' = Rotated(lists, current) /\ current \in ReadyTasks
    BY <1>2, <2>2, RingTurns DEF ListsSound
  <2>3. CASE /\ lists' = Rotated(lists, current) /\ current \in Sliced
             /\ current \notin ReadyTasks
    <3>1. object[current] # NULL
      BY <1>2, <2>3 DEF ReadyTasks, KernelTypeOK, TasksSound
    <3>2. PICK rank : Placed(lists, ReadyTasks, object, prio, rank)
      BY <1>2 DEF ListsSound, Linked
    <3>3. /\ Lines(lists.next, lists.prev, lists.wait, object, prio, rank)
          /\ lists.next \in [Thread -> Link] /\ rank \in [Thread -> Int]
      BY <3>2, PlacedMeans
    <3> DEFINE n == lists.next[current]
    <3>4. n # NULL => /\ n \in Thread /\ object[n] = object[current]
                      /\ prio[n] = prio[current] /\ rank[current] < rank[n]
      BY <1>2, <3>1, <3>3 DEF Lines, Link
    <3>5. n # NULL => n # current
      BY <1>2, <3>3, <3>4
    <3>6. n = NULL
      BY <2>3, <3>1, <3>4, <3>5 DEF SlicesApart
    <3>. QED
      BY <1>2, <2>3, <3>6 DEF Rotated, ListsSound
  <2>. QED
    BY <1>1, <2>1, <2>2, <2>3
<1>5. ListsSound' /\ lists' \in Lists
  BY <1>1, <1>3, <1>4 DEF ListsSound, Linked, Placed
<1>6. TasksSound'
  <2>1. isr' # "deal" => \A t \in ToSet(dq) : left[t] > 0
    <3>1. /\ dq \in Seq(Thread) /\ left \in [Thread -> Nat]
          /\ \A i, j \in 1..Len(dq) : i < j => left[dq[i]] <= left[dq[j]]
      BY <1>2 DEF KernelTypeOK, TasksSound, GoodQueue
    <3>2. SUFFICES ASSUME NEW t \in ToSet(dq) PROVE left[t] > 0
      OBVIOUS
    <3>3. /\ dq # <<>> /\ 1 \in 1..Len(dq) /\ Len(dq) \in Nat
          /\ \A i \in 1..Len(dq) : dq[i] \in Thread
      BY <3>1, <3>2, ListFacts
    <3>4. PICK i \in 1..Len(dq) : dq[i] = t
      BY <3>1, <3>2, ListFacts
    <3>5. Head(dq) = dq[1]
      BY <3>1, <3>3, HeadTailProperties
    <3>6. left[dq[1]] # 0 /\ left[dq[1]] \in Nat
      BY <1>1, <3>1, <3>3, <3>5 DEF Due
    <3>7. i = 1 \/ left[dq[1]] <= left[dq[i]]
      BY <3>1, <3>3
    <3>8. left[dq[i]] \in Nat
      BY <3>1, <3>3
    <3>. QED
      BY <3>4, <3>6, <3>7, <3>8
  <2>. QED
    BY <1>1, <1>2, <2>1 DEF TasksSound
<1>7. CallsSound'
  BY <1>1, <1>2 DEF CallsSound
<1>8. CpuSound'
  BY <1>1, <1>2 DEF CpuSound
<1>9. KernelTypeOK'
  BY <1>1, <1>2, <1>5 DEF KernelTypeOK
<1>. QED
  BY <1>5, <1>6, <1>7, <1>8, <1>9 DEF KernelInv

\* The handler ends as a call does, with flyos_scheduler().
LEMMA TickEnds ==
    ASSUME KernelInv, SysTickEnd
    PROVE  KernelInv'
<1>1. /\ isr = "schedule" /\ isr' = "none"
      /\ pend' = (pend \/ NextTask(lists) # current)
      /\ UNCHANGED taskVars /\ UNCHANGED <<current, inside, pc>>
  BY DEF SysTickEnd, Reschedule
<1>2. KernelTypeOK /\ CallsSound /\ CpuSound
  BY DEF KernelInv
<1>3. TasksTyped' /\ ListsSound' /\ TasksSound'
  BY <1>1, SameTasks
<1>4. lists' = lists /\ object' = object
  BY <1>1 DEF taskVars
<1>5. CallsSound'
  BY <1>1, <1>2, <1>4 DEF CallsSound
<1>6. CpuSound'
  BY <1>1, <1>2, <1>4 DEF CpuSound
<1>7. KernelTypeOK'
  BY <1>1, <1>2, <1>3 DEF KernelTypeOK, TasksTyped
<1>. QED
  BY <1>3, <1>5, <1>6, <1>7 DEF KernelInv

\* PendSV runs the task the scheduler chooses, which is READY.
LEMMA Switches ==
    ASSUME KernelInv, ContextSwitch
    PROVE  KernelInv' /\ state' = state
<1>1. /\ pend /\ isr = "none" /\ inside = NULL /\ NextTask(lists) # NULL
      /\ current' = NextTask(lists) /\ pend' = FALSE
      /\ state' = [state EXCEPT ![NextTask(lists)] = "READY"]
      /\ UNCHANGED <<lists, prio, object, err, dq, left, isr, inside, pc>>
  BY DEF ContextSwitch
<1>2. /\ KernelTypeOK /\ ListsSound /\ CallsSound
  BY DEF KernelInv
<1>3. NextTask(lists) \in ReadyTasks
  BY <1>1, <1>2, NextFacts DEF ListsSound
<1>4. state' = state /\ current' \in Thread
  BY <1>1, <1>2, <1>3 DEF ReadyTasks, KernelTypeOK
<1>5. TasksTyped' /\ ListsSound' /\ TasksSound'
  <2>1. UNCHANGED taskVars
    BY <1>1, <1>4 DEF taskVars
  <2>. QED
    BY <1>1, <2>1, SameTasks
<1>6. CallsSound'
  BY <1>1, <1>2 DEF CallsSound
<1>7. CpuSound'
  BY <1>1 DEF CpuSound
<1>8. KernelTypeOK'
  BY <1>1, <1>2, <1>4, <1>5 DEF KernelTypeOK, TasksTyped
<1>. QED
  BY <1>4, <1>5, <1>6, <1>7, <1>8 DEF KernelInv

\* The handlers keep the invariant.
LEMMA HandlersKeep ==
    ASSUME KernelInv, SlicesApart, Handler
    PROVE  KernelInv' /\ UNCHANGED <<state, prio, object, err, dq, inside, pc>>
<1>1. CASE SysTick
  BY <1>1, Ticks DEF SysTick
<1>2. CASE SysTickSlice
  BY <1>2, SliceEnds DEF SysTickSlice
<1>3. CASE SysTickEnd
  BY <1>3, TickEnds DEF SysTickEnd, taskVars
<1>4. CASE ContextSwitch
  BY <1>4, Switches DEF ContextSwitch
<1>. QED
  BY <1>1, <1>2, <1>3, <1>4 DEF Handler
=============================================================================
