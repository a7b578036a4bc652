---------------------------- MODULE MutexProofs ----------------------------
(***************************************************************************)
(* For any number of threads, mutexes and priorities: the waiting lists    *)
(* hold the threads that wait, an owner runs at least at the priority of   *)
(* every waiter, what was inherited is given back, and the loop of         *)
(* _thread_update_priority ends, also on a cycle of owners.                *)
(***************************************************************************)
EXTENDS Mutex, SequenceTheorems, FiniteSetTheorems, WellFoundedInduction, TLAPS

-----------------------------------------------------------------------------
(* Least elements. *)

\* A set of natural numbers that is not empty has a least element, Min.
LEMMA MinOfNats ==
    ASSUME NEW S \in SUBSET Nat, S # {}
    PROVE  Min(S) \in S /\ \A y \in S : Min(S) <= y
<1> DEFINE Less == {p \in Nat \X Nat : p[1] < p[2]}
<1>1. IsWellFoundedOn(Less, Nat)
  BY NatLessThanWellFounded, Zenon DEF OpToRel
<1> HIDE DEF Less
<1>2. PICK x \in S : \A y \in S : ~(<<y, x>> \in Less)
  BY <1>1, WFMin, Zenon
<1>3. ASSUME NEW y \in S PROVE x <= y
  <2>1. <<y, x>> \notin Less
    BY <1>2
  <2>2. <<y, x>> \in Nat \X Nat /\ <<y, x>>[1] = y /\ <<y, x>>[2] = x
    OBVIOUS
  <2>3. ~(y < x)
    BY <2>1, <2>2, Zenon DEF Less
  <2>4. QED
    BY <2>3
<1>4. QED
  BY <1>3 DEF Min

\* Induction up to a number, for a set: what holds of 0 and passes from each
\* number to the next holds of all.
LEMMA UpTo ==
    ASSUME NEW N \in Nat, NEW P, 0 \in P, \A n \in 0 .. N - 1 : n \in P => n + 1 \in P
    PROVE  \A n \in 0 .. N : n \in P
<1> DEFINE S == {n \in 0 .. N : n \notin P}
<1>1. SUFFICES ASSUME S # {} PROVE FALSE
  OBVIOUS
<1>2. S \in SUBSET Nat
  OBVIOUS
<1>3. Min(S) \in S /\ \A y \in S : Min(S) <= y
  BY <1>1, <1>2, MinOfNats
<1> DEFINE k == Min(S)
<1>4. k \in 0 .. N /\ k \notin P
  BY <1>3
<1>5. \A y \in S : k <= y
  BY <1>3
<1> HIDE DEF k
<1>6. k # 0 /\ k - 1 \in 0 .. N - 1
  BY <1>4
<1>7. k - 1 \notin S
  BY <1>4, <1>5
<1>8. k - 1 \in P
  BY <1>6, <1>7
<1>9. k - 1 + 1 \in P
  BY <1>6, <1>8
<1>10. QED
  BY <1>4, <1>9

-----------------------------------------------------------------------------
(* Waiting lists: sequences without repetitions, sorted by priority. *)

Sorted(q, cur) == \A i, j \in DOMAIN q : i < j => cur[q[i]] <= cur[q[j]]

\* Sorted but for the place of t.
SortedBut(q, cur, t) ==
    \A i, j \in DOMAIN q : i < j /\ q[i] # t /\ q[j] # t => cur[q[i]] <= cur[q[j]]

\* The elements of a sequence.
LEMMA Elements ==
    ASSUME NEW S, NEW q \in Seq(S)
    PROVE  /\ Len(q) \in Nat /\ DOMAIN q = 1 .. Len(q)
           /\ \A i \in 1 .. Len(q) : q[i] \in S
           /\ \A x : x \in ToSet(q) <=> \E i \in 1 .. Len(q) : q[i] = x
<1>1. Len(q) \in Nat /\ DOMAIN q = 1 .. Len(q) /\ \A i \in 1 .. Len(q) : q[i] \in S
  OBVIOUS
<1>2. QED
  BY <1>1 DEF ToSet

\* The library's InsertAt.
LEMMA Inserted ==
    ASSUME NEW S, NEW q \in Seq(S), NEW e \in S, NEW k \in 1 .. Len(q) + 1
    PROVE  /\ InsertAt(q, k, e) \in Seq(S)
           /\ Len(InsertAt(q, k, e)) = Len(q) + 1
           /\ \A i \in 1 .. Len(q) + 1 : InsertAt(q, k, e)[i] =
                  IF i < k THEN q[i] ELSE IF i = k THEN e ELSE q[i - 1]
<1> DEFINE a == SubSeq(q, 1, k - 1)
           b == SubSeq(q, k, Len(q))
<1>1. Len(q) \in Nat /\ \A i \in 1 .. Len(q) : q[i] \in S
  BY Elements
<1>2. \A i \in 1 .. k - 1 : q[i] \in S
  BY <1>1
<1>3. \A i \in k .. Len(q) : q[i] \in S
  BY <1>1
<1>4. a \in Seq(S) /\ Len(a) = k - 1 /\ \A i \in 1 .. k - 1 : a[i] = q[i]
  <2>1. /\ SubSeq(q, 1, k - 1) \in Seq(S)
        /\ Len(SubSeq(q, 1, k - 1)) = IF 1 <= k - 1 THEN k - 1 - 1 + 1 ELSE 0
        /\ \A i \in 1 .. k - 1 - 1 + 1 : SubSeq(q, 1, k - 1)[i] = q[1 + i - 1]
    BY <1>1, <1>2, SubSeqProperties
  <2>2. QED
    BY <1>1, <2>1
<1>5. b \in Seq(S) /\ Len(b) = Len(q) - k + 1 /\ \A i \in 1 .. Len(q) - k + 1 : b[i] = q[k + i - 1]
  <2>1. /\ SubSeq(q, k, Len(q)) \in Seq(S)
        /\ Len(SubSeq(q, k, Len(q))) = IF k <= Len(q) THEN Len(q) - k + 1 ELSE 0
        /\ \A i \in 1 .. Len(q) - k + 1 : SubSeq(q, k, Len(q))[i] = q[k + i - 1]
    BY <1>1, <1>3, SubSeqProperties
  <2>2. QED
    BY <1>1, <2>1
<1> HIDE DEF a, b
<1> DEFINE c == a \o <<e>>
<1>6. <<e>> \in Seq(S) /\ Len(<<e>>) = 1 /\ <<e>>[1] = e
  OBVIOUS
<1>7. /\ c \in Seq(S) /\ Len(c) = k
      /\ \A i \in 1 .. k : c[i] = IF i <= k - 1 THEN q[i] ELSE e
  <2>1. /\ c \in Seq(S) /\ Len(c) = Len(a) + Len(<<e>>)
        /\ \A i \in 1 .. Len(a) + Len(<<e>>) :
              c[i] = IF i <= Len(a) THEN a[i] ELSE <<e>>[i - Len(a)]
    BY <1>4, <1>6, ConcatProperties
  <2>2. QED
    BY <1>4, <1>6, <2>1
<1> HIDE DEF c
<1>8. /\ c \o b \in Seq(S) /\ Len(c \o b) = Len(c) + Len(b)
      /\ \A i \in 1 .. Len(c) + Len(b) : (c \o b)[i] = IF i <= Len(c) THEN c[i] ELSE b[i - Len(c)]
  BY <1>5, <1>7, ConcatProperties
<1>9. InsertAt(q, k, e) = c \o b
  BY DEF InsertAt, a, b, c
<1>10. Len(c) + Len(b) = Len(q) + 1
  BY <1>1, <1>5, <1>7
<1>11. ASSUME NEW i \in 1 .. Len(q) + 1
       PROVE  (c \o b)[i] = IF i < k THEN q[i] ELSE IF i = k THEN e ELSE q[i - 1]
  <2>1. CASE i <= k
    BY <1>1, <1>7, <1>8, <1>10, <2>1
  <2>2. CASE i > k
    <3>1. i - k \in 1 .. Len(q) - k + 1 /\ k + (i - k) - 1 = i - 1
      BY <1>1, <2>2
    <3>2. (c \o b)[i] = b[i - k]
      BY <1>1, <1>7, <1>8, <1>10, <2>2
    <3>3. QED
      BY <1>5, <2>2, <3>1, <3>2
  <2>3. i \in Int /\ k \in Int /\ (i <= k \/ i > k)
    BY <1>1
  <2>4. QED
    BY <2>1, <2>2, <2>3
<1>12. QED
  BY <1>8, <1>9, <1>10, <1>11

\* The library's RemoveAt.
LEMMA RemovedAt ==
    ASSUME NEW S, NEW q \in Seq(S), NEW k \in 1 .. Len(q)
    PROVE  /\ RemoveAt(q, k) \in Seq(S)
           /\ Len(RemoveAt(q, k)) = Len(q) - 1
           /\ \A i \in 1 .. Len(q) - 1 : RemoveAt(q, k)[i] = IF i < k THEN q[i] ELSE q[i + 1]
<1> DEFINE a == SubSeq(q, 1, k - 1)
           b == SubSeq(q, k + 1, Len(q))
<1>1. Len(q) \in Nat /\ \A i \in 1 .. Len(q) : q[i] \in S
  BY Elements
<1>2. \A i \in 1 .. k - 1 : q[i] \in S
  BY <1>1
<1>3. \A i \in k + 1 .. Len(q) : q[i] \in S
  BY <1>1
<1>4. a \in Seq(S) /\ Len(a) = k - 1 /\ \A i \in 1 .. k - 1 : a[i] = q[i]
  <2>1. /\ SubSeq(q, 1, k - 1) \in Seq(S)
        /\ Len(SubSeq(q, 1, k - 1)) = IF 1 <= k - 1 THEN k - 1 - 1 + 1 ELSE 0
        /\ \A i \in 1 .. k - 1 - 1 + 1 : SubSeq(q, 1, k - 1)[i] = q[1 + i - 1]
    BY <1>1, <1>2, SubSeqProperties
  <2>2. QED
    BY <1>1, <2>1
<1>5. b \in Seq(S) /\ Len(b) = Len(q) - k /\ \A i \in 1 .. Len(q) - k : b[i] = q[k + i]
  <2>1. /\ SubSeq(q, k + 1, Len(q)) \in Seq(S)
        /\ Len(SubSeq(q, k + 1, Len(q))) = IF k + 1 <= Len(q) THEN Len(q) - (k + 1) + 1 ELSE 0
        /\ \A i \in 1 .. Len(q) - (k + 1) + 1 : SubSeq(q, k + 1, Len(q))[i] = q[k + 1 + i - 1]
    BY <1>1, <1>3, SubSeqProperties
  <2>2. QED
    BY <1>1, <2>1
<1> HIDE DEF a, b
<1>6. /\ a \o b \in Seq(S) /\ Len(a \o b) = Len(a) + Len(b)
      /\ \A i \in 1 .. Len(a) + Len(b) : (a \o b)[i] = IF i <= Len(a) THEN a[i] ELSE b[i - Len(a)]
  BY <1>4, <1>5, ConcatProperties
<1>7. RemoveAt(q, k) = a \o b
  BY DEF RemoveAt, a, b
<1>8. Len(a) + Len(b) = Len(q) - 1
  BY <1>1, <1>4, <1>5
<1>9. ASSUME NEW i \in 1 .. Len(q) - 1
      PROVE  (a \o b)[i] = IF i < k THEN q[i] ELSE q[i + 1]
  <2>1. CASE i < k
    BY <1>1, <1>4, <1>6, <1>8, <2>1
  <2>2. CASE i >= k
    <3>1. i - (k - 1) \in 1 .. Len(q) - k /\ k + (i - (k - 1)) = i + 1
      BY <1>1, <2>2
    <3>2. (a \o b)[i] = b[i - (k - 1)]
      BY <1>1, <1>4, <1>6, <1>8, <2>2
    <3>3. QED
      BY <1>5, <2>2, <3>1, <3>2
  <2>3. i \in Int /\ k \in Int /\ (i < k \/ i >= k)
    BY <1>1
  <2>4. QED
    BY <2>1, <2>2, <2>3
<1>10. QED
  BY <1>6, <1>7, <1>8, <1>9

\* Taking a thread off a list leaves the others in their order.
LEMMA Removed ==
    ASSUME NEW S, NEW q \in Seq(S), IsInjective(q), NEW t
    PROVE  /\ RemoveFirst(q, t) \in Seq(S)
           /\ IsInjective(RemoveFirst(q, t))
           /\ ToSet(RemoveFirst(q, t)) = ToSet(q) \ {t}
           /\ \A cur : SortedBut(q, cur, t) => Sorted(RemoveFirst(q, t), cur)
<1> DEFINE I == {i \in 1 .. Len(q) : q[i] = t}
           r == RemoveFirst(q, t)
<1>1. /\ Len(q) \in Nat /\ DOMAIN q = 1 .. Len(q)
      /\ \A x : x \in ToSet(q) <=> \E i \in 1 .. Len(q) : q[i] = x
  BY Elements
<1>2. CASE I = {}
  <2>1. r = q
    BY <1>1, <1>2, Zenon DEF RemoveFirst
  <2>2. \A i \in 1 .. Len(q) : q[i] # t
    BY <1>2
  <2>3. t \notin ToSet(q)
    BY <1>1, <2>2, Zenon
  <2>4. \A cur : SortedBut(q, cur, t) => Sorted(q, cur)
    BY <1>1, <2>2, Zenon DEF SortedBut, Sorted
  <2>5. ToSet(q) = ToSet(q) \ {t}
    BY <2>3, Zenon
  <2>6. QED
    BY <2>1, <2>4, <2>5
<1>3. CASE I # {}
  <2> DEFINE k == Min(I)
  <2>1. I \in SUBSET Nat
    OBVIOUS
  <2>2. k \in I
    BY <1>3, <2>1, MinOfNats, Zenon
  <2>3. k \in 1 .. Len(q) /\ q[k] = t
    BY <2>2
  <2>4. r = RemoveAt(q, k)
    <3>1. \E i \in 1 .. Len(q) : q[i] = t
      BY <2>3
    <3>2. SelectInSeq(q, LAMBDA v : v = t) = k
      BY <1>3, <1>1, Zenon DEF SelectInSeq
    <3>3. QED
      BY <1>1, <3>1, <3>2 DEF RemoveFirst
  <2> HIDE DEF k, I, r
  <2>5. /\ r \in Seq(S) /\ Len(r) = Len(q) - 1
        /\ \A i \in 1 .. Len(q) - 1 : r[i] = IF i < k THEN q[i] ELSE q[i + 1]
    BY <2>3, <2>4, RemovedAt
  <2> DEFINE f(i) == IF i < k THEN i ELSE i + 1
  <2>6. /\ DOMAIN r = 1 .. Len(q) - 1
        /\ \A x : x \in ToSet(r) <=> \E i \in 1 .. Len(q) - 1 : r[i] = x
    BY <2>5, Elements
  <2>7. \A i \in 1 .. Len(q) - 1 : f(i) \in 1 .. Len(q) /\ f(i) # k /\ r[i] = q[f(i)]
    BY <1>1, <2>3, <2>5
  <2>8. \A i, j \in 1 .. Len(q) - 1 : (i < j => f(i) < f(j)) /\ (f(i) = f(j) => i = j)
    BY <1>1, <2>3
  <2>9. \A j \in 1 .. Len(q) : j # k => \E i \in 1 .. Len(q) - 1 : f(i) = j
    <3>1. SUFFICES ASSUME NEW j \in 1 .. Len(q), j # k
                   PROVE  \E i \in 1 .. Len(q) - 1 : f(i) = j
      OBVIOUS
    <3>2. CASE j < k
      BY <1>1, <2>3, <3>1, <3>2
    <3>3. CASE j > k
      <4>1. j - 1 \in 1 .. Len(q) - 1 /\ f(j - 1) = j
        BY <1>1, <2>3, <3>1, <3>3
      <4>2. QED
        BY <4>1
    <3>4. j \in Int /\ k \in Int /\ (j < k \/ j > k)
      BY <1>1, <2>3, <3>1
    <3>5. QED
      BY <3>2, <3>3, <3>4
  <2> HIDE DEF f
  <2>10. \A i \in 1 .. Len(q) : q[i] = t <=> i = k
    BY <1>1, <2>3 DEF IsInjective
  <2>11. IsInjective(r)
    <3>1. SUFFICES ASSUME NEW i \in 1 .. Len(q) - 1, NEW j \in 1 .. Len(q) - 1, r[i] = r[j]
                   PROVE  i = j
      BY <2>6, Zenon DEF IsInjective
    <3>2. f(i) \in DOMAIN q /\ f(j) \in DOMAIN q /\ q[f(i)] = q[f(j)]
      BY <1>1, <2>7, <3>1
    <3>3. f(i) = f(j)
      BY <3>2, Zenon DEF IsInjective
    <3>4. QED
      BY <2>8, <3>3
  <2>12. ToSet(r) = ToSet(q) \ {t}
    <3>1. ASSUME NEW x, x \in ToSet(r) PROVE x \in ToSet(q) /\ x # t
      BY <1>1, <2>6, <2>7, <2>10, <3>1, Zenon
    <3>2. ASSUME NEW x, x \in ToSet(q), x # t PROVE x \in ToSet(r)
      <4>1. PICK j \in 1 .. Len(q) : q[j] = x
        BY <1>1, <3>2, Zenon
      <4>2. j # k
        BY <2>3, <3>2, <4>1
      <4>3. PICK i \in 1 .. Len(q) - 1 : f(i) = j
        BY <2>9, <4>2, Zenon
      <4>4. r[i] = x
        BY <2>7, <4>1, <4>3
      <4>5. QED
        BY <2>6, <4>4, Zenon
    <3>3. QED
      BY <3>1, <3>2, Zenon
  <2>13. \A cur : SortedBut(q, cur, t) => Sorted(r, cur)
    <3>1. SUFFICES ASSUME NEW cur, SortedBut(q, cur, t),
                          NEW i \in DOMAIN r, NEW j \in DOMAIN r, i < j
                   PROVE  cur[r[i]] <= cur[r[j]]
      BY Zenon DEF Sorted
    <3>2. i \in 1 .. Len(q) - 1 /\ j \in 1 .. Len(q) - 1
      BY <2>6, <3>1
    <3>3. f(i) < f(j) /\ r[i] = q[f(i)] /\ r[j] = q[f(j)]
      BY <2>7, <2>8, <3>1, <3>2
    <3>4. f(i) \in DOMAIN q /\ f(j) \in DOMAIN q /\ q[f(i)] # t /\ q[f(j)] # t
      BY <1>1, <2>7, <2>10, <3>2
    <3>5. QED
      BY <3>1, <3>3, <3>4, Zenon DEF SortedBut
  <2>14. QED
    BY <2>5, <2>11, <2>12, <2>13 DEF r
<1>4. QED
  BY <1>2, <1>3

\* rt_susp_list_enqueue keeps a list sorted.
LEMMA Enqueued ==
    ASSUME NEW q \in Seq(Threads), IsInjective(q), NEW cur \in [Threads -> Nat],
           Sorted(q, cur), NEW t \in Threads, t \notin ToSet(q)
    PROVE  /\ Enqueue(q, t, cur) \in Seq(Threads)
           /\ IsInjective(Enqueue(q, t, cur))
           /\ ToSet(Enqueue(q, t, cur)) = ToSet(q) \cup {t}
           /\ Sorted(Enqueue(q, t, cur), cur)
<1> DEFINE L == {i \in DOMAIN q : cur[t] < cur[q[i]]}
           k == IF L = {} THEN Len(q) + 1 ELSE Min(L)
           r == InsertAt(q, k, t)
<1>1. /\ Len(q) \in Nat /\ DOMAIN q = 1 .. Len(q)
      /\ \A i \in 1 .. Len(q) : q[i] \in Threads
      /\ \A x : x \in ToSet(q) <=> \E i \in 1 .. Len(q) : q[i] = x
  BY Elements
<1>2. \A i \in 1 .. Len(q) : q[i] # t
  BY <1>1, Zenon
<1>3. /\ k \in 1 .. Len(q) + 1
      /\ \A i \in 1 .. Len(q) : i < k => cur[q[i]] <= cur[t]
      /\ \A i \in 1 .. Len(q) : i >= k => cur[t] <= cur[q[i]]
  <2>1. \A i \in 1 .. Len(q) : cur[q[i]] \in Nat /\ cur[t] \in Nat
    BY <1>1
  <2>2. CASE L = {}
    <3>1. k = Len(q) + 1
      BY <2>2
    <3>2. \A i \in 1 .. Len(q) : ~(cur[t] < cur[q[i]])
      BY <1>1, <2>2
    <3> HIDE DEF k, L
    <3>3. QED
      BY <1>1, <2>1, <3>1, <3>2
  <2>3. CASE L # {}
    <3>1. L \in SUBSET Nat
      BY <1>1
    <3>2. Min(L) \in L /\ \A y \in L : Min(L) <= y
      BY <2>3, <3>1, MinOfNats, Zenon
    <3>3. k = Min(L)
      BY <2>3
    <3> HIDE DEF k
    <3>4. k \in 1 .. Len(q) /\ cur[t] < cur[q[k]]
      BY <1>1, <3>2, <3>3
    <3>5. \A i \in 1 .. Len(q) : cur[t] < cur[q[i]] => k <= i
      BY <1>1, <3>2, <3>3
    <3>6. ASSUME NEW i \in 1 .. Len(q), i >= k PROVE cur[t] <= cur[q[i]]
      <4>1. i = k \/ k < i
        BY <3>4, <3>6
      <4>2. cur[q[k]] <= cur[q[i]]
        BY <1>1, <2>1, <3>4, <4>1 DEF Sorted
      <4>3. QED
        BY <2>1, <3>4, <4>2
    <3> HIDE DEF L
    <3>7. QED
      BY <1>1, <2>1, <3>4, <3>5, <3>6
  <2>4. QED
    BY <2>2, <2>3
<1>4. Enqueue(q, t, cur) = r
  BY Zenon DEF Enqueue
<1> HIDE DEF L, k, r
<1>5. /\ r \in Seq(Threads) /\ Len(r) = Len(q) + 1
      /\ \A i \in 1 .. Len(q) + 1 : r[i] = IF i < k THEN q[i] ELSE IF i = k THEN t ELSE q[i - 1]
  BY <1>3, Inserted DEF r
<1>6. /\ DOMAIN r = 1 .. Len(q) + 1
      /\ \A x : x \in ToSet(r) <=> \E i \in 1 .. Len(q) + 1 : r[i] = x
  BY <1>5, Elements
<1>7. \A i \in 1 .. Len(q) + 1 :
         /\ i < k => i \in 1 .. Len(q) /\ r[i] = q[i]
         /\ i = k => r[i] = t
         /\ i > k => i - 1 \in 1 .. Len(q) /\ r[i] = q[i - 1]
  BY <1>1, <1>3, <1>5
<1>8. IsInjective(r)
  <2>1. SUFFICES ASSUME NEW i \in 1 .. Len(q) + 1, NEW j \in 1 .. Len(q) + 1, r[i] = r[j]
                 PROVE  i = j
    BY <1>6 DEF IsInjective
  <2>2. \A a, b \in 1 .. Len(q) : q[a] = q[b] => a = b
    BY <1>1 DEF IsInjective
  <2> DEFINE f(n) == IF n < k THEN n ELSE n - 1
  <2>3. \A n \in 1 .. Len(q) + 1 : n # k => f(n) \in 1 .. Len(q) /\ r[n] = q[f(n)]
    BY <1>1, <1>3, <1>7
  <2>4. k \in 1 .. Len(q) + 1 /\ r[k] = t
    BY <1>3, <1>7
  <2>5. i # k /\ j # k => (f(i) = f(j) => i = j)
    BY <1>1, <1>3
  <2> HIDE DEF f
  <2>6. \A n \in 1 .. Len(q) + 1 : n # k => r[n] # t
    BY <1>2, <2>3, Zenon
  <2>7. QED
    BY <2>1, <2>2, <2>3, <2>4, <2>5, <2>6, Zenon
<1>9. ToSet(r) = ToSet(q) \cup {t}
  <2>1. ASSUME NEW x, x \in ToSet(r) PROVE x \in ToSet(q) \/ x = t
    <3>1. PICK i \in 1 .. Len(q) + 1 : r[i] = x
      BY <1>6, <2>1, Zenon
    <3>2. i < k \/ i = k \/ i > k
      BY <1>1, <1>3
    <3>3. QED
      BY <1>1, <1>7, <3>1, <3>2, Zenon
  <2>2. k \in 1 .. Len(q) + 1 /\ r[k] = t
    BY <1>3, <1>7
  <2>3. ASSUME NEW x, x \in ToSet(q) PROVE x \in ToSet(r)
    <3>1. PICK i \in 1 .. Len(q) : q[i] = x
      BY <1>1, <2>3, Zenon
    <3>2. CASE i < k
      <4>1. i \in 1 .. Len(q) + 1 /\ r[i] = x
        BY <1>1, <1>7, <3>1, <3>2
      <4>2. QED
        BY <1>6, <4>1, Zenon
    <3>3. CASE i >= k
      <4>1. i + 1 \in 1 .. Len(q) + 1 /\ r[i + 1] = q[i + 1 - 1] /\ i + 1 - 1 = i
        BY <1>1, <1>3, <1>7, <3>1, <3>3
      <4>2. r[i + 1] = x
        BY <3>1, <4>1
      <4>3. QED
        BY <1>6, <4>1, <4>2, Zenon
    <3>4. i < k \/ i >= k
      BY <1>1, <1>3
    <3>5. QED
      BY <3>2, <3>3, <3>4, Zenon
  <2>4. QED
    BY <1>6, <2>1, <2>2, <2>3, Zenon
<1>10. Sorted(r, cur)
  <2>1. SUFFICES ASSUME NEW i \in 1 .. Len(q) + 1, NEW j \in 1 .. Len(q) + 1, i < j
                 PROVE  cur[r[i]] <= cur[r[j]]
    BY <1>6 DEF Sorted
  <2>2. \A a, b \in 1 .. Len(q) : a < b => cur[q[a]] <= cur[q[b]]
    BY <1>1 DEF Sorted
  <2>3. CASE i < k /\ j < k
    BY <1>1, <1>7, <2>1, <2>2, <2>3
  <2>4. CASE i < k /\ j = k
    BY <1>1, <1>3, <1>7, <2>1, <2>4
  <2>5. CASE i = k /\ j > k
    <3>1. j - 1 \in 1 .. Len(q) /\ j - 1 >= k /\ r[j] = q[j - 1] /\ r[i] = t
      BY <1>1, <1>3, <1>7, <2>1, <2>5
    <3>2. QED
      BY <1>3, <3>1
  <2>6. CASE i < k /\ j > k
    <3>1. j - 1 \in 1 .. Len(q) /\ i < j - 1 /\ i \in 1 .. Len(q) /\ r[j] = q[j - 1] /\ r[i] = q[i]
      BY <1>1, <1>3, <1>7, <2>1, <2>6
    <3>2. QED
      BY <2>2, <3>1
  <2>7. CASE i > k /\ j > k
    <3>1. /\ j - 1 \in 1 .. Len(q) /\ i - 1 < j - 1 /\ i - 1 \in 1 .. Len(q)
          /\ r[j] = q[j - 1] /\ r[i] = q[i - 1]
      BY <1>1, <1>3, <1>7, <2>1, <2>7
    <3>2. QED
      BY <2>2, <3>1
  <2>8. i \in Int /\ j \in Int /\ k \in Int
    BY <1>3
  <2>9. QED
    BY <2>1, <2>3, <2>4, <2>5, <2>6, <2>7, <2>8
<1>11. QED
  BY <1>4, <1>5, <1>8, <1>9, <1>10

\* A thread whose priority has changed gets its place again.
LEMMA Requeued ==
    ASSUME NEW q \in Seq(Threads), IsInjective(q), NEW cur \in [Threads -> Nat],
           NEW t \in Threads, SortedBut(q, cur, t), t \in ToSet(q)
    PROVE  /\ Requeue(q, t, cur) \in Seq(Threads)
           /\ IsInjective(Requeue(q, t, cur))
           /\ ToSet(Requeue(q, t, cur)) = ToSet(q)
           /\ Sorted(Requeue(q, t, cur), cur)
<1> DEFINE r == RemoveFirst(q, t)
<1>1. r \in Seq(Threads) /\ IsInjective(r) /\ ToSet(r) = ToSet(q) \ {t} /\ Sorted(r, cur)
  BY Removed
<1>2. t \notin ToSet(r)
  BY <1>1, Zenon
<1>3. ToSet(q) = ToSet(r) \cup {t}
  BY <1>1, Zenon
<1>4. Requeue(q, t, cur) = Enqueue(r, t, cur)
  BY DEF Requeue
<1> HIDE DEF r
<1>5. QED
  BY <1>1, <1>2, <1>3, <1>4, Enqueued

\* The first thread of a sorted list has the highest priority of the list.
LEMMA FirstIsHighest ==
    ASSUME NEW q \in Seq(Threads), NEW cur \in [Threads -> 0 .. NoPrio - 1],
           Sorted(q, cur)
    PROVE  /\ FirstPrio(q, cur) \in 0 .. NoPrio
           /\ \A u \in ToSet(q) : FirstPrio(q, cur) <= cur[u]
           /\ q = <<>> => FirstPrio(q, cur) = NoPrio
           /\ q # <<>> => Head(q) \in ToSet(q) /\ FirstPrio(q, cur) = cur[Head(q)]
<1>1. /\ Len(q) \in Nat /\ DOMAIN q = 1 .. Len(q)
      /\ \A i \in 1 .. Len(q) : q[i] \in Threads
      /\ \A x : x \in ToSet(q) <=> \E i \in 1 .. Len(q) : q[i] = x
  BY Elements
<1>2. CASE q = <<>>
  <2>1. Len(q) = 0
    BY <1>2
  <2>2. \A x : x \notin ToSet(q)
    BY <1>1, <2>1
  <2>3. FirstPrio(q, cur) = NoPrio
    BY <1>2 DEF FirstPrio
  <2>4. QED
    BY <1>2, <2>2, <2>3, PrioAssumption
<1>3. CASE q # <<>>
  <2>1. Len(q) # 0 /\ Head(q) = q[1]
    BY <1>3
  <2>2. 1 \in 1 .. Len(q)
    BY <1>1, <2>1
  <2>3. Head(q) \in ToSet(q) /\ Head(q) \in Threads
    BY <1>1, <2>1, <2>2
  <2>4. FirstPrio(q, cur) = cur[Head(q)]
    BY <1>3 DEF FirstPrio
  <2>5. ASSUME NEW i \in 1 .. Len(q) PROVE cur[q[1]] <= cur[q[i]]
    <3>1. q[1] \in Threads /\ q[i] \in Threads
      BY <1>1, <2>2
    <3>2. cur[q[1]] \in Int /\ cur[q[i]] \in Int
      BY <3>1
    <3>3. CASE i = 1
      BY <3>2, <3>3
    <3>4. CASE i # 1
      <4>1. 1 < i /\ i \in DOMAIN q /\ 1 \in DOMAIN q
        BY <1>1, <2>2, <3>4
      <4>2. QED
        BY <4>1, Zenon DEF Sorted
    <3>5. QED
      BY <3>3, <3>4
  <2>6. cur[Head(q)] \in 0 .. NoPrio
    BY <2>3, PrioAssumption
  <2>7. \A u \in ToSet(q) : cur[Head(q)] <= cur[u]
    BY <1>1, <2>1, <2>5
  <2>8. QED
    BY <1>3, <2>3, <2>4, <2>6, <2>7
<1>4. QED
  BY <1>2, <1>3

\* The list without its first thread.
LEMMA Beheaded ==
    ASSUME NEW q \in Seq(Threads), IsInjective(q), q # <<>>
    PROVE  /\ Tail(q) \in Seq(Threads) /\ IsInjective(Tail(q))
           /\ ToSet(Tail(q)) = ToSet(q) \ {Head(q)}
           /\ \A cur : Sorted(q, cur) => Sorted(Tail(q), cur)
<1> DEFINE r == Tail(q)
<1>1. /\ Len(q) \in Nat /\ DOMAIN q = 1 .. Len(q)
      /\ \A x : x \in ToSet(q) <=> \E i \in 1 .. Len(q) : q[i] = x
  BY Elements
<1>2. Len(q) # 0 /\ Head(q) = q[1]
  OBVIOUS
<1>3. /\ r \in Seq(Threads) /\ Len(r) = Len(q) - 1
      /\ \A i \in 1 .. Len(r) : r[i] = q[i + 1]
  BY HeadTailProperties
<1> HIDE DEF r
<1>4. /\ DOMAIN r = 1 .. Len(q) - 1
      /\ \A x : x \in ToSet(r) <=> \E i \in 1 .. Len(q) - 1 : r[i] = x
  BY <1>3, Elements
<1>5. \A i \in 1 .. Len(q) - 1 : i + 1 \in DOMAIN q /\ r[i] = q[i + 1] /\ i + 1 # 1
  BY <1>1, <1>3
<1>6. 1 \in DOMAIN q
  BY <1>1, <1>2
<1>7. IsInjective(r)
  <2>1. SUFFICES ASSUME NEW i \in 1 .. Len(q) - 1, NEW j \in 1 .. Len(q) - 1, r[i] = r[j]
                 PROVE  i = j
    BY <1>4 DEF IsInjective
  <2>2. q[i + 1] = q[j + 1] /\ i + 1 \in DOMAIN q /\ j + 1 \in DOMAIN q
    BY <1>5, <2>1
  <2>3. i + 1 = j + 1
    BY <2>2, Zenon DEF IsInjective
  <2>4. QED
    BY <2>3
<1>8. ToSet(r) = ToSet(q) \ {Head(q)}
  <2>1. ASSUME NEW x, x \in ToSet(r) PROVE x \in ToSet(q) /\ x # Head(q)
    <3>1. PICK i \in 1 .. Len(q) - 1 : r[i] = x
      BY <1>4, <2>1, Zenon
    <3>2. i + 1 \in DOMAIN q /\ q[i + 1] = x /\ i + 1 # 1
      BY <1>5, <3>1
    <3>3. q[i + 1] # q[1]
      BY <1>6, <3>2, Zenon DEF IsInjective
    <3>4. QED
      BY <1>1, <1>2, <3>2, <3>3, Zenon
  <2>2. ASSUME NEW x, x \in ToSet(q), x # Head(q) PROVE x \in ToSet(r)
    <3>1. PICK i \in 1 .. Len(q) : q[i] = x
      BY <1>1, <2>2, Zenon
    <3>2. i - 1 \in 1 .. Len(q) - 1 /\ (i - 1) + 1 = i
      BY <1>1, <1>2, <2>2, <3>1
    <3>3. r[i - 1] = x
      BY <1>5, <3>1, <3>2
    <3>4. QED
      BY <1>4, <3>2, <3>3, Zenon
  <2>3. QED
    BY <2>1, <2>2, Zenon
<1>9. \A cur : Sorted(q, cur) => Sorted(r, cur)
  <2>1. SUFFICES ASSUME NEW cur, Sorted(q, cur), NEW i \in 1 .. Len(q) - 1,
                        NEW j \in 1 .. Len(q) - 1, i < j
                 PROVE  cur[r[i]] <= cur[r[j]]
    BY <1>4 DEF Sorted
  <2>2. i + 1 < j + 1
    BY <2>1
  <2>3. cur[q[i + 1]] <= cur[q[j + 1]]
    BY <1>5, <2>1, <2>2, Zenon DEF Sorted
  <2>4. QED
    BY <1>5, <2>3
<1>10. QED
  BY <1>3, <1>7, <1>8, <1>9 DEF r

-----------------------------------------------------------------------------
(* Priorities. *)

Prios == 0 .. NoPrio

\* _thread_get_mutex_priority: no lower than the thread's own priority, the
\* priorities of its mutexes and their ceilings, and equal to one of them.
LEMMA PriorityOfHolder ==
    ASSUME NEW t \in Threads, NEW H \in SUBSET Mutexes,
           NEW mp \in [Mutexes -> Prios], NEW ceil \in [Mutexes -> Prios]
    PROVE  LET p == MutexPriority(t, H, mp, ceil)
           IN  /\ p \in 0 .. NoPrio - 1 /\ p <= InitPrio[t]
               /\ \A m \in H : p <= mp[m] /\ p <= ceil[m]
               /\ p = InitPrio[t] \/ \E m \in H : p = mp[m] \/ p = ceil[m]
<1> DEFINE S == {InitPrio[t]} \cup {mp[m] : m \in H} \cup {ceil[m] : m \in H}
           p == Min(S)
<1>1. InitPrio[t] \in 0 .. NoPrio - 1 /\ NoPrio \in Nat
  BY PrioAssumption
<1>2. \A m \in H : mp[m] \in Nat /\ ceil[m] \in Nat
  BY <1>1 DEF Prios
<1>3. S \in SUBSET Nat
  BY <1>1, <1>2
<1>4. S # {}
  OBVIOUS
<1>5. p \in S /\ \A y \in S : p <= y
  BY <1>3, <1>4, MinOfNats, Zenon
<1>6. MutexPriority(t, H, mp, ceil) = p
  BY Zenon DEF MutexPriority
<1>7. p \in Nat
  BY <1>3, <1>5
<1> HIDE DEF p
<1>8. p <= InitPrio[t] /\ \A m \in H : p <= mp[m] /\ p <= ceil[m]
  BY <1>5
<1>9. p = InitPrio[t] \/ \E m \in H : p = mp[m] \/ p = ceil[m]
  BY <1>5
<1>10. p \in 0 .. NoPrio - 1
  BY <1>1, <1>7, <1>8
<1>11. QED
  BY <1>6, <1>8, <1>9, <1>10, Zenon

-----------------------------------------------------------------------------
(* The loop of _thread_update_priority. *)

\* The number of rounds is a number.
LEMMA TurnsIsNat == Turns \in Nat
<1>1. Cardinality(Threads) \in Nat
  BY ThreadsAssumption, FS_CardinalityType
<1>2. NoPrio \in Nat
  BY PrioAssumption
<1> HIDE DEF Turns
<1>3. QED
  BY <1>1, <1>2 DEF Turns

\* The loop as a function of the number of its rounds exists.
LEMMA ChainUnfolds ==
    ASSUME NEW s
    PROVE  /\ Chain(s)[0] = s
           /\ \A n \in 1 .. Turns : Chain(s)[n] = Round(Chain(s)[n - 1])
<1> DEFINE Is(f, k) == f = [n \in 0 .. k |-> IF n = 0 THEN s ELSE Round(f[n - 1])]
           P == {k \in Nat : \E f : Is(f, k)}
<1>1. 0 \in P
  <2> DEFINE f == [n \in 0 .. 0 |-> s]
  <2>1. Is(f, 0)
    OBVIOUS
  <2>2. QED
    BY <2>1
<1>2. \A k \in 0 .. Turns - 1 : k \in P => k + 1 \in P
  <2>1. SUFFICES ASSUME NEW k \in 0 .. Turns - 1, k \in P PROVE k + 1 \in P
    OBVIOUS
  <2>2. PICK f : Is(f, k)
    BY <2>1
  <2>3. k \in Nat
    BY TurnsIsNat
  <2> DEFINE g == [n \in 0 .. k + 1 |-> IF n <= k THEN f[n] ELSE Round(f[k])]
  <2>4. ASSUME NEW n \in 0 .. k + 1
        PROVE  g[n] = IF n = 0 THEN s ELSE Round(g[n - 1])
    <3>1. CASE n = 0
      BY <2>2, <2>3, <3>1
    <3>2. CASE n # 0 /\ n <= k
      <4>1. n \in 0 .. k /\ n - 1 \in 0 .. k + 1 /\ n - 1 <= k
        BY <2>3, <3>2
      <4>2. g[n] = f[n] /\ g[n - 1] = f[n - 1]
        BY <3>2, <4>1
      <4>3. f[n] = Round(f[n - 1])
        BY <2>2, <3>2, <4>1
      <4>4. QED
        BY <3>2, <4>2, <4>3
    <3>3. CASE n = k + 1
      <4>1. n - 1 = k /\ k \in 0 .. k + 1 /\ ~(n <= k) /\ n # 0
        BY <2>3, <3>3
      <4>2. g[n] = Round(f[k]) /\ g[k] = f[k]
        BY <2>3, <4>1
      <4>3. QED
        BY <4>1, <4>2
    <3>4. n = 0 \/ (n # 0 /\ n <= k) \/ n = k + 1
      BY <2>3
    <3>5. QED
      BY <3>1, <3>2, <3>3, <3>4
  <2>5. DOMAIN g = 0 .. k + 1
    OBVIOUS
  <2>6. g = [n \in DOMAIN g |-> g[n]]
    OBVIOUS
  <2> HIDE DEF g
  <2>7. Is(g, k + 1)
    BY <2>4, <2>5, <2>6
  <2>8. k + 1 \in Nat
    BY <2>3
  <2>9. QED
    BY <2>7, <2>8
<1> HIDE DEF P
<1>3. Turns \in P
  <2>1. Turns \in 0 .. Turns
    BY TurnsIsNat
  <2>2. QED
    BY <1>1, <1>2, <2>1, TurnsIsNat, UpTo, Zenon
<1>4. PICK f : Is(f, Turns)
  BY <1>3 DEF P
<1> DEFINE c == Chain(s)
<1>5. c = CHOOSE h : Is(h, Turns)
  BY Zenon DEF Chain
<1>6. Is(c, Turns)
  BY <1>4, <1>5, Zenon
<1> HIDE DEF c
<1>7. \A n \in 0 .. Turns : c[n] = IF n = 0 THEN s ELSE Round(c[n - 1])
  BY <1>6, Zenon
<1>8. 0 \in 0 .. Turns /\ \A n \in 1 .. Turns : n \in 0 .. Turns /\ n # 0
  BY TurnsIsNat
<1>9. c[0] = s /\ \A n \in 1 .. Turns : c[n] = Round(c[n - 1])
  BY <1>7, <1>8, Zenon
<1>10. QED
  BY <1>9 DEF c

(* What holds of the priorities and the lists: each part names what it      *)
(* speaks of, cur and mp the priorities of threads and mutexes, q the lists,*)
(* w what each thread waits for, own the owners.                            *)

\* The list of a mutex holds the threads that wait for it, each once.
Queues(w, q) ==
    \A m \in Mutexes : IsInjective(q[m]) /\ ToSet(q[m]) = {u \in Threads : w[u] = m}

\* What a thread waits for is owned by another.
Owned(w, own) ==
    \A u \in Threads : w[u] # NoMutex => own[w[u]] \in Threads \ {u}

\* An owner has at least the priority of its mutex, ...
Inherits(cur, mp, own) ==
    \A m \in Mutexes : own[m] # NoThread => cur[own[m]] <= mp[m]

\* ... and a mutex that of every waiter, but for t, whose priority is new.
Highest(cur, mp, w, t) ==
    \A u \in Threads : w[u] # NoMutex /\ u # t => mp[w[u]] <= cur[u]

\* The lists are sorted, but for t.
Ordered(cur, q, t) == \A m \in Mutexes : SortedBut(q[m], cur, t)

\* Inheritance only raises a priority ...
Bounded(cur) == \A u \in Threads : cur[u] <= InitPrio[u]

\* ... and something that the thread holds is the reason for it.
Justified(u, cur, mp, ceil, own) ==
    \/ InitPrio[u] <= cur[u]
    \/ \E m \in Mutexes : own[m] = u /\ (mp[m] <= cur[u] \/ ceil[m] <= cur[u])

\* The threads X may have kept an old priority c without a reason.
Restores(cur, mp, ceil, own, X, c) ==
    \A u \in Threads : Justified(u, cur, mp, ceil, own) \/ (u \in X /\ cur[u] = c[u])

\* The records the loop works on.
Records ==
    [curr : [Threads -> 0 .. NoPrio - 1], prio : [Mutexes -> Prios],
     susp : [Mutexes -> Seq(Threads)], ceiling : [Mutexes -> Prios],
     waits : [Threads -> Mutexes \cup {NoMutex}], thread : Threads \cup {NoThread}]

\* The invariant of the loop.
Loop(s, X, c) ==
    /\ s \in Records
    /\ Queues(s.waits, s.susp)
    /\ Owned(s.waits, owner)
    /\ Inherits(s.curr, s.prio, owner)
    /\ Highest(s.curr, s.prio, s.waits, s.thread)
    /\ Ordered(s.curr, s.susp, s.thread)
    /\ Bounded(s.curr)
    /\ Restores(s.curr, s.prio, s.ceiling, owner, X, c)

\* A round goes to a thread with a new priority, no lower than the last, or
\* the loop ends.
Advances(s, r) ==
    /\ r.thread # NoThread =>
          /\ s.thread # NoThread
          /\ r.curr[r.thread] <= s.curr[s.thread]
          /\ r.curr[r.thread] # s.curr[r.thread]
          /\ \A u \in Threads : u # r.thread => r.curr[u] = s.curr[u]
    /\ r.waits = s.waits /\ r.ceiling = s.ceiling

\* The fields of the record after a round that has something to do.
LEMMA RoundFields ==
    ASSUME NEW s \in Records, s.thread # NoThread, s.waits[s.thread] # NoMutex,
           owner \in [Mutexes -> Threads \cup {NoThread}],
           NEW q, NEW p, NEW mp, NEW m, NEW o,
           m = s.waits[s.thread], o = owner[m],
           q = Requeue(s.susp[m], s.thread, s.curr),
           mp = [s.prio EXCEPT ![m] = FirstPrio(q, s.curr)],
           p = MutexPriority(o, Held(o), mp, s.ceiling)
    PROVE  /\ DOMAIN Round(s) = DOMAIN s
           /\ Round(s).curr = [s.curr EXCEPT ![o] = p]
           /\ Round(s).prio = mp
           /\ Round(s).susp = [s.susp EXCEPT ![m] = q]
           /\ Round(s).ceiling = s.ceiling
           /\ Round(s).waits = s.waits
           /\ Round(s).thread = IF p = s.curr[o] THEN NoThread ELSE o
           /\ (Round(s).curr \in [Threads -> 0 .. NoPrio - 1] /\ Round(s).prio \in [Mutexes -> Prios]
               /\ Round(s).susp \in [Mutexes -> Seq(Threads)] /\ Round(s).thread \in Threads \cup {NoThread})
                  => Round(s) \in Records
<1> DEFINE r == [s EXCEPT !.susp[m] = q, !.prio = mp, !.curr[o] = p,
                          !.thread = IF p = s.curr[o] THEN NoThread ELSE o]
<1>1. Round(s) = r
  BY Zenon DEF Round
<1>2. /\ DOMAIN r = DOMAIN s
      /\ r.curr = [s.curr EXCEPT ![o] = p]
      /\ r.prio = mp
      /\ r.susp = [s.susp EXCEPT ![m] = q]
      /\ r.ceiling = s.ceiling
      /\ r.waits = s.waits
      /\ r.thread = IF p = s.curr[o] THEN NoThread ELSE o
  BY DEF Records
<1>3. (r.curr \in [Threads -> 0 .. NoPrio - 1] /\ r.prio \in [Mutexes -> Prios]
       /\ r.susp \in [Mutexes -> Seq(Threads)] /\ r.thread \in Threads \cup {NoThread})
          => r \in Records
  BY <1>2 DEF Records
<1> HIDE DEF r
<1>4. QED
  BY <1>1, <1>2, <1>3

\* A list stays sorted while the priorities of its threads do not change.
LEMMA SortedStill ==
    ASSUME NEW q \in Seq(Threads), NEW cur, NEW t, SortedBut(q, cur, t), t \notin ToSet(q),
           NEW cur2, NEW t2, \A u \in ToSet(q) : u # t2 => cur2[u] = cur[u]
    PROVE  SortedBut(q, cur2, t2)
<1>1. DOMAIN q = 1 .. Len(q) /\ \A x : x \in ToSet(q) <=> \E i \in 1 .. Len(q) : q[i] = x
  BY Elements
<1>2. \A i \in DOMAIN q : q[i] \in ToSet(q) /\ q[i] # t
  BY <1>1, Zenon
<1>3. SUFFICES ASSUME NEW i \in DOMAIN q, NEW j \in DOMAIN q, i < j, q[i] # t2, q[j] # t2
               PROVE  cur2[q[i]] <= cur2[q[j]]
  BY Zenon DEF SortedBut
<1>4. cur[q[i]] <= cur[q[j]]
  BY <1>2, <1>3, Zenon DEF SortedBut
<1>5. cur2[q[i]] = cur[q[i]] /\ cur2[q[j]] = cur[q[j]]
  BY <1>2, <1>3, Zenon
<1>6. QED
  BY <1>4, <1>5

\* Sorted is sorted but for a thread that is not there.
LEMMA SortedButNone ==
    ASSUME NEW q \in Seq(Threads), NEW cur
    PROVE  SortedBut(q, cur, NoThread) <=> Sorted(q, cur)
<1>1. \A i \in DOMAIN q : q[i] # NoThread
  BY ThreadsAssumption
<1>2. QED
  BY <1>1, Zenon DEF SortedBut, Sorted

\* A round of the loop keeps its invariant.
LEMMA RoundKeeps ==
    ASSUME owner \in [Mutexes -> Threads \cup {NoThread}],
           NEW X, NEW c, NEW s, Loop(s, X, c)
    PROVE  Loop(Round(s), X, c) /\ Advances(s, Round(s))
<1> DEFINE t == s.thread
<1>1. s \in Records
  BY DEF Loop
<1>2. /\ s.curr \in [Threads -> 0 .. NoPrio - 1] /\ s.prio \in [Mutexes -> Prios]
      /\ s.susp \in [Mutexes -> Seq(Threads)] /\ s.ceiling \in [Mutexes -> Prios]
      /\ s.waits \in [Threads -> Mutexes \cup {NoMutex}] /\ t \in Threads \cup {NoThread}
  BY <1>1 DEF Records
<1>3. CASE t = NoThread
  <2>1. Round(s) = s
    BY <1>3 DEF Round
  <2>2. Advances(s, s)
    BY <1>3 DEF Advances
  <2>3. QED
    BY <2>1, <2>2
<1>4. CASE t # NoThread /\ s.waits[t] = NoMutex
  <2> DEFINE r == [s EXCEPT !.thread = NoThread]
  <2>1. Round(s) = r
    BY <1>4 DEF Round
  <2>2. /\ r \in Records /\ r.curr = s.curr /\ r.prio = s.prio /\ r.susp = s.susp
        /\ r.ceiling = s.ceiling /\ r.waits = s.waits /\ r.thread = NoThread
    BY <1>1 DEF Records
  <2> HIDE DEF r
  <2>3. t \in Threads
    BY <1>2, <1>4
  <2>4. Highest(r.curr, r.prio, r.waits, r.thread)
    BY <1>4, <2>2, Zenon DEF Loop, Highest
  <2>5. Ordered(r.curr, r.susp, r.thread)
    <3>1. SUFFICES ASSUME NEW m \in Mutexes PROVE SortedBut(s.susp[m], s.curr, NoThread)
      BY <2>2 DEF Ordered
    <3>2. s.susp[m] \in Seq(Threads)
      BY <1>2
    <3>3. SortedBut(s.susp[m], s.curr, t)
      BY DEF Loop, Ordered
    <3>4. t \notin ToSet(s.susp[m])
      BY <1>4, MutexesAssumption DEF Loop, Queues
    <3>5. QED
      BY <3>2, <3>3, <3>4, SortedStill
  <2>6. Loop(r, X, c)
    BY <2>2, <2>4, <2>5 DEF Loop
  <2>7. Advances(s, r)
    BY <2>2 DEF Advances
  <2>8. QED
    BY <2>1, <2>6, <2>7
<1>5. CASE t # NoThread /\ s.waits[t] # NoMutex
  <2> DEFINE m  == s.waits[t]
             o  == owner[m]
             q  == Requeue(s.susp[m], t, s.curr)
             mp == [s.prio EXCEPT ![m] = FirstPrio(q, s.curr)]
             p  == MutexPriority(o, Held(o), mp, s.ceiling)
             r  == Round(s)
  <2>1. t \in Threads /\ m \in Mutexes
    BY <1>2, <1>5
  <2>2. o \in Threads /\ o # t
    BY <1>5, <2>1 DEF Loop, Owned
  <2>3. \A u \in Threads : s.curr[u] \in 0 .. NoPrio - 1
    BY <1>2
  <2>4. /\ DOMAIN r = DOMAIN s
        /\ r.curr = [s.curr EXCEPT ![o] = p]
        /\ r.prio = mp
        /\ r.susp = [s.susp EXCEPT ![m] = q]
        /\ r.ceiling = s.ceiling
        /\ r.waits = s.waits
        /\ r.thread = IF p = s.curr[o] THEN NoThread ELSE o
        /\ (r.curr \in [Threads -> 0 .. NoPrio - 1] /\ r.prio \in [Mutexes -> Prios]
            /\ r.susp \in [Mutexes -> Seq(Threads)] /\ r.thread \in Threads \cup {NoThread})
               => r \in Records
    BY <1>1, <1>5, RoundFields
  <2>5. /\ q \in Seq(Threads) /\ IsInjective(q) /\ ToSet(q) = ToSet(s.susp[m])
        /\ Sorted(q, s.curr)
    <3>1. s.susp[m] \in Seq(Threads)
      BY <1>2, <2>1
    <3>2. IsInjective(s.susp[m]) /\ t \in ToSet(s.susp[m])
      BY <2>1 DEF Loop, Queues
    <3>3. SortedBut(s.susp[m], s.curr, t)
      BY <2>1 DEF Loop, Ordered
    <3>4. s.curr \in [Threads -> Nat]
      BY <1>2
    <3>5. QED
      BY <2>1, <3>1, <3>2, <3>3, <3>4, Requeued
  <2> HIDE DEF q
  <2>6. /\ FirstPrio(q, s.curr) \in Prios
        /\ \A u \in ToSet(q) : FirstPrio(q, s.curr) <= s.curr[u]
    BY <1>2, <2>5, FirstIsHighest DEF Prios
  <2>7. /\ mp \in [Mutexes -> Prios]
        /\ mp[m] = FirstPrio(q, s.curr)
        /\ \A n \in Mutexes : n # m => mp[n] = s.prio[n]
    BY <1>2, <2>1, <2>6
  <2> HIDE DEF mp
  <2>8. Held(o) \in SUBSET Mutexes /\ \A n \in Mutexes : n \in Held(o) <=> owner[n] = o
    BY DEF Held
  <2>9. /\ p \in 0 .. NoPrio - 1 /\ p <= InitPrio[o]
        /\ \A n \in Held(o) : p <= mp[n] /\ p <= s.ceiling[n]
        /\ p = InitPrio[o] \/ \E n \in Held(o) : p = mp[n] \/ p = s.ceiling[n]
    BY <1>2, <2>2, <2>7, <2>8, PriorityOfHolder, Zenon
  <2>10. r \in Records
    <3>1. r.curr \in [Threads -> 0 .. NoPrio - 1] /\ r.thread \in Threads \cup {NoThread}
      BY <1>2, <2>2, <2>4, <2>9
    <3>2. r.prio \in [Mutexes -> Prios] /\ r.susp \in [Mutexes -> Seq(Threads)]
      BY <1>2, <2>1, <2>4, <2>5, <2>7
    <3>3. QED
      BY <2>4, <3>1, <3>2
  <2> HIDE DEF p, r
  <2>11. r.curr[o] = p /\ \A u \in Threads : u # o => r.curr[u] = s.curr[u]
    BY <1>2, <2>2, <2>4
  <2>12. /\ r.susp[m] = q
         /\ \A n \in Mutexes : n # m => r.susp[n] = s.susp[n]
    BY <1>2, <2>1, <2>4
  <2>13. \A u \in Threads : u # r.thread => r.curr[u] = s.curr[u]
    BY <2>4, <2>11, <2>2
  <2>14. Queues(r.waits, r.susp)
    <3>1. SUFFICES ASSUME NEW n \in Mutexes
                   PROVE  IsInjective(r.susp[n]) /\ ToSet(r.susp[n]) = {u \in Threads : s.waits[u] = n}
      BY <2>4 DEF Queues
    <3>2. IsInjective(s.susp[n]) /\ ToSet(s.susp[n]) = {u \in Threads : s.waits[u] = n}
      BY DEF Loop, Queues
    <3>3. QED
      BY <2>5, <2>12, <3>2
  <2>15. Owned(r.waits, owner)
    BY <2>4 DEF Loop
  <2>16. Inherits(r.curr, r.prio, owner)
    <3>1. SUFFICES ASSUME NEW n \in Mutexes, owner[n] # NoThread
                   PROVE  r.curr[owner[n]] <= mp[n]
      BY <2>4 DEF Inherits
    <3>2. CASE owner[n] = o
      BY <2>8, <2>9, <2>11, <3>2
    <3>3. CASE owner[n] # o
      <4>1. n # m
        BY <3>3
      <4>2. owner[n] \in Threads
        BY <3>1
      <4>3. r.curr[owner[n]] = s.curr[owner[n]] /\ mp[n] = s.prio[n]
        BY <2>7, <2>11, <3>3, <4>1, <4>2
      <4>4. s.curr[owner[n]] <= s.prio[n]
        BY <3>1 DEF Loop, Inherits
      <4>5. QED
        BY <4>3, <4>4
    <3>4. QED
      BY <3>2, <3>3
  <2>17. Highest(r.curr, r.prio, r.waits, r.thread)
    <3>1. SUFFICES ASSUME NEW u \in Threads, s.waits[u] # NoMutex, u # r.thread
                   PROVE  mp[s.waits[u]] <= s.curr[u]
      BY <2>4, <2>13 DEF Highest
    <3>2. s.waits[u] \in Mutexes
      BY <1>2, <3>1
    <3>3. CASE s.waits[u] = m
      <4>1. u \in ToSet(q)
        BY <2>1, <2>5, <3>3 DEF Loop, Queues
      <4>2. QED
        BY <2>6, <2>7, <3>3, <4>1
    <3>4. CASE s.waits[u] # m
      <4>1. u # t
        BY <3>4
      <4>2. s.prio[s.waits[u]] <= s.curr[u]
        BY <3>1, <4>1, Zenon DEF Loop, Highest
      <4>3. QED
        BY <2>7, <3>2, <3>4, <4>2
    <3>5. QED
      BY <3>3, <3>4
  <2>18. Ordered(r.curr, r.susp, r.thread)
    <3>1. SUFFICES ASSUME NEW n \in Mutexes
                   PROVE  SortedBut(r.susp[n], r.curr, r.thread)
      BY Zenon DEF Ordered
    <3>2. CASE n = m
      <4>1. SortedBut(q, s.curr, NoThread)
        BY <2>5, SortedButNone
      <4>2. NoThread \notin ToSet(q)
        BY <2>1, <2>5, ThreadsAssumption DEF Loop, Queues
      <4>3. \A u \in ToSet(q) : u # r.thread => r.curr[u] = s.curr[u]
        BY <2>1, <2>5, <2>13 DEF Loop, Queues
      <4>4. SortedBut(q, r.curr, r.thread)
        BY <2>5, <4>1, <4>2, <4>3, SortedStill
      <4>5. QED
        BY <2>12, <3>2, <4>4
    <3>3. CASE n # m
      <4>1. ToSet(s.susp[n]) = {u \in Threads : s.waits[u] = n} /\ SortedBut(s.susp[n], s.curr, t)
        BY DEF Loop, Queues, Ordered
      <4>2. t \notin ToSet(s.susp[n])
        BY <3>3, <4>1
      <4>3. \A u \in ToSet(s.susp[n]) : u # r.thread => r.curr[u] = s.curr[u]
        BY <2>13, <4>1
      <4>4. s.susp[n] \in Seq(Threads)
        BY <1>2
      <4>5. SortedBut(s.susp[n], r.curr, r.thread)
        BY <4>1, <4>2, <4>3, <4>4, SortedStill
      <4>6. QED
        BY <2>12, <3>3, <4>5
    <3>4. QED
      BY <3>2, <3>3
  <2>19. Bounded(r.curr)
    BY <2>9, <2>11 DEF Loop, Bounded
  <2>20. Restores(r.curr, r.prio, r.ceiling, owner, X, c)
    <3>1. SUFFICES ASSUME NEW u \in Threads
                   PROVE  \/ Justified(u, r.curr, mp, s.ceiling, owner)
                          \/ u \in X /\ r.curr[u] = c[u]
      BY <2>4 DEF Restores
    <3>2. CASE u = o
      <4>1. p <= p
        BY <2>9
      <4>2. CASE p = InitPrio[o]
        BY <2>11, <3>2, <4>1, <4>2 DEF Justified
      <4>3. CASE \E n \in Held(o) : p = mp[n] \/ p = s.ceiling[n]
        BY <2>8, <2>11, <3>2, <4>1, <4>3 DEF Justified
      <4>4. QED
        BY <2>9, <4>2, <4>3
    <3>3. CASE u # o
      <4>1. r.curr[u] = s.curr[u]
        BY <2>11, <3>3
      <4>2. Justified(u, s.curr, s.prio, s.ceiling, owner) \/ (u \in X /\ s.curr[u] = c[u])
        BY Zenon DEF Loop, Restores
      <4>3. ASSUME Justified(u, s.curr, s.prio, s.ceiling, owner)
            PROVE  Justified(u, r.curr, mp, s.ceiling, owner)
        <5>1. \A n \in Mutexes : owner[n] = u => mp[n] = s.prio[n]
          BY <2>7, <3>3
        <5>2. QED
          BY <4>1, <4>3, <5>1 DEF Justified
      <4>4. QED
        BY <4>1, <4>2, <4>3
    <3>4. QED
      BY <3>2, <3>3
  <2>21. Loop(r, X, c)
    BY <2>10, <2>14, <2>15, <2>16, <2>17, <2>18, <2>19, <2>20, Zenon DEF Loop
  <2>22. Advances(s, r)
    <3>1. CASE p = s.curr[o]
      <4>1. r.thread = NoThread
        BY <2>4, <3>1
      <4>2. QED
        BY <2>4, <4>1 DEF Advances
    <3>2. CASE p # s.curr[o]
      <4>1. r.thread = o
        BY <2>4, <3>2
      <4>2. p <= s.curr[t]
        <5>1. mp[m] <= s.curr[t]
          BY <2>1, <2>5, <2>6, <2>7 DEF Loop, Queues
        <5>2. p <= mp[m] /\ mp[m] \in Prios
          BY <2>1, <2>7, <2>8, <2>9
        <5>3. p \in Int /\ mp[m] \in Int /\ s.curr[t] \in Int
          BY <2>1, <2>3, <2>9, <5>2 DEF Prios
        <5>4. QED
          BY <5>1, <5>2, <5>3
      <4>3. QED
        BY <1>5, <2>4, <2>11, <3>2, <4>1, <4>2 DEF Advances
    <3>3. QED
      BY <3>1, <3>2
  <2>23. QED
    BY <2>21, <2>22 DEF r
<1>6. QED
  BY <1>3, <1>4, <1>5

\* P holds the threads the loop has visited with the priorities it gave them:
\* none has a lower priority since, or a higher one than the last.
Visited(s, P) ==
    /\ P \in SUBSET (Threads \X (0 .. NoPrio - 1))
    /\ \A x \in P : s.curr[s.thread] <= s.curr[x[1]] /\ s.curr[x[1]] <= x[2]

\* The loop of _thread_update_priority ends within Turns rounds, also on a cycle
\* of owners, since no thread gets the same priority twice; and it leaves lists
\* and priorities right.
THEOREM LoopEnds ==
    ASSUME owner \in [Mutexes -> Threads \cup {NoThread}],
           NEW X, NEW c, NEW s, Loop(s, X, c)
    PROVE  LET r == Chain(s)[Turns]
           IN  /\ Loop(r, X, c) /\ r.thread = NoThread
               /\ r.waits = s.waits /\ r.ceiling = s.ceiling
<1> DEFINE ch == Chain(s)
           Pairs == Threads \X (0 .. NoPrio - 1)
           Good(n) == /\ Loop(ch[n], X, c)
                      /\ ch[n].waits = s.waits /\ ch[n].ceiling = s.ceiling
           Seen(n) == ch[n].thread # NoThread =>
                         \E P : /\ Visited(ch[n], P) /\ IsFiniteSet(P) /\ Cardinality(P) = n + 1
           Q == {n \in 0 .. Turns : Good(n) /\ Seen(n)}
<1>1. ch[0] = s /\ \A n \in 1 .. Turns : ch[n] = Round(ch[n - 1])
  BY ChainUnfolds
<1> HIDE DEF ch
<1>2. Turns \in Nat /\ NoPrio \in Nat
  BY TurnsIsNat, PrioAssumption
<1>3. ASSUME NEW n, Loop(ch[n], X, c)
      PROVE  /\ \A u \in Threads : ch[n].curr[u] \in 0 .. NoPrio - 1
             /\ ch[n].thread # NoThread => ch[n].thread \in Threads
  <2>1. ch[n] \in Records
    BY <1>3 DEF Loop
  <2>2. ch[n].curr \in [Threads -> 0 .. NoPrio - 1] /\ ch[n].thread \in Threads \cup {NoThread}
    BY <2>1 DEF Records
  <2>3. QED
    BY <2>2
<1>4. 0 \in Q
  <2>1. Good(0)
    BY <1>1
  <2>2. Seen(0)
    <3>1. SUFFICES ASSUME ch[0].thread # NoThread
                   PROVE  \E P : /\ Visited(ch[0], P) /\ IsFiniteSet(P) /\ Cardinality(P) = 0 + 1
      OBVIOUS
    <3> DEFINE t == ch[0].thread
               v == ch[0].curr[t]
    <3>2. t \in Threads /\ v \in 0 .. NoPrio - 1
      BY <1>3, <2>1, <3>1
    <3>3. Visited(ch[0], {<<t, v>>})
      <4>1. {<<t, v>>} \in SUBSET Pairs
        BY <3>2
      <4>2. v <= v
        BY <3>2
      <4>3. \A x \in {<<t, v>>} : v <= ch[0].curr[x[1]] /\ ch[0].curr[x[1]] <= x[2]
        BY <4>2
      <4>4. QED
        BY <4>1, <4>3 DEF Visited
    <3>4. IsFiniteSet({<<t, v>>}) /\ Cardinality({<<t, v>>}) = 1
      BY FS_Singleton, Zenon
    <3> HIDE DEF t, v
    <3>5. QED
      BY <3>3, <3>4
  <2>3. QED
    BY <1>2, <2>1, <2>2
<1>5. \A n \in 0 .. Turns - 1 : n \in Q => n + 1 \in Q
  <2>1. SUFFICES ASSUME NEW n \in 0 .. Turns - 1, Good(n), Seen(n)
                 PROVE  n + 1 \in Q
    OBVIOUS
  <2>2. n + 1 \in 1 .. Turns /\ n + 1 - 1 = n /\ n \in Nat /\ n + 1 \in 0 .. Turns
    BY <1>2
  <2>3. ch[n + 1] = Round(ch[n])
    BY <1>1, <2>2
  <2>4. Loop(ch[n + 1], X, c) /\ Advances(ch[n], ch[n + 1])
    BY <2>1, <2>3, RoundKeeps
  <2>5. Good(n + 1)
    BY <2>1, <2>4 DEF Advances
  <2>6. Seen(n + 1)
    <3>1. SUFFICES ASSUME ch[n + 1].thread # NoThread
                   PROVE  \E P : /\ Visited(ch[n + 1], P) /\ IsFiniteSet(P)
                                 /\ Cardinality(P) = n + 1 + 1
      OBVIOUS
    <3> DEFINE a == ch[n]
               b == ch[n + 1]
               t == b.thread
               v == b.curr[t]
               w == a.curr[a.thread]
    <3>2. /\ a.thread # NoThread /\ v <= w /\ v # a.curr[t]
          /\ \A u \in Threads : u # t => b.curr[u] = a.curr[u]
      BY <2>4, <3>1 DEF Advances
    <3>3. PICK P : Visited(a, P) /\ IsFiniteSet(P) /\ Cardinality(P) = n + 1
      BY <2>1, <3>2
    <3>4. /\ t \in Threads /\ v \in 0 .. NoPrio - 1
          /\ a.thread \in Threads /\ w \in 0 .. NoPrio - 1
          /\ \A u \in Threads : a.curr[u] \in 0 .. NoPrio - 1
      BY <1>3, <2>1, <2>4, <3>1, <3>2
    <3>5. /\ P \in SUBSET Pairs
          /\ \A x \in P : w <= a.curr[x[1]] /\ a.curr[x[1]] <= x[2]
      BY <3>3 DEF Visited
    <3>6. \A x \in P : x[1] \in Threads /\ x[2] \in 0 .. NoPrio - 1
      BY <3>5
    <3> HIDE DEF a, b, t, v, w
    <3>7. \A x \in P : x[1] = t => v < x[2]
      BY <3>2, <3>4, <3>5, <3>6
    <3>8. <<t, v>> \notin P
      <4>1. <<t, v>>[1] = t /\ <<t, v>>[2] = v /\ ~(v < v)
        BY <3>4
      <4>2. QED
        BY <3>7, <4>1, Zenon
    <3> DEFINE R == P \cup {<<t, v>>}
    <3>9. IsFiniteSet(R) /\ Cardinality(R) = n + 1 + 1
      <4>1. /\ IsFiniteSet(P \cup {<<t, v>>})
            /\ Cardinality(P \cup {<<t, v>>}) =
                  IF <<t, v>> \in P THEN Cardinality(P) ELSE Cardinality(P) + 1
        BY <3>3, FS_AddElement
      <4>2. QED
        BY <3>3, <3>8, <4>1
    <3>10. Visited(b, R)
      <4>1. R \in SUBSET Pairs
        BY <3>4, <3>5
      <4>2. ASSUME NEW x \in R PROVE v <= b.curr[x[1]] /\ b.curr[x[1]] <= x[2]
        <5>1. CASE x = <<t, v>>
          <6>1. b.curr[x[1]] = v /\ x[2] = v
            BY <5>1 DEF v
          <6>2. QED
            BY <3>4, <6>1
        <5>2. CASE x \in P /\ x[1] = t
          <6>1. b.curr[x[1]] = v
            BY <5>2 DEF v
          <6>2. v < x[2] /\ x[2] \in 0 .. NoPrio - 1
            BY <3>6, <3>7, <5>2
          <6>3. QED
            BY <3>4, <6>1, <6>2
        <5>3. CASE x \in P /\ x[1] # t
          <6>1. b.curr[x[1]] = a.curr[x[1]] /\ a.curr[x[1]] \in 0 .. NoPrio - 1
            BY <3>2, <3>4, <3>6, <5>3
          <6>2. w <= a.curr[x[1]] /\ a.curr[x[1]] <= x[2]
            BY <3>5, <5>3
          <6>3. QED
            BY <3>2, <3>4, <6>1, <6>2
        <5>4. QED
          BY <5>1, <5>2, <5>3
      <4>3. QED
        BY <4>1, <4>2 DEF Visited, v, t
    <3> HIDE DEF R
    <3>11. QED
      BY <3>9, <3>10 DEF b
  <2>7. QED
    BY <2>2, <2>5, <2>6
<1>6. Turns \in Q
  <2>1. Turns \in 0 .. Turns
    BY <1>2
  <2> HIDE DEF Q
  <2>2. QED
    BY <1>2, <1>4, <1>5, <2>1, UpTo, Zenon
<1>7. Good(Turns) /\ Seen(Turns)
  BY <1>6
<1>8. ch[Turns].thread = NoThread
  <2>1. SUFFICES ASSUME ch[Turns].thread # NoThread PROVE FALSE
    OBVIOUS
  <2>2. PICK P : Visited(ch[Turns], P) /\ IsFiniteSet(P) /\ Cardinality(P) = Turns + 1
    BY <1>7, <2>1
  <2>3. P \in SUBSET Pairs
    BY <2>2 DEF Visited
  <2>4. IsFiniteSet(0 .. NoPrio - 1) /\ Cardinality(0 .. NoPrio - 1) = NoPrio
    <3>1. 0 \in Int /\ NoPrio - 1 \in Int
      BY <1>2
    <3>2. /\ IsFiniteSet(0 .. NoPrio - 1)
          /\ Cardinality(0 .. NoPrio - 1) = IF 0 > NoPrio - 1 THEN 0 ELSE NoPrio - 1 - 0 + 1
      BY <3>1, FS_Interval
    <3>3. QED
      BY <1>2, <3>2
  <2>5. IsFiniteSet(Pairs) /\ Cardinality(Pairs) = Turns
    <3>1. /\ IsFiniteSet(Pairs)
          /\ Cardinality(Pairs) = Cardinality(Threads) * Cardinality(0 .. NoPrio - 1)
      BY <2>4, ThreadsAssumption, FS_Product
    <3>2. QED
      BY <2>4, <3>1, Zenon DEF Turns
  <2> HIDE DEF Pairs
  <2>6. Cardinality(P) <= Turns
    BY <2>3, <2>5, FS_Subset
  <2>7. QED
    BY <1>2, <2>2, <2>6
<1>9. QED
  BY <1>7, <1>8 DEF ch

\* The lists and the priorities are right but for those of t: the new priority
\* p is one it has a reason for, and no lower than that of its mutexes.
ToUpdate(s, t, p, X, c) ==
    /\ Queues(s.waits, s.susp)
    /\ Owned(s.waits, owner)
    /\ \A n \in Mutexes : owner[n] \notin {t, NoThread} => s.curr[owner[n]] <= s.prio[n]
    /\ Highest(s.curr, s.prio, s.waits, NoThread)
    /\ Ordered(s.curr, s.susp, NoThread)
    /\ Bounded(s.curr)
    /\ \A u \in Threads : u # t =>
          Justified(u, s.curr, s.prio, s.ceiling, owner) \/ (u \in X /\ s.curr[u] = c[u])
    /\ p <= InitPrio[t] /\ \A n \in Mutexes : owner[n] = t => p <= s.prio[n]
    /\ \/ p = InitPrio[t]
       \/ \E n \in Mutexes : owner[n] = t /\ (p = s.prio[n] \/ p = s.ceiling[n])

\* _thread_update_priority makes them all right.
LEMMA UpdateKeeps ==
    ASSUME owner \in [Mutexes -> Threads \cup {NoThread}],
           NEW X, NEW c, NEW s \in Records, NEW t \in Threads, NEW p \in 0 .. NoPrio - 1,
           ToUpdate(s, t, p, X, c)
    PROVE  LET r == UpdatePriority(s, t, p)
           IN  /\ Loop(r, X, c) /\ r.thread = NoThread
               /\ r.waits = s.waits /\ r.ceiling = s.ceiling
<1> DEFINE b == [s EXCEPT !.curr[t] = p, !.thread = t]
<1>1. /\ s.curr \in [Threads -> 0 .. NoPrio - 1] /\ s.prio \in [Mutexes -> Prios]
      /\ s.susp \in [Mutexes -> Seq(Threads)] /\ s.waits \in [Threads -> Mutexes \cup {NoMutex}]
  BY DEF Records
<1>2. /\ b \in Records /\ b.prio = s.prio /\ b.susp = s.susp
      /\ b.ceiling = s.ceiling /\ b.waits = s.waits /\ b.thread = t
      /\ b.curr = [s.curr EXCEPT ![t] = p]
  BY DEF Records
<1>3. UpdatePriority(s, t, p) = Chain(b)[Turns]
  BY Zenon DEF UpdatePriority
<1> HIDE DEF b
<1>4. b.curr[t] = p /\ \A u \in Threads : u # t => b.curr[u] = s.curr[u]
  BY <1>1, <1>2
<1>5. Inherits(b.curr, b.prio, owner)
  <2>1. SUFFICES ASSUME NEW n \in Mutexes, owner[n] # NoThread
                 PROVE  b.curr[owner[n]] <= s.prio[n]
    BY <1>2 DEF Inherits
  <2>2. owner[n] \in Threads
    BY <2>1
  <2>3. QED
    BY <1>4, <2>1, <2>2 DEF ToUpdate
<1>6. Highest(b.curr, b.prio, b.waits, b.thread)
  <2>1. SUFFICES ASSUME NEW u \in Threads, s.waits[u] # NoMutex, u # t
                 PROVE  s.prio[s.waits[u]] <= b.curr[u]
    BY <1>2 DEF Highest
  <2>2. u # NoThread
    BY ThreadsAssumption
  <2>3. QED
    BY <1>4, <2>1, <2>2 DEF ToUpdate, Highest
<1>7. Ordered(b.curr, b.susp, b.thread)
  <2>1. SUFFICES ASSUME NEW m \in Mutexes PROVE SortedBut(s.susp[m], b.curr, t)
    BY <1>2 DEF Ordered
  <2>2. s.susp[m] \in Seq(Threads) /\ SortedBut(s.susp[m], s.curr, NoThread)
    BY <1>1 DEF ToUpdate, Ordered
  <2>3. ToSet(s.susp[m]) \subseteq Threads
    BY DEF ToUpdate, Queues
  <2>4. NoThread \notin ToSet(s.susp[m]) /\ \A u \in ToSet(s.susp[m]) : u # t => b.curr[u] = s.curr[u]
    BY <1>4, <2>3, ThreadsAssumption
  <2>5. QED
    BY <2>2, <2>4, SortedStill
<1>8. Bounded(b.curr)
  BY <1>4 DEF ToUpdate, Bounded
<1>9. Restores(b.curr, b.prio, b.ceiling, owner, X, c)
  <2>1. SUFFICES ASSUME NEW u \in Threads
                 PROVE  \/ Justified(u, b.curr, s.prio, s.ceiling, owner)
                        \/ u \in X /\ b.curr[u] = c[u]
    BY <1>2 DEF Restores
  <2>2. CASE u = t
    <3>1. p <= p
      OBVIOUS
    <3>2. QED
      BY <1>4, <2>2, <3>1 DEF ToUpdate, Justified
  <2>3. CASE u # t
    BY <1>4, <2>3 DEF ToUpdate, Justified
  <2>4. QED
    BY <2>2, <2>3
<1>10. Loop(b, X, c)
  BY <1>2, <1>5, <1>6, <1>7, <1>8, <1>9 DEF ToUpdate, Loop
<1>11. QED
  BY <1>2, <1>3, <1>10, LoopEnds

-----------------------------------------------------------------------------
(* The inductive invariant. *)

Typed ==
    /\ curr \in [Threads -> 0 .. NoPrio - 1]
    /\ stat \in [Threads -> {"ready", "mutex", "sleep", "closed"}]
    /\ timed \in [Threads -> BOOLEAN]
    /\ pending \in [Threads -> Mutexes \cup {NoMutex}]
    /\ owner \in [Mutexes -> Threads \cup {NoThread}]
    /\ hold \in [Mutexes -> 0 .. HoldMax]
    /\ prio \in [Mutexes -> Prios]
    /\ ceiling \in [Mutexes -> Ceilings \cup {NoPrio}]
    /\ susp \in [Mutexes -> Seq(Threads)]
    /\ leaked \subseteq Threads

\* A free mutex is held 0 times; a thread suspended on a mutex says which, and
\* no thread waits for a mutex of its own.
Links ==
    /\ \A m \in Mutexes : (hold[m] = 0) <=> (owner[m] = NoThread)
    /\ \A t \in Threads : stat[t] = "mutex" => pending[t] # NoMutex
    /\ \A t \in Threads : pending[t] # NoMutex => owner[pending[t]] # t

\* Nobody's priority matters any more.
Closed == {t \in Threads : stat[t] = "closed"}

Balance ==
    /\ Queues(Waits, susp)
    /\ Owned(Waits, owner)
    /\ Inherits(curr, prio, owner)
    /\ Highest(curr, prio, Waits, NoThread)
    /\ Ordered(curr, susp, NoThread)
    /\ Bounded(curr)
    /\ Restores(curr, prio, ceiling, owner, leaked \cup Closed, curr)

MutexInv == Typed /\ Links /\ Balance

\* What a thread waits for.
LEMMA WaitsType ==
    Typed => /\ Waits \in [Threads -> Mutexes \cup {NoMutex}]
             /\ \A t \in Threads : Waits[t] = IF stat[t] = "mutex" THEN pending[t] ELSE NoMutex
<1>1. SUFFICES ASSUME Typed PROVE Waits \in [Threads -> Mutexes \cup {NoMutex}]
  BY DEF Waits
<1>2. pending \in [Threads -> Mutexes \cup {NoMutex}]
  BY <1>1 DEF Typed
<1>3. QED
  BY <1>2 DEF Waits

\* Ceilings are priorities.
LEMMA CeilingType == Typed => ceiling \in [Mutexes -> Prios]
<1>1. SUFFICES ASSUME Typed PROVE ceiling \in [Mutexes -> Prios]
  OBVIOUS
<1>2. ceiling \in [Mutexes -> Ceilings \cup {NoPrio}]
  BY <1>1 DEF Typed
<1>3. Ceilings \cup {NoPrio} \subseteq Prios
  BY PrioAssumption DEF Prios
<1>4. QED
  BY <1>2, <1>3

\* What the loop leaves is the next state's.
LEMMA Settled ==
    ASSUME NEW X, NEW r, Loop(r, X, curr), r.thread = NoThread, Apply(r),
           r.waits = Waits', r.ceiling = ceiling', owner' = owner,
           \A u \in X : curr'[u] = curr[u] => u \in leaked' \cup Closed'
    PROVE  /\ curr' \in [Threads -> 0 .. NoPrio - 1] /\ prio' \in [Mutexes -> Prios]
           /\ susp' \in [Mutexes -> Seq(Threads)] /\ Balance'
<1>1. r.curr = curr' /\ r.prio = prio' /\ r.susp = susp'
  BY DEF Apply
<1>2. r \in Records
  BY DEF Loop
<1>3. /\ r.curr \in [Threads -> 0 .. NoPrio - 1] /\ r.prio \in [Mutexes -> Prios]
      /\ r.susp \in [Mutexes -> Seq(Threads)]
  BY <1>2 DEF Records
<1>4. Queues(Waits, susp)'
  BY <1>1 DEF Loop, Queues
<1>5. Owned(Waits, owner)'
  BY DEF Loop, Owned
<1>6. Inherits(curr, prio, owner)'
  BY <1>1 DEF Loop, Inherits
<1>7. Highest(curr, prio, Waits, NoThread)'
  BY <1>1 DEF Loop, Highest
<1>8. Ordered(curr, susp, NoThread)'
  BY <1>1 DEF Loop, Ordered, SortedBut
<1>9. Bounded(curr)'
  BY <1>1 DEF Loop, Bounded
<1>10. Restores(curr, prio, ceiling, owner, leaked \cup Closed, curr)'
  <2>1. SUFFICES ASSUME NEW u \in Threads
                 PROVE  \/ Justified(u, curr', prio', ceiling', owner')
                        \/ u \in leaked' \cup Closed'
    BY DEF Restores, Justified
  <2>2. Justified(u, curr', prio', ceiling', owner') \/ (u \in X /\ curr'[u] = curr[u])
    BY <1>1 DEF Loop, Restores
  <2>3. QED
    BY <2>2
<1>11. Balance'
  BY <1>4, <1>5, <1>6, <1>7, <1>8, <1>9, <1>10 DEF Balance
<1>12. QED
  BY <1>1, <1>3, <1>11

-----------------------------------------------------------------------------
(* The parts of the operations. *)

\* The waits of a thread that leaves the list of m, and the list without it.
LEMMA Withdrawn ==
    ASSUME MutexInv, NEW t \in Threads, NEW m \in Mutexes, Waits[t] \in {m, NoMutex},
           NEW q \in Seq(Threads), IsInjective(q), ToSet(q) = ToSet(susp[m]) \ {t},
           Sorted(q, curr), Withdraw(t, m, q), owner' = owner, ceiling' = ceiling,
           Waits' = [Waits EXCEPT ![t] = NoMutex], Closed \subseteq Closed'
    PROVE  /\ curr' \in [Threads -> 0 .. NoPrio - 1] /\ prio' \in [Mutexes -> Prios]
           /\ susp' \in [Mutexes -> Seq(Threads)] /\ leaked' \subseteq Threads
           /\ Balance'
<1> DEFINE o  == owner[m]
           w  == [Waits EXCEPT ![t] = NoMutex]
           mp == [prio EXCEPT ![m] = FirstPrio(q, curr)]
           sq == [susp EXCEPT ![m] = q]
           s  == Lists(w, mp, sq, ceiling)
           p  == MutexPriority(o, Held(o), mp, ceiling)
           New == {u \in {o} \ {NoThread} : curr[u] # curr[t] /\ curr[u] < p}
           X  == leaked \cup Closed \cup New
           upd == o # NoThread /\ curr[o] = curr[t] /\ p # curr[o]
<1>1. /\ Typed /\ Links /\ Balance
      /\ curr \in [Threads -> 0 .. NoPrio - 1] /\ prio \in [Mutexes -> Prios]
      /\ susp \in [Mutexes -> Seq(Threads)] /\ leaked \subseteq Threads
      /\ owner \in [Mutexes -> Threads \cup {NoThread}]
  BY DEF MutexInv, Typed
<1>2. /\ Waits \in [Threads -> Mutexes \cup {NoMutex}] /\ ceiling \in [Mutexes -> Prios]
  BY <1>1, WaitsType, CeilingType
<1>3. /\ FirstPrio(q, curr) \in Prios /\ \A u \in ToSet(q) : FirstPrio(q, curr) <= curr[u]
      /\ q = <<>> => FirstPrio(q, curr) = NoPrio
      /\ q # <<>> => Head(q) \in ToSet(q) /\ FirstPrio(q, curr) = curr[Head(q)]
  BY <1>1, FirstIsHighest DEF Prios
<1>4. /\ mp \in [Mutexes -> Prios] /\ mp[m] = FirstPrio(q, curr)
      /\ \A n \in Mutexes : n # m => mp[n] = prio[n]
  BY <1>1, <1>3
<1>5. /\ sq \in [Mutexes -> Seq(Threads)] /\ sq[m] = q
      /\ \A n \in Mutexes : n # m => sq[n] = susp[n]
  BY <1>1
<1>6. /\ w \in [Threads -> Mutexes \cup {NoMutex}] /\ w[t] = NoMutex
      /\ \A u \in Threads : u # t => w[u] = Waits[u]
  BY <1>2
<1>7. Apply(IF upd THEN UpdatePriority(s, o, p) ELSE s) /\ leaked' = StillLeaked \cup New
  <2>1. s.prio = mp
    BY DEF Lists
  <2>2. QED
    BY <2>1, Zenon DEF Withdraw, WithdrawBy
<1>8. Waits' = w
  OBVIOUS
<1> HIDE DEF w, mp, sq
<1>9. /\ s \in Records /\ s.curr = curr /\ s.prio = mp /\ s.susp = sq
      /\ s.ceiling = ceiling /\ s.waits = w /\ s.thread = NoThread
  <2>1. s = Lists(w, mp, sq, ceiling)
    OBVIOUS
  <2> HIDE DEF s
  <2>2. /\ curr \in [Threads -> 0 .. NoPrio - 1]
        /\ w \in [Threads -> Mutexes \cup {NoMutex}] /\ mp \in [Mutexes -> Prios]
        /\ sq \in [Mutexes -> Seq(Threads)] /\ ceiling \in [Mutexes -> Prios]
    BY <1>1, <1>2, <1>4, <1>5, <1>6
  <2>3. QED
    BY <2>1, <2>2 DEF Lists, Records
<1> HIDE DEF s
<1>10. Queues(w, sq)
  <2>1. SUFFICES ASSUME NEW n \in Mutexes
                 PROVE  IsInjective(sq[n]) /\ ToSet(sq[n]) = {u \in Threads : w[u] = n}
    BY DEF Queues
  <2>2. IsInjective(susp[n]) /\ ToSet(susp[n]) = {u \in Threads : Waits[u] = n}
    BY <1>1 DEF Balance, Queues
  <2>3. NoMutex # n
    BY MutexesAssumption
  <2>4. CASE n = m
    <3>1. ToSet(q) = {u \in Threads : w[u] = n}
      BY <1>6, <2>2, <2>3, <2>4
    <3>2. QED
      BY <1>5, <2>4, <3>1
  <2>5. CASE n # m
    <3>1. {u \in Threads : w[u] = n} = {u \in Threads : Waits[u] = n}
      BY <1>6, <2>3, <2>5
    <3>2. QED
      BY <1>5, <2>2, <2>5, <3>1
  <2>6. QED
    BY <2>4, <2>5
<1>11. Owned(w, owner)
  BY <1>1, <1>6 DEF Balance, Owned
<1>12. Highest(curr, mp, w, NoThread)
  <2>1. SUFFICES ASSUME NEW u \in Threads, w[u] # NoMutex PROVE mp[w[u]] <= curr[u]
    BY DEF Highest
  <2>2. u # t /\ w[u] = Waits[u] /\ w[u] \in Mutexes /\ u # NoThread
    BY <1>6, <2>1, ThreadsAssumption
  <2>3. CASE w[u] = m
    <3>1. u \in ToSet(q)
      BY <1>1, <2>2, <2>3 DEF Balance, Queues
    <3>2. QED
      BY <1>3, <1>4, <2>3, <3>1
  <2>4. CASE w[u] # m
    <3>1. prio[Waits[u]] <= curr[u]
      BY <1>1, <2>1, <2>2 DEF Balance, Highest
    <3>2. QED
      BY <1>4, <2>2, <2>4, <3>1
  <2>5. QED
    BY <2>3, <2>4
<1>13. Ordered(curr, sq, NoThread)
  <2>1. SUFFICES ASSUME NEW n \in Mutexes PROVE SortedBut(sq[n], curr, NoThread)
    BY DEF Ordered
  <2>2. SortedBut(q, curr, NoThread)
    BY SortedButNone
  <2>3. SortedBut(susp[n], curr, NoThread)
    BY <1>1 DEF Balance, Ordered
  <2>4. QED
    BY <1>5, <2>2, <2>3
<1>14. Inherits(curr, mp, owner)
  <2>1. SUFFICES ASSUME NEW n \in Mutexes, owner[n] # NoThread PROVE curr[owner[n]] <= mp[n]
    BY DEF Inherits
  <2>2. owner[n] \in Threads /\ curr[owner[n]] \in 0 .. NoPrio - 1 /\ prio[n] \in Prios
    BY <1>1, <2>1
  <2>3. curr[owner[n]] <= prio[n]
    BY <1>1, <2>1 DEF Balance, Inherits
  <2>4. CASE n # m
    BY <1>4, <2>3, <2>4
  <2>5. CASE n = m /\ q = <<>>
    BY <1>3, <1>4, <2>2, <2>5, PrioAssumption
  <2>6. CASE n = m /\ q # <<>>
    <3>1. Head(q) \in ToSet(susp[m]) /\ mp[n] = curr[Head(q)]
      BY <1>3, <1>4, <2>6
    <3>2. Head(q) \in Threads /\ Waits[Head(q)] = m
      BY <1>1, <3>1 DEF Balance, Queues
    <3>3. prio[m] <= curr[Head(q)]
      BY <1>1, <3>2, MutexesAssumption, ThreadsAssumption DEF Balance, Highest
    <3>4. curr[Head(q)] \in 0 .. NoPrio - 1
      BY <1>1, <3>2
    <3>5. QED
      BY <2>2, <2>3, <2>6, <3>1, <3>3, <3>4, PrioAssumption DEF Prios
  <2>7. QED
    BY <2>4, <2>5, <2>6
<1>15. \A u \in Threads : u # o => \/ Justified(u, curr, mp, ceiling, owner)
                                   \/ u \in leaked \cup Closed
  <2>1. SUFFICES ASSUME NEW u \in Threads, u # o, Justified(u, curr, prio, ceiling, owner)
                 PROVE  Justified(u, curr, mp, ceiling, owner)
    BY <1>1 DEF Balance, Restores
  <2>2. \A n \in Mutexes : owner[n] = u => mp[n] = prio[n]
    BY <1>4, <2>1
  <2>3. QED
    BY <2>1, <2>2 DEF Justified
<1>16. Held(o) \in SUBSET Mutexes /\ \A n \in Mutexes : n \in Held(o) <=> owner[n] = o
  BY DEF Held
<1>17. o # NoThread =>
         /\ o \in Threads /\ p \in 0 .. NoPrio - 1 /\ p <= InitPrio[o]
         /\ \A n \in Held(o) : p <= mp[n] /\ p <= ceiling[n]
         /\ p = InitPrio[o] \/ \E n \in Held(o) : p = mp[n] \/ p = ceiling[n]
  <2>1. SUFFICES ASSUME o # NoThread, o \in Threads
                 PROVE  /\ o \in Threads /\ p \in 0 .. NoPrio - 1 /\ p <= InitPrio[o]
                        /\ \A n \in Held(o) : p <= mp[n] /\ p <= ceiling[n]
                        /\ p = InitPrio[o] \/ \E n \in Held(o) : p = mp[n] \/ p = ceiling[n]
    BY <1>1
  <2>2. QED
    BY <1>2, <1>4, <1>16, <2>1, PriorityOfHolder
<1> HIDE DEF o, p
<1>18. Bounded(curr)
  BY <1>1 DEF Balance
<1>19. New \subseteq Threads /\ leaked' \subseteq Threads
  BY <1>1, <1>7, <1>17 DEF StillLeaked
<1>20. CASE upd
  <2> DEFINE r == UpdatePriority(s, o, p)
  <2>1. Apply(r)
    BY <1>7, <1>20, Zenon
  <2>2. \A n \in Mutexes : owner[n] = o => p <= s.prio[n]
    BY <1>9, <1>16, <1>17, <1>20
  <2>3. \A n \in Mutexes : owner[n] \notin {o, NoThread} => s.curr[owner[n]] <= s.prio[n]
    BY <1>9, <1>14 DEF Inherits
  <2>4. \A u \in Threads : u # o => \/ Justified(u, s.curr, s.prio, s.ceiling, owner)
                                    \/ u \in leaked \cup Closed /\ s.curr[u] = curr[u]
    BY <1>9, <1>15
  <2>5. p = InitPrio[o] \/ \E n \in Mutexes : owner[n] = o /\ (p = s.prio[n] \/ p = s.ceiling[n])
    BY <1>9, <1>16, <1>17, <1>20, Zenon
  <2>6. o \in Threads /\ p \in 0 .. NoPrio - 1 /\ p <= InitPrio[o]
    BY <1>17, <1>20
  <2>7. /\ Queues(s.waits, s.susp) /\ Owned(s.waits, owner) /\ Bounded(s.curr)
        /\ Highest(s.curr, s.prio, s.waits, NoThread) /\ Ordered(s.curr, s.susp, NoThread)
    BY <1>9, <1>10, <1>11, <1>12, <1>13, <1>18
  <2>8. /\ Loop(r, leaked \cup Closed, curr) /\ r.thread = NoThread
        /\ r.waits = s.waits /\ r.ceiling = s.ceiling
    <3>1. ToUpdate(s, o, p, leaked \cup Closed, curr)
      BY <2>2, <2>3, <2>4, <2>5, <2>6, <2>7, Zenon DEF ToUpdate
    <3>2. QED
      BY <1>1, <1>9, <2>6, <3>1, UpdateKeeps
  <2> HIDE DEF r
  <2>9. \A u \in leaked \cup Closed : curr'[u] = curr[u] => u \in leaked' \cup Closed'
    BY <1>7 DEF StillLeaked
  <2>10. r.waits = Waits' /\ r.ceiling = ceiling'
    BY <1>9, <1>8, <2>8
  <2>11. QED
    BY <1>19, <2>1, <2>8, <2>9, <2>10, Settled
<1>21. CASE ~upd
  <2>1. Apply(s)
    BY <1>7, <1>21, Zenon
  <2>2. Restores(curr, mp, ceiling, owner, X, curr)
    <3>1. SUFFICES ASSUME NEW u \in Threads
                   PROVE  Justified(u, curr, mp, ceiling, owner) \/ u \in X
      BY DEF Restores
    <3>2. CASE u # o
      BY <1>15, <3>2
    <3>3. CASE u = o
      <4>1. o # NoThread
        BY <3>3, ThreadsAssumption
      <4>2. curr[o] \in Nat /\ p \in Nat
        BY <1>1, <1>17, <4>1
      <4>3. CASE p <= curr[o]
        BY <1>16, <1>17, <3>3, <4>1, <4>3 DEF Justified
      <4>4. CASE ~(p <= curr[o])
        <5>1. curr[o] < p
          BY <4>2, <4>4
        <5>2. p # curr[o]
          BY <4>2, <5>1
        <5>3. curr[o] # curr[t]
          BY <1>21, <4>1, <5>2
        <5>4. QED
          BY <3>3, <4>1, <5>1, <5>3
      <4>5. QED
        BY <4>3, <4>4
    <3>4. QED
      BY <3>2, <3>3
  <2>3. Loop(s, X, curr)
    BY <1>9, <1>10, <1>11, <1>12, <1>13, <1>14, <1>18, <2>2, Zenon DEF Loop
  <2>4. \A u \in X : curr'[u] = curr[u] => u \in leaked' \cup Closed'
    BY <1>7 DEF StillLeaked
  <2>5. s.waits = Waits' /\ s.ceiling = ceiling' /\ s.thread = NoThread
    BY <1>8, <1>9
  <2> HIDE DEF X
  <2>6. QED
    BY <1>19, <2>1, <2>3, <2>4, <2>5, Settled
<1>22. QED
  BY <1>20, <1>21

-----------------------------------------------------------------------------
(* The operations keep the invariant. *)

\* The types, taken from the invariant.
LEMMA InvTypes ==
    MutexInv =>
      /\ Typed /\ Links /\ Balance
      /\ curr \in [Threads -> 0 .. NoPrio - 1]
      /\ stat \in [Threads -> {"ready", "mutex", "sleep", "closed"}]
      /\ timed \in [Threads -> BOOLEAN]
      /\ pending \in [Threads -> Mutexes \cup {NoMutex}]
      /\ owner \in [Mutexes -> Threads \cup {NoThread}]
      /\ hold \in [Mutexes -> 0 .. HoldMax]
      /\ prio \in [Mutexes -> Prios]
      /\ ceiling \in [Mutexes -> Ceilings \cup {NoPrio}] /\ ceiling \in [Mutexes -> Prios]
      /\ susp \in [Mutexes -> Seq(Threads)]
      /\ leaked \subseteq Threads
      /\ Waits \in [Threads -> Mutexes \cup {NoMutex}]
      /\ \A t \in Threads : Waits[t] = IF stat[t] = "mutex" THEN pending[t] ELSE NoMutex
<1>1. SUFFICES ASSUME MutexInv PROVE Typed /\ Links /\ Balance
  BY WaitsType, CeilingType DEF Typed, MutexInv
<1>2. QED
  BY <1>1 DEF MutexInv

\* rt_mutex_take of a mutex that another thread owns.
LEMMA TakeWaitKeeps ==
    ASSUME MutexInv, NEW t \in Threads, NEW m \in Mutexes, NEW tmo \in BOOLEAN,
           TakeWait(t, m, tmo)
    PROVE  MutexInv'
<1> DEFINE o  == owner[m]
           p  == curr[t]
           q  == Enqueue(susp[m], t, curr)
           w  == [Waits EXCEPT ![t] = m]
           mp == [prio EXCEPT ![m] = IF p < prio[m] THEN p ELSE prio[m]]
           sq == [susp EXCEPT ![m] = q]
           s  == Lists(w, mp, sq, ceiling)
           X  == leaked \cup Closed
           upd == p < prio[m] /\ p < curr[o]
<1>1. /\ Typed /\ Links /\ Balance
      /\ curr \in [Threads -> 0 .. NoPrio - 1]
      /\ stat \in [Threads -> {"ready", "mutex", "sleep", "closed"}]
      /\ timed \in [Threads -> BOOLEAN]
      /\ pending \in [Threads -> Mutexes \cup {NoMutex}]
      /\ owner \in [Mutexes -> Threads \cup {NoThread}]
      /\ prio \in [Mutexes -> Prios] /\ ceiling \in [Mutexes -> Prios]
      /\ susp \in [Mutexes -> Seq(Threads)] /\ leaked \subseteq Threads
      /\ Waits \in [Threads -> Mutexes \cup {NoMutex}]
      /\ \A u \in Threads : Waits[u] = IF stat[u] = "mutex" THEN pending[u] ELSE NoMutex
  BY InvTypes
<1>2. /\ stat[t] = "ready" /\ owner[m] \notin {NoThread, t}
      /\ stat' = [stat EXCEPT ![t] = "mutex"] /\ pending' = [pending EXCEPT ![t] = m]
      /\ timed' = [timed EXCEPT ![t] = tmo] /\ leaked' = StillLeaked
      /\ UNCHANGED <<owner, hold, ceiling>>
      /\ Apply(IF upd THEN UpdatePriority(s, o, p) ELSE s)
  BY DEF TakeWait, TakeWaitBy, Calls, Runs
<1>3. o \in Threads /\ o # t /\ o # NoThread
  BY <1>1, <1>2
<1>4. /\ p \in 0 .. NoPrio - 1 /\ prio[m] \in Prios /\ curr[o] \in 0 .. NoPrio - 1
      /\ NoPrio \in Nat
  BY <1>1, <1>3, PrioAssumption
<1>5. Waits[t] = NoMutex /\ NoMutex \notin Mutexes
  BY <1>1, <1>2, MutexesAssumption
<1>6. \A n \in Mutexes : /\ IsInjective(susp[n]) /\ ToSet(susp[n]) = {u \in Threads : Waits[u] = n}
                         /\ SortedBut(susp[n], curr, NoThread) /\ t \notin ToSet(susp[n])
  BY <1>1, <1>5 DEF Balance, Queues, Ordered
<1>7. q \in Seq(Threads) /\ IsInjective(q) /\ ToSet(q) = ToSet(susp[m]) \cup {t} /\ Sorted(q, curr)
  <2>1. susp[m] \in Seq(Threads) /\ curr \in [Threads -> Nat]
    BY <1>1
  <2>2. Sorted(susp[m], curr)
    BY <1>6, <2>1, SortedButNone
  <2>3. QED
    BY <1>6, <2>1, <2>2, Enqueued
<1>8. Waits' = w
  <2>1. \A u \in Threads : (IF stat'[u] = "mutex" THEN pending'[u] ELSE NoMutex) = w[u]
    BY <1>1, <1>2
  <2>2. w = [u \in Threads |-> w[u]]
    BY <1>1
  <2>3. QED
    BY <2>1, <2>2 DEF Waits
<1> HIDE DEF q
<1>9. /\ mp \in [Mutexes -> Prios] /\ mp[m] \in Prios /\ mp[m] <= p /\ mp[m] <= prio[m]
      /\ p < prio[m] => mp[m] = p
      /\ ~(p < prio[m]) => mp[m] = prio[m]
      /\ \A n \in Mutexes : n # m => mp[n] = prio[n]
      /\ \A n \in Mutexes : mp[n] <= prio[n] /\ mp[n] \in Nat /\ prio[n] \in Nat
  <2>1. (IF p < prio[m] THEN p ELSE prio[m]) \in Prios
    BY <1>4 DEF Prios
  <2>2. mp \in [Mutexes -> Prios]
    BY <1>1, <2>1
  <2>3. mp[m] = (IF p < prio[m] THEN p ELSE prio[m]) /\ \A n \in Mutexes : n # m => mp[n] = prio[n]
    BY <1>1
  <2> HIDE DEF mp
  <2>4. mp[m] <= prio[m] /\ mp[m] <= p
    BY <1>4, <2>1, <2>3 DEF Prios
  <2>5. \A n \in Mutexes : mp[n] \in Nat /\ prio[n] \in Nat
    BY <1>1, <1>4, <2>2 DEF Prios
  <2>6. \A n \in Mutexes : mp[n] <= prio[n]
    BY <2>3, <2>4, <2>5
  <2>7. QED
    BY <2>2, <2>3, <2>4, <2>5, <2>6
<1>10. /\ sq \in [Mutexes -> Seq(Threads)] /\ sq[m] = q
       /\ \A n \in Mutexes : n # m => sq[n] = susp[n]
  BY <1>1, <1>7
<1>11. /\ w \in [Threads -> Mutexes \cup {NoMutex}] /\ w[t] = m
       /\ \A u \in Threads : u # t => w[u] = Waits[u]
  BY <1>1
<1> HIDE DEF w, mp, sq
<1>12. /\ s \in Records /\ s.curr = curr /\ s.prio = mp /\ s.susp = sq
       /\ s.ceiling = ceiling /\ s.waits = w /\ s.thread = NoThread
  BY <1>1, <1>9, <1>10, <1>11 DEF Lists, Records
<1> HIDE DEF s
<1>13. Queues(w, sq)
  <2>1. SUFFICES ASSUME NEW n \in Mutexes
                 PROVE  IsInjective(sq[n]) /\ ToSet(sq[n]) = {u \in Threads : w[u] = n}
    BY DEF Queues
  <2>2. CASE n = m
    <3>1. ToSet(q) = {u \in Threads : w[u] = n}
      BY <1>6, <1>7, <1>11, <2>2
    <3>2. QED
      BY <1>7, <1>10, <2>2, <3>1
  <2>3. CASE n # m
    <3>1. {u \in Threads : w[u] = n} = {u \in Threads : Waits[u] = n}
      BY <1>5, <1>11, <2>3
    <3>2. QED
      BY <1>6, <1>10, <2>3, <3>1
  <2>4. QED
    BY <2>2, <2>3
<1>14. Owned(w, owner)
  BY <1>1, <1>3, <1>11 DEF Balance, Owned
<1>15. Highest(curr, mp, w, NoThread)
  <2>1. SUFFICES ASSUME NEW u \in Threads, w[u] # NoMutex PROVE mp[w[u]] <= curr[u]
    BY DEF Highest
  <2>2. CASE u = t
    BY <1>9, <1>11, <2>2
  <2>3. CASE u # t
    <3>1. w[u] = Waits[u] /\ w[u] \in Mutexes /\ u # NoThread
      BY <1>11, <2>1, <2>3, ThreadsAssumption
    <3>2. prio[w[u]] <= curr[u]
      BY <1>1, <2>1, <3>1 DEF Balance, Highest
    <3>3. mp[w[u]] <= prio[w[u]] /\ mp[w[u]] \in Nat /\ prio[w[u]] \in Nat
      BY <1>9, <3>1
    <3>4. curr[u] \in 0 .. NoPrio - 1
      BY <1>1
    <3>5. QED
      BY <3>2, <3>3, <3>4
  <2>4. QED
    BY <2>2, <2>3
<1>16. Ordered(curr, sq, NoThread)
  <2>1. SUFFICES ASSUME NEW n \in Mutexes PROVE SortedBut(sq[n], curr, NoThread)
    BY DEF Ordered
  <2>2. SortedBut(q, curr, NoThread)
    BY <1>7, SortedButNone
  <2>3. QED
    BY <1>6, <1>10, <2>2
<1>17. Bounded(curr)
  BY <1>1 DEF Balance
<1>18. \A u \in Threads : Justified(u, curr, mp, ceiling, owner) \/ u \in X
  <2>1. SUFFICES ASSUME NEW u \in Threads, Justified(u, curr, prio, ceiling, owner)
                 PROVE  Justified(u, curr, mp, ceiling, owner)
    BY <1>1 DEF Balance, Restores
  <2>2. curr[u] \in 0 .. NoPrio - 1
    BY <1>1
  <2>3. \A n \in Mutexes : prio[n] <= curr[u] => mp[n] <= curr[u]
    BY <1>9, <2>2
  <2>4. QED
    BY <2>1, <2>3 DEF Justified
<1>19. \A u \in X : curr'[u] = curr[u] => u \in leaked' \cup Closed'
  BY <1>1, <1>2 DEF StillLeaked, Closed
<1>20. /\ curr' \in [Threads -> 0 .. NoPrio - 1] /\ prio' \in [Mutexes -> Prios]
       /\ susp' \in [Mutexes -> Seq(Threads)] /\ Balance'
  <2>1. CASE upd
    <3> DEFINE r == UpdatePriority(s, o, p)
    <3>1. Apply(r)
      BY <1>2, <2>1, Zenon
    <3>2. ToUpdate(s, o, p, X, curr)
      <4>1. \A n \in Mutexes : owner[n] \notin {o, NoThread} => s.curr[owner[n]] <= s.prio[n]
        BY <1>1, <1>9, <1>12 DEF Balance, Inherits
      <4>2. \A u \in Threads : Justified(u, s.curr, s.prio, s.ceiling, owner)
                                   \/ (u \in X /\ s.curr[u] = curr[u])
        BY <1>12, <1>18
      <4>3. p <= InitPrio[o]
        <5>1. curr[o] <= InitPrio[o] /\ InitPrio[o] \in 0 .. NoPrio - 1
          BY <1>3, <1>17, PrioAssumption DEF Bounded
        <5>2. QED
          BY <1>4, <2>1, <5>1
      <4>4. ASSUME NEW n \in Mutexes, owner[n] = o PROVE p <= s.prio[n]
        <5>1. CASE n = m
          BY <1>4, <1>9, <1>12, <2>1, <5>1
        <5>2. CASE n # m
          <6>1. curr[o] <= prio[n] /\ prio[n] \in Prios
            BY <1>1, <1>3, <4>4 DEF Balance, Inherits
          <6>2. QED
            BY <1>4, <1>9, <1>12, <2>1, <5>2, <6>1 DEF Prios
        <5>3. QED
          BY <5>1, <5>2
      <4>5. \E n \in Mutexes : owner[n] = o /\ (p = s.prio[n] \/ p = s.ceiling[n])
        BY <1>9, <1>12, <2>1
      <4>6. /\ Queues(s.waits, s.susp) /\ Owned(s.waits, owner) /\ Bounded(s.curr)
            /\ Highest(s.curr, s.prio, s.waits, NoThread) /\ Ordered(s.curr, s.susp, NoThread)
        BY <1>12, <1>13, <1>14, <1>15, <1>16, <1>17
      <4>7. QED
        BY <4>1, <4>2, <4>3, <4>4, <4>5, <4>6, Zenon DEF ToUpdate
    <3>3. /\ Loop(r, X, curr) /\ r.thread = NoThread
          /\ r.waits = s.waits /\ r.ceiling = s.ceiling
      BY <1>1, <1>3, <1>4, <1>12, <3>2, UpdateKeeps
    <3> HIDE DEF r, X
    <3>4. r.waits = Waits' /\ r.ceiling = ceiling' /\ owner' = owner
      BY <1>2, <1>8, <1>12, <3>3
    <3>5. QED
      BY <1>19, <3>1, <3>3, <3>4, Settled
  <2>2. CASE ~upd
    <3>1. Apply(s)
      BY <1>2, <2>2, Zenon
    <3>2. Inherits(curr, mp, owner)
      <4>1. SUFFICES ASSUME NEW n \in Mutexes, owner[n] # NoThread PROVE curr[owner[n]] <= mp[n]
        BY DEF Inherits
      <4>2. curr[owner[n]] <= prio[n]
        BY <1>1, <4>1 DEF Balance, Inherits
      <4>3. QED
        BY <1>4, <1>9, <2>2, <4>2 DEF Prios
    <3>3. Restores(curr, mp, ceiling, owner, X, curr)
      BY <1>18 DEF Restores
    <3>4. Loop(s, X, curr)
      BY <1>12, <1>13, <1>14, <1>15, <1>16, <1>17, <3>2, <3>3, Zenon DEF Loop
    <3>5. s.waits = Waits' /\ s.ceiling = ceiling' /\ owner' = owner /\ s.thread = NoThread
      BY <1>2, <1>8, <1>12
    <3> HIDE DEF X
    <3>6. QED
      BY <1>19, <3>1, <3>4, <3>5, Settled
  <2>3. QED
    BY <2>1, <2>2
<1>21. Typed'
  BY <1>1, <1>2, <1>20 DEF Typed, StillLeaked
<1>22. Links'
  <2>1. /\ stat'[t] = "mutex" /\ pending'[t] = m
        /\ \A u \in Threads : u # t => stat'[u] = stat[u] /\ pending'[u] = pending[u]
    BY <1>1, <1>2
  <2>2. owner' = owner /\ hold' = hold /\ m # NoMutex /\ owner[m] # t
    BY <1>2, <1>5
  <2>3. QED
    BY <1>1, <2>1, <2>2, Zenon DEF Links
<1>23. QED
  BY <1>20, <1>21, <1>22 DEF MutexInv

\* rt_mutex_setprioceiling.
LEMMA SetCeilingKeeps ==
    ASSUME MutexInv, NEW t \in Threads, NEW m \in Mutexes, NEW c \in Ceilings,
           SetCeiling(t, m, c)
    PROVE  MutexInv'
<1> DEFINE o  == owner[m]
           ceil == [ceiling EXCEPT ![m] = c]
           s  == Lists(Waits, prio, susp, ceil)
           p  == MutexPriority(o, Held(o), prio, ceil)
           X  == leaked \cup Closed
           upd == o # NoThread /\ p # curr[o]
<1>1. /\ Typed /\ Links /\ Balance
      /\ curr \in [Threads -> 0 .. NoPrio - 1]
      /\ stat \in [Threads -> {"ready", "mutex", "sleep", "closed"}]
      /\ timed \in [Threads -> BOOLEAN]
      /\ pending \in [Threads -> Mutexes \cup {NoMutex}]
      /\ owner \in [Mutexes -> Threads \cup {NoThread}]
      /\ hold \in [Mutexes -> 0 .. HoldMax]
      /\ prio \in [Mutexes -> Prios]
      /\ ceiling \in [Mutexes -> Ceilings \cup {NoPrio}] /\ ceiling \in [Mutexes -> Prios]
      /\ susp \in [Mutexes -> Seq(Threads)] /\ leaked \subseteq Threads
      /\ Waits \in [Threads -> Mutexes \cup {NoMutex}]
      /\ \A u \in Threads : Waits[u] = IF stat[u] = "mutex" THEN pending[u] ELSE NoMutex
  BY InvTypes
<1>2. /\ leaked' = StillLeaked /\ UNCHANGED <<stat, timed, pending, owner, hold>>
      /\ ceiling' = ceil /\ Apply(IF upd THEN UpdatePriority(s, o, p) ELSE s)
  BY DEF SetCeiling
<1>3. /\ ceil \in [Mutexes -> Ceilings \cup {NoPrio}] /\ ceil \in [Mutexes -> Prios]
      /\ \A n \in Mutexes : n # m => ceil[n] = ceiling[n]
  BY <1>1, PrioAssumption DEF Prios
<1>4. Waits' = Waits /\ Closed' = Closed
  BY <1>2 DEF Waits, Closed
<1> HIDE DEF ceil
<1>5. /\ s \in Records /\ s.curr = curr /\ s.prio = prio /\ s.susp = susp
      /\ s.ceiling = ceil /\ s.waits = Waits /\ s.thread = NoThread
  BY <1>1, <1>3 DEF Lists, Records
<1> HIDE DEF s
<1>6. Held(o) \in SUBSET Mutexes /\ \A n \in Mutexes : n \in Held(o) <=> owner[n] = o
  BY DEF Held
<1>7. o # NoThread =>
        /\ o \in Threads /\ p \in 0 .. NoPrio - 1 /\ p <= InitPrio[o]
        /\ \A n \in Held(o) : p <= prio[n] /\ p <= ceil[n]
        /\ p = InitPrio[o] \/ \E n \in Held(o) : p = prio[n] \/ p = ceil[n]
  <2>1. SUFFICES ASSUME o # NoThread, o \in Threads
                 PROVE  /\ o \in Threads /\ p \in 0 .. NoPrio - 1 /\ p <= InitPrio[o]
                        /\ \A n \in Held(o) : p <= prio[n] /\ p <= ceil[n]
                        /\ p = InitPrio[o] \/ \E n \in Held(o) : p = prio[n] \/ p = ceil[n]
    BY <1>1
  <2>2. QED
    BY <1>1, <1>3, <1>6, <2>1, PriorityOfHolder
<1>8. \A u \in Threads : u # o => Justified(u, curr, prio, ceil, owner) \/ u \in X
  <2>1. SUFFICES ASSUME NEW u \in Threads, u # o, Justified(u, curr, prio, ceiling, owner)
                 PROVE  Justified(u, curr, prio, ceil, owner)
    BY <1>1 DEF Balance, Restores
  <2>2. \A n \in Mutexes : owner[n] = u => ceil[n] = ceiling[n]
    BY <1>3, <2>1
  <2>3. QED
    BY <2>1, <2>2 DEF Justified
<1>9. \A u \in X : curr'[u] = curr[u] => u \in leaked' \cup Closed'
  BY <1>2, <1>4 DEF StillLeaked
<1>10. /\ Queues(s.waits, s.susp) /\ Owned(s.waits, owner) /\ Bounded(s.curr)
       /\ Highest(s.curr, s.prio, s.waits, NoThread) /\ Ordered(s.curr, s.susp, NoThread)
       /\ Inherits(s.curr, s.prio, owner)
  BY <1>1, <1>5 DEF Balance
<1> HIDE DEF o, p
<1>11. /\ curr' \in [Threads -> 0 .. NoPrio - 1] /\ prio' \in [Mutexes -> Prios]
       /\ susp' \in [Mutexes -> Seq(Threads)] /\ Balance'
  <2>1. CASE upd
    <3> DEFINE r == UpdatePriority(s, o, p)
    <3>1. Apply(r)
      BY <1>2, <2>1, Zenon
    <3>2. ToUpdate(s, o, p, X, curr)
      <4>1. \A n \in Mutexes : owner[n] \notin {o, NoThread} => s.curr[owner[n]] <= s.prio[n]
        BY <1>10, Zenon DEF Inherits
      <4>2. \A u \in Threads : u # o => \/ Justified(u, s.curr, s.prio, s.ceiling, owner)
                                        \/ u \in X /\ s.curr[u] = curr[u]
        BY <1>5, <1>8
      <4>3. p <= InitPrio[o] /\ \A n \in Mutexes : owner[n] = o => p <= s.prio[n]
        BY <1>5, <1>6, <1>7, <2>1
      <4>4. p = InitPrio[o] \/ \E n \in Mutexes : owner[n] = o /\ (p = s.prio[n] \/ p = s.ceiling[n])
        BY <1>5, <1>6, <1>7, <2>1, Zenon
      <4>5. QED
        BY <1>10, <4>1, <4>2, <4>3, <4>4, Zenon DEF ToUpdate
    <3>3. /\ Loop(r, X, curr) /\ r.thread = NoThread
          /\ r.waits = s.waits /\ r.ceiling = s.ceiling
      BY <1>1, <1>5, <1>7, <2>1, <3>2, UpdateKeeps
    <3> HIDE DEF r, X
    <3>4. r.waits = Waits' /\ r.ceiling = ceiling' /\ owner' = owner
      BY <1>2, <1>4, <1>5, <3>3
    <3>5. QED
      BY <1>9, <3>1, <3>3, <3>4, Settled
  <2>2. CASE ~upd
    <3>1. Apply(s)
      BY <1>2, <2>2, Zenon
    <3>2. Restores(curr, prio, ceil, owner, X, curr)
      <4>1. SUFFICES ASSUME NEW u \in Threads, u = o PROVE Justified(u, curr, prio, ceil, owner)
        BY <1>8 DEF Restores
      <4>2. o # NoThread /\ p = curr[o]
        BY <2>2, <4>1, ThreadsAssumption
      <4>3. p <= p
        BY <1>7, <4>2
      <4>4. QED
        BY <1>6, <1>7, <4>1, <4>2, <4>3 DEF Justified
    <3>3. Loop(s, X, curr)
      BY <1>5, <1>10, <3>2, Zenon DEF Loop
    <3>4. s.waits = Waits' /\ s.ceiling = ceiling' /\ owner' = owner /\ s.thread = NoThread
      BY <1>2, <1>4, <1>5
    <3> HIDE DEF X
    <3>5. QED
      BY <1>9, <3>1, <3>3, <3>4, Settled
  <2>3. QED
    BY <2>1, <2>2
<1>12. Typed'
  BY <1>1, <1>2, <1>3, <1>11 DEF Typed, StillLeaked
<1>13. Links'
  BY <1>1, <1>2, Zenon DEF Links
<1>14. QED
  BY <1>11, <1>12, <1>13 DEF MutexInv

\* The end of rt_mutex_take after a timeout.
LEMMA TakeTimedOutKeeps ==
    ASSUME MutexInv, NEW t \in Threads, TakeTimedOut(t)
    PROVE  MutexInv'
<1> DEFINE m == pending[t]
           q == susp[m]
<1>1. /\ Typed /\ Links /\ Balance
      /\ curr \in [Threads -> 0 .. NoPrio - 1]
      /\ stat \in [Threads -> {"ready", "mutex", "sleep", "closed"}]
      /\ timed \in [Threads -> BOOLEAN]
      /\ pending \in [Threads -> Mutexes \cup {NoMutex}]
      /\ owner \in [Mutexes -> Threads \cup {NoThread}]
      /\ hold \in [Mutexes -> 0 .. HoldMax]
      /\ prio \in [Mutexes -> Prios]
      /\ ceiling \in [Mutexes -> Ceilings \cup {NoPrio}] /\ ceiling \in [Mutexes -> Prios]
      /\ susp \in [Mutexes -> Seq(Threads)] /\ leaked \subseteq Threads
      /\ Waits \in [Threads -> Mutexes \cup {NoMutex}]
      /\ \A u \in Threads : Waits[u] = IF stat[u] = "mutex" THEN pending[u] ELSE NoMutex
  BY InvTypes
<1>2. /\ stat[t] = "ready" /\ m # NoMutex /\ Withdraw(t, m, q)
      /\ pending' = [pending EXCEPT ![t] = NoMutex]
      /\ UNCHANGED <<stat, timed, owner, hold, ceiling>>
  BY DEF TakeTimedOut, Runs
<1>3. m \in Mutexes /\ Waits[t] = NoMutex
  BY <1>1, <1>2
<1>4. t \notin ToSet(q) /\ IsInjective(q) /\ SortedBut(q, curr, NoThread)
  BY <1>1, <1>3, MutexesAssumption DEF Balance, Queues, Ordered
<1>5. q \in Seq(Threads) /\ ToSet(q) = ToSet(susp[m]) \ {t} /\ Sorted(q, curr)
  BY <1>1, <1>3, <1>4, SortedButNone
<1>6. Waits' = [Waits EXCEPT ![t] = NoMutex]
  <2>1. Waits' = Waits
    BY <1>1, <1>2 DEF Waits
  <2>2. QED
    BY <1>1, <1>3, <2>1
<1>7. Closed \subseteq Closed'
  BY <1>2 DEF Closed
<1> HIDE DEF q, m
<1>8. /\ curr' \in [Threads -> 0 .. NoPrio - 1] /\ prio' \in [Mutexes -> Prios]
      /\ susp' \in [Mutexes -> Seq(Threads)] /\ leaked' \subseteq Threads /\ Balance'
  BY <1>2, <1>3, <1>4, <1>5, <1>6, <1>7, Withdrawn
<1>9. Typed'
  BY <1>1, <1>2, <1>8 DEF Typed
<1>10. Links'
  <2>1. pending'[t] = NoMutex /\ \A u \in Threads : u # t => pending'[u] = pending[u]
    BY <1>1, <1>2
  <2>2. QED
    BY <1>1, <1>2, <2>1 DEF Links
<1>11. QED
  BY <1>8, <1>9, <1>10 DEF MutexInv

\* rt_thread_detach of another thread.
LEMMA DetachKeeps ==
    ASSUME MutexInv, NEW t \in Threads, NEW v \in Threads, Detach(v, t)
    PROVE  MutexInv'
<1> DEFINE m == pending[t]
           q == RemoveFirst(susp[m], t)
<1>1. /\ Typed /\ Links /\ Balance
      /\ curr \in [Threads -> 0 .. NoPrio - 1]
      /\ stat \in [Threads -> {"ready", "mutex", "sleep", "closed"}]
      /\ timed \in [Threads -> BOOLEAN]
      /\ pending \in [Threads -> Mutexes \cup {NoMutex}]
      /\ owner \in [Mutexes -> Threads \cup {NoThread}]
      /\ hold \in [Mutexes -> 0 .. HoldMax]
      /\ prio \in [Mutexes -> Prios]
      /\ ceiling \in [Mutexes -> Ceilings \cup {NoPrio}] /\ ceiling \in [Mutexes -> Prios]
      /\ susp \in [Mutexes -> Seq(Threads)] /\ leaked \subseteq Threads
      /\ Waits \in [Threads -> Mutexes \cup {NoMutex}]
      /\ \A u \in Threads : Waits[u] = IF stat[u] = "mutex" THEN pending[u] ELSE NoMutex
  BY InvTypes
<1>2. /\ stat' = [stat EXCEPT ![t] = "closed"] /\ timed' = [timed EXCEPT ![t] = FALSE]
      /\ pending' = [pending EXCEPT ![t] = NoMutex]
      /\ hold' = [n \in Mutexes |-> IF owner[n] = t THEN 1 ELSE hold[n]]
      /\ owner' = owner /\ ceiling' = ceiling
      /\ m = NoMutex => UNCHANGED <<curr, prio, susp, leaked>>
      /\ m # NoMutex => Withdraw(t, m, q)
  BY DEF Detach
<1>3. Waits' = [Waits EXCEPT ![t] = NoMutex]
  <2>1. \A u \in Threads : (IF stat'[u] = "mutex" THEN pending'[u] ELSE NoMutex)
                                = [Waits EXCEPT ![t] = NoMutex][u]
    BY <1>1, <1>2
  <2>2. [Waits EXCEPT ![t] = NoMutex] = [u \in Threads |-> [Waits EXCEPT ![t] = NoMutex][u]]
    BY <1>1
  <2>3. QED
    BY <2>1, <2>2 DEF Waits
<1>4. Closed \subseteq Closed'
  BY <1>1, <1>2 DEF Closed
<1>5. /\ curr' \in [Threads -> 0 .. NoPrio - 1] /\ prio' \in [Mutexes -> Prios]
      /\ susp' \in [Mutexes -> Seq(Threads)] /\ leaked' \subseteq Threads /\ Balance'
  <2>1. CASE m = NoMutex
    <3>1. curr' = curr /\ prio' = prio /\ susp' = susp /\ leaked' = leaked
      BY <1>2, <2>1
    <3>2. Waits[t] = NoMutex
      BY <1>1, <2>1
    <3>3. Waits' = Waits
      BY <1>1, <1>3, <3>2
    <3>4. Restores(curr, prio, ceiling, owner, leaked \cup Closed, curr)'
      BY <1>1, <1>2, <1>4, <3>1 DEF Balance, Restores, Justified
    <3>5. Balance'
      BY <1>1, <1>2, <3>1, <3>3, <3>4
         DEF Balance, Queues, Owned, Inherits, Highest, Ordered, SortedBut, Bounded
    <3>6. QED
      BY <1>1, <3>1, <3>5
  <2>2. CASE m # NoMutex
    <3>1. m \in Mutexes /\ Waits[t] \in {m, NoMutex}
      BY <1>1, <2>2
    <3>2. susp[m] \in Seq(Threads) /\ IsInjective(susp[m]) /\ SortedBut(susp[m], curr, NoThread)
      BY <1>1, <3>1 DEF Balance, Queues, Ordered
    <3>3. SortedBut(susp[m], curr, t)
      <4>1. Sorted(susp[m], curr)
        BY <3>2, SortedButNone
      <4>2. QED
        BY <4>1, Zenon DEF Sorted, SortedBut
    <3>4. q \in Seq(Threads) /\ IsInjective(q) /\ ToSet(q) = ToSet(susp[m]) \ {t} /\ Sorted(q, curr)
      BY <3>2, <3>3, Removed
    <3> HIDE DEF m, q
    <3>5. QED
      BY <1>2, <1>3, <1>4, <2>2, <3>1, <3>4, Withdrawn
  <2>3. QED
    BY <2>1, <2>2
<1>6. Typed'
  <2>1. hold' \in [Mutexes -> 0 .. HoldMax]
    BY <1>1, <1>2, MutexesAssumption
  <2>2. QED
    BY <1>1, <1>2, <1>5, <2>1 DEF Typed
<1>7. Links'
  <2>1. /\ stat'[t] = "closed" /\ pending'[t] = NoMutex
        /\ \A u \in Threads : u # t => stat'[u] = stat[u] /\ pending'[u] = pending[u]
    BY <1>1, <1>2
  <2>2. \A n \in Mutexes : (hold'[n] = 0) <=> (owner'[n] = NoThread)
    BY <1>1, <1>2, ThreadsAssumption DEF Links
  <2>3. QED
    BY <1>1, <1>2, <2>1, <2>2 DEF Links
<1>8. QED
  BY <1>5, <1>6, <1>7 DEF MutexInv

\* _thread_timeout.
LEMMA TimeoutKeeps ==
    ASSUME MutexInv, NEW t \in Threads, Timeout(t)
    PROVE  MutexInv'
<1>1. /\ Typed /\ Links /\ Balance
      /\ curr \in [Threads -> 0 .. NoPrio - 1]
      /\ stat \in [Threads -> {"ready", "mutex", "sleep", "closed"}]
      /\ timed \in [Threads -> BOOLEAN]
      /\ pending \in [Threads -> Mutexes \cup {NoMutex}]
      /\ owner \in [Mutexes -> Threads \cup {NoThread}]
      /\ hold \in [Mutexes -> 0 .. HoldMax]
      /\ prio \in [Mutexes -> Prios]
      /\ ceiling \in [Mutexes -> Ceilings \cup {NoPrio}] /\ ceiling \in [Mutexes -> Prios]
      /\ susp \in [Mutexes -> Seq(Threads)] /\ leaked \subseteq Threads
      /\ Waits \in [Threads -> Mutexes \cup {NoMutex}]
      /\ \A u \in Threads : Waits[u] = IF stat[u] = "mutex" THEN pending[u] ELSE NoMutex
  BY InvTypes
<1>2. /\ stat' = [stat EXCEPT ![t] = "ready"] /\ timed' = [timed EXCEPT ![t] = FALSE]
      /\ susp' = [m \in Mutexes |-> RemoveFirst(susp[m], t)]
      /\ UNCHANGED <<curr, pending, owner, hold, prio, ceiling, leaked>>
      /\ stat[t] # "closed"
  BY DEF Timeout, TimeoutBy
<1>3. /\ Waits' \in [Threads -> Mutexes \cup {NoMutex}] /\ Waits'[t] = NoMutex
      /\ \A u \in Threads : u # t => Waits'[u] = Waits[u]
  BY <1>1, <1>2 DEF Waits
<1>4. \A m \in Mutexes :
         /\ susp'[m] \in Seq(Threads) /\ IsInjective(susp'[m])
         /\ ToSet(susp'[m]) = ToSet(susp[m]) \ {t} /\ SortedBut(susp'[m], curr, NoThread)
  <2>1. SUFFICES ASSUME NEW m \in Mutexes
                 PROVE  /\ susp'[m] \in Seq(Threads) /\ IsInjective(susp'[m])
                        /\ ToSet(susp'[m]) = ToSet(susp[m]) \ {t}
                        /\ SortedBut(susp'[m], curr, NoThread)
    OBVIOUS
  <2>2. susp'[m] = RemoveFirst(susp[m], t)
    BY <1>2
  <2>3. susp[m] \in Seq(Threads) /\ IsInjective(susp[m]) /\ SortedBut(susp[m], curr, NoThread)
    BY <1>1 DEF Balance, Queues, Ordered
  <2>4. SortedBut(susp[m], curr, t)
    <3>1. Sorted(susp[m], curr)
      BY <2>3, SortedButNone
    <3>2. QED
      BY <3>1, Zenon DEF Sorted, SortedBut
  <2>5. /\ susp'[m] \in Seq(Threads) /\ IsInjective(susp'[m])
        /\ ToSet(susp'[m]) = ToSet(susp[m]) \ {t} /\ Sorted(susp'[m], curr)
    BY <2>2, <2>3, <2>4, Removed
  <2>6. QED
    BY <2>5, SortedButNone
<1>5. susp' \in [Mutexes -> Seq(Threads)]
  BY <1>2, <1>4
<1>6. Queues(Waits, susp)'
  <2>1. SUFFICES ASSUME NEW m \in Mutexes PROVE ToSet(susp'[m]) = {u \in Threads : Waits'[u] = m}
    BY <1>4 DEF Queues
  <2>2. ToSet(susp[m]) = {u \in Threads : Waits[u] = m} /\ m # NoMutex
    BY <1>1, MutexesAssumption DEF Balance, Queues
  <2>3. QED
    BY <1>3, <1>4, <2>2
<1>7. Owned(Waits, owner)' /\ Highest(curr, prio, Waits, NoThread)'
  BY <1>1, <1>2, <1>3 DEF Balance, Owned, Highest
<1>8. Ordered(curr, susp, NoThread)'
  BY <1>2, <1>4 DEF Ordered, SortedBut
<1>9. Inherits(curr, prio, owner)' /\ Bounded(curr)'
  BY <1>1, <1>2 DEF Balance, Inherits, Bounded
<1>10. Restores(curr, prio, ceiling, owner, leaked \cup Closed, curr)'
  <2>1. Closed' = Closed
    BY <1>1, <1>2 DEF Closed
  <2>2. QED
    BY <1>1, <1>2, <2>1 DEF Balance, Restores, Justified
<1>11. Balance'
  BY <1>6, <1>7, <1>8, <1>9, <1>10 DEF Balance
<1>12. Typed'
  BY <1>1, <1>2, <1>5 DEF Typed
<1>13. Links'
  <2>1. stat'[t] = "ready" /\ \A u \in Threads : u # t => stat'[u] = stat[u]
    BY <1>1, <1>2
  <2>2. QED
    BY <1>1, <1>2, <2>1 DEF Links
<1>14. QED
  BY <1>11, <1>12, <1>13 DEF MutexInv

\* The running thread t gives up the mutexes S it holds, with the priority
\* cur[t].
LEMMA HandedOver ==
    ASSUME MutexInv, NEW t \in Threads, stat[t] = "ready",
           NEW S \in SUBSET Mutexes, \A m \in S : owner[m] = t,
           NEW st, \A u \in Threads : u # t => st[u] = stat[u], st[t] \in {"ready", "closed"},
           NEW cur \in [Threads -> 0 .. NoPrio - 1], \A u \in Threads : u # t => cur[u] = curr[u],
           curr' = cur, HandOver(S, st, cur), ceiling' = ceiling, leaked' \subseteq Threads,
           \A u \in leaked : u # t => u \in leaked',
           cur[t] <= InitPrio[t],
           \A n \in Mutexes : owner[n] = t /\ n \notin S => cur[t] <= prio[n],
           \/ InitPrio[t] <= cur[t] \/ t \in leaked' \/ st[t] = "closed"
           \/ \E n \in Mutexes : owner[n] = t /\ n \notin S /\ (prio[n] <= cur[t] \/ ceiling[n] <= cur[t])
    PROVE  MutexInv'
<1> DEFINE woken == {Head(susp[m]) : m \in {n \in S : susp[n] # <<>>}}
<1>1. /\ Typed /\ Links /\ Balance
      /\ curr \in [Threads -> 0 .. NoPrio - 1]
      /\ stat \in [Threads -> {"ready", "mutex", "sleep", "closed"}]
      /\ timed \in [Threads -> BOOLEAN]
      /\ pending \in [Threads -> Mutexes \cup {NoMutex}]
      /\ owner \in [Mutexes -> Threads \cup {NoThread}]
      /\ hold \in [Mutexes -> 0 .. HoldMax]
      /\ prio \in [Mutexes -> Prios]
      /\ ceiling \in [Mutexes -> Ceilings \cup {NoPrio}] /\ ceiling \in [Mutexes -> Prios]
      /\ susp \in [Mutexes -> Seq(Threads)] /\ leaked \subseteq Threads
      /\ Waits \in [Threads -> Mutexes \cup {NoMutex}]
      /\ \A u \in Threads : Waits[u] = IF stat[u] = "mutex" THEN pending[u] ELSE NoMutex
  BY InvTypes
<1>2. /\ owner' = [m \in Mutexes |-> IF m \in S THEN IF susp[m] = <<>> THEN NoThread ELSE Head(susp[m])
                                             ELSE owner[m]]
      /\ hold' = [m \in Mutexes |-> IF m \in S THEN IF susp[m] = <<>> THEN 0 ELSE 1 ELSE hold[m]]
      /\ susp' = [m \in Mutexes |-> IF m \in S THEN IF susp[m] = <<>> THEN <<>> ELSE Tail(susp[m])
                                            ELSE susp[m]]
      /\ prio' = [m \in Mutexes |-> IF m \in S
                        THEN FirstPrio(IF susp[m] = <<>> THEN <<>> ELSE Tail(susp[m]), cur)
                        ELSE prio[m]]
      /\ stat' = [u \in Threads |-> IF u \in woken THEN "ready" ELSE st[u]]
      /\ timed' = [u \in Threads |-> u \notin woken /\ timed[u]]
      /\ pending' = [u \in Threads |-> IF u \in woken THEN NoMutex ELSE pending[u]]
  BY DEF HandOver
<1>3. NoMutex \notin Mutexes /\ NoThread \notin Threads /\ NoPrio \in Nat /\ Waits[t] = NoMutex
  BY <1>1, MutexesAssumption, ThreadsAssumption, PrioAssumption
<1>4. \A m \in Mutexes :
         /\ susp[m] \in Seq(Threads) /\ IsInjective(susp[m]) /\ Sorted(susp[m], cur)
         /\ ToSet(susp[m]) = {u \in Threads : Waits[u] = m} /\ t \notin ToSet(susp[m])
  <2>1. SUFFICES ASSUME NEW m \in Mutexes
                 PROVE  /\ susp[m] \in Seq(Threads) /\ IsInjective(susp[m]) /\ Sorted(susp[m], cur)
                        /\ ToSet(susp[m]) = {u \in Threads : Waits[u] = m} /\ t \notin ToSet(susp[m])
    OBVIOUS
  <2>2. /\ susp[m] \in Seq(Threads) /\ IsInjective(susp[m]) /\ SortedBut(susp[m], curr, NoThread)
        /\ ToSet(susp[m]) = {u \in Threads : Waits[u] = m}
    BY <1>1 DEF Balance, Queues, Ordered
  <2>3. t \notin ToSet(susp[m]) /\ NoThread \notin ToSet(susp[m])
    BY <1>3, <2>2
  <2>4. \A u \in ToSet(susp[m]) : u # NoThread => cur[u] = curr[u]
    BY <2>2, <2>3
  <2>5. SortedBut(susp[m], cur, NoThread)
    BY <2>2, <2>3, <2>4, SortedStill
  <2>6. Sorted(susp[m], cur)
    BY <2>2, <2>5, SortedButNone
  <2>7. QED
    BY <2>2, <2>3, <2>6
<1>5. \A m \in S : susp[m] # <<>> => /\ Head(susp[m]) \in Threads /\ Waits[Head(susp[m])] = m
                                     /\ Head(susp[m]) # t /\ Head(susp[m]) \in woken
                                     /\ \A u \in ToSet(susp[m]) : cur[Head(susp[m])] <= cur[u]
  <2>1. SUFFICES ASSUME NEW m \in S, susp[m] # <<>>
                 PROVE  /\ Head(susp[m]) \in Threads /\ Waits[Head(susp[m])] = m
                        /\ Head(susp[m]) # t /\ Head(susp[m]) \in woken
                        /\ \A u \in ToSet(susp[m]) : cur[Head(susp[m])] <= cur[u]
    OBVIOUS
  <2>2. m \in Mutexes /\ susp[m] \in Seq(Threads) /\ Sorted(susp[m], cur)
    BY <1>4
  <2>3. /\ Head(susp[m]) \in ToSet(susp[m]) /\ FirstPrio(susp[m], cur) = cur[Head(susp[m])]
        /\ \A u \in ToSet(susp[m]) : FirstPrio(susp[m], cur) <= cur[u]
    BY <2>1, <2>2, FirstIsHighest
  <2>4. Head(susp[m]) \in woken
    BY <2>1
  <2> HIDE DEF woken
  <2>5. QED
    BY <1>4, <2>2, <2>3, <2>4
<1>6. \A u \in woken : \E m \in S : susp[m] # <<>> /\ u = Head(susp[m])
  OBVIOUS
<1> HIDE DEF woken
<1>7. \A u \in woken : u \in Threads /\ u # t /\ Waits[u] \in S /\ susp[Waits[u]] # <<>> /\ u = Head(susp[Waits[u]])
  BY <1>5, <1>6
<1>8. \A u \in woken : stat[u] = "mutex" /\ pending[u] = Waits[u]
  BY <1>1, <1>3, <1>7
<1>9. /\ Waits' \in [Threads -> Mutexes \cup {NoMutex}]
      /\ \A u \in Threads : Waits'[u] = IF u \in woken THEN NoMutex ELSE Waits[u]
  <2>1. ASSUME NEW u \in Threads
        PROVE  Waits'[u] = IF u \in woken THEN NoMutex ELSE Waits[u]
    <3>1. Waits'[u] = IF stat'[u] = "mutex" THEN pending'[u] ELSE NoMutex
      BY DEF Waits
    <3>2. CASE u \in woken
      BY <1>2, <3>1, <3>2
    <3>3. CASE u \notin woken /\ u = t
      BY <1>2, <1>3, <3>1, <3>3
    <3>4. CASE u \notin woken /\ u # t
      BY <1>1, <1>2, <3>1, <3>4
    <3>5. QED
      BY <3>2, <3>3, <3>4
  <2>2. Waits' = [u \in Threads |-> Waits'[u]]
    BY DEF Waits
  <2>3. QED
    BY <1>1, <2>1, <2>2
<1>10. \A m \in Mutexes : m \notin S => /\ owner'[m] = owner[m] /\ susp'[m] = susp[m]
                                        /\ prio'[m] = prio[m] /\ hold'[m] = hold[m]
  BY <1>2
<1>11. \A m \in S :
          /\ susp'[m] \in Seq(Threads) /\ IsInjective(susp'[m]) /\ Sorted(susp'[m], cur)
          /\ ToSet(susp'[m]) = ToSet(susp[m]) \ woken
          /\ prio'[m] = FirstPrio(susp'[m], cur)
  <2>1. SUFFICES ASSUME NEW m \in S
                 PROVE  /\ susp'[m] \in Seq(Threads) /\ IsInjective(susp'[m]) /\ Sorted(susp'[m], cur)
                        /\ ToSet(susp'[m]) = ToSet(susp[m]) \ woken
                        /\ prio'[m] = FirstPrio(susp'[m], cur)
    OBVIOUS
  <2>2. m \in Mutexes
    OBVIOUS
  <2>3. /\ susp'[m] = (IF susp[m] = <<>> THEN <<>> ELSE Tail(susp[m]))
        /\ prio'[m] = FirstPrio(susp'[m], cur)
    BY <1>2, <2>2
  <2>4. CASE susp[m] = <<>>
    <3>1. susp'[m] = susp[m]
      BY <2>3, <2>4
    <3>2. \A u \in ToSet(susp[m]) : u \notin woken
      BY <1>4, <1>7, <2>2, <2>4
    <3>3. QED
      BY <1>4, <2>2, <2>3, <3>1, <3>2
  <2>5. CASE susp[m] # <<>>
    <3>1. susp'[m] = Tail(susp[m])
      BY <2>3, <2>5
    <3>2. /\ susp'[m] \in Seq(Threads) /\ IsInjective(susp'[m]) /\ Sorted(susp'[m], cur)
          /\ ToSet(susp'[m]) = ToSet(susp[m]) \ {Head(susp[m])}
      BY <1>4, <2>2, <2>5, <3>1, Beheaded
    <3>3. \A u \in ToSet(susp[m]) : u \in woken <=> u = Head(susp[m])
      BY <1>4, <1>5, <1>7, <2>2, <2>5
    <3>4. ToSet(susp[m]) \ {Head(susp[m])} = ToSet(susp[m]) \ woken
      BY <3>3
    <3>5. QED
      BY <2>3, <3>2, <3>4
  <2>6. QED
    BY <2>4, <2>5
<1>12. \A m \in S : /\ prio'[m] \in Prios /\ \A u \in ToSet(susp'[m]) : prio'[m] <= cur[u]
                    /\ susp'[m] = <<>> => prio'[m] = NoPrio
                    /\ susp'[m] # <<>> => \E u \in ToSet(susp'[m]) : prio'[m] = cur[u]
  <2>1. SUFFICES ASSUME NEW m \in S
                 PROVE  /\ prio'[m] \in Prios /\ \A u \in ToSet(susp'[m]) : prio'[m] <= cur[u]
                        /\ susp'[m] = <<>> => prio'[m] = NoPrio
                        /\ susp'[m] # <<>> => \E u \in ToSet(susp'[m]) : prio'[m] = cur[u]
    OBVIOUS
  <2> DEFINE q == susp'[m]
  <2>2. q \in Seq(Threads) /\ Sorted(q, cur) /\ prio'[m] = FirstPrio(q, cur)
    BY <1>11
  <2> HIDE DEF q
  <2>3. /\ FirstPrio(q, cur) \in 0 .. NoPrio
        /\ \A u \in ToSet(q) : FirstPrio(q, cur) <= cur[u]
        /\ q = <<>> => FirstPrio(q, cur) = NoPrio
        /\ q # <<>> => Head(q) \in ToSet(q) /\ FirstPrio(q, cur) = cur[Head(q)]
    BY <2>2, FirstIsHighest
  <2>4. QED
    BY <2>2, <2>3 DEF q, Prios
<1>13. \A m \in S : owner'[m] = IF susp[m] = <<>> THEN NoThread ELSE Head(susp[m])
  BY <1>2
<1>14. owner' \in [Mutexes -> Threads \cup {NoThread}]
  BY <1>1, <1>2, <1>5
<1>15. Queues(Waits, susp)'
  <2>1. SUFFICES ASSUME NEW m \in Mutexes
                 PROVE  IsInjective(susp'[m]) /\ ToSet(susp'[m]) = {u \in Threads : Waits'[u] = m}
    BY DEF Queues
  <2>2. CASE m \in S
    BY <1>3, <1>4, <1>9, <1>11, <2>2
  <2>3. CASE m \notin S
    <3>1. {u \in Threads : Waits'[u] = m} = {u \in Threads : Waits[u] = m}
      BY <1>3, <1>7, <1>9, <2>3
    <3>2. QED
      BY <1>4, <1>10, <2>3, <3>1
  <2>4. QED
    BY <2>2, <2>3
<1>16. Owned(Waits, owner)'
  <2>1. SUFFICES ASSUME NEW u \in Threads, Waits'[u] # NoMutex
                 PROVE  owner'[Waits'[u]] \in Threads \ {u}
    BY DEF Owned
  <2>2. u \notin woken /\ Waits'[u] = Waits[u] /\ Waits[u] \in Mutexes
    BY <1>1, <1>9, <2>1
  <2>3. CASE Waits[u] \in S
    <3>1. susp[Waits[u]] # <<>>
      <4>1. u \in ToSet(susp[Waits[u]])
        BY <1>4, <2>2
      <4>2. ToSet(<<>>) = {}
        BY DEF ToSet
      <4>3. QED
        BY <4>1, <4>2
    <3>2. QED
      BY <1>5, <1>13, <2>2, <2>3, <3>1
  <2>4. CASE Waits[u] \notin S
    BY <1>1, <1>10, <2>1, <2>2, <2>4 DEF Balance, Owned
  <2>5. QED
    BY <2>3, <2>4
<1>17. Inherits(curr, prio, owner)'
  <2>1. SUFFICES ASSUME NEW m \in Mutexes, owner'[m] # NoThread PROVE cur[owner'[m]] <= prio'[m]
    BY DEF Inherits
  <2>2. CASE m \in S
    <3>1. susp[m] # <<>> /\ owner'[m] = Head(susp[m]) /\ Head(susp[m]) \in Threads
      BY <1>5, <1>13, <2>1, <2>2
    <3>2. cur[Head(susp[m])] \in 0 .. NoPrio - 1
      BY <3>1
    <3>3. CASE susp'[m] = <<>>
      BY <1>3, <1>12, <2>2, <3>1, <3>2, <3>3
    <3>4. CASE susp'[m] # <<>>
      <4>1. PICK u \in ToSet(susp'[m]) : prio'[m] = cur[u]
        BY <1>12, <2>2, <3>4
      <4>2. u \in ToSet(susp[m])
        BY <1>11, <2>2
      <4>3. QED
        BY <1>5, <2>2, <3>1, <4>1, <4>2
    <3>5. QED
      BY <3>3, <3>4
  <2>3. CASE m \notin S
    <3>1. owner'[m] = owner[m] /\ prio'[m] = prio[m] /\ owner[m] \in Threads
      BY <1>1, <1>10, <2>1, <2>3
    <3>2. curr[owner[m]] <= prio[m]
      BY <1>1, <1>3, <3>1 DEF Balance, Inherits
    <3>3. QED
      BY <2>3, <3>1, <3>2
  <2>4. QED
    BY <2>2, <2>3
<1>18. Highest(curr, prio, Waits, NoThread)'
  <2>1. SUFFICES ASSUME NEW u \in Threads, Waits'[u] # NoMutex PROVE prio'[Waits'[u]] <= cur[u]
    BY DEF Highest
  <2>2. u \notin woken /\ Waits'[u] = Waits[u] /\ Waits[u] \in Mutexes /\ u # t /\ u # NoThread
    BY <1>1, <1>3, <1>9, <2>1
  <2>3. CASE Waits[u] \in S
    <3>1. u \in ToSet(susp'[Waits[u]])
      BY <1>4, <1>11, <2>2, <2>3
    <3>2. QED
      BY <1>12, <2>2, <2>3, <3>1
  <2>4. CASE Waits[u] \notin S
    <3>1. prio[Waits[u]] <= curr[u] /\ cur[u] = curr[u]
      BY <1>1, <2>1, <2>2 DEF Balance, Highest
    <3>2. QED
      BY <1>10, <2>2, <2>4, <3>1
  <2>5. QED
    BY <2>3, <2>4
<1>19. Ordered(curr, susp, NoThread)'
  <2>1. SUFFICES ASSUME NEW m \in Mutexes PROVE SortedBut(susp'[m], cur, NoThread)
    BY DEF Ordered, SortedBut
  <2>2. susp'[m] \in Seq(Threads) /\ Sorted(susp'[m], cur)
    BY <1>4, <1>10, <1>11
  <2>3. QED
    BY <2>2, SortedButNone
<1>20. Bounded(curr)'
  BY <1>1 DEF Balance, Bounded
<1>21. \A u \in Threads : u # t /\ stat[u] = "closed" => stat'[u] = "closed"
  BY <1>2, <1>8
<1>22. st[t] = "closed" => stat'[t] = "closed"
  BY <1>2, <1>7
<1>23. Restores(curr, prio, ceiling, owner, leaked \cup Closed, curr)'
  <2>1. SUFFICES ASSUME NEW u \in Threads
                 PROVE  Justified(u, cur, prio', ceiling, owner') \/ u \in leaked' \/ stat'[u] = "closed"
    BY DEF Restores, Justified, Closed
  <2>2. CASE u = t
    BY <1>10, <1>22, <2>2 DEF Justified
  <2>3. CASE u # t
    <3>1. Justified(u, curr, prio, ceiling, owner) \/ u \in leaked \/ stat[u] = "closed"
      BY <1>1 DEF Balance, Restores, Closed
    <3>2. ASSUME Justified(u, curr, prio, ceiling, owner)
          PROVE  Justified(u, cur, prio', ceiling, owner')
      <4>1. \A n \in Mutexes : owner[n] = u => owner'[n] = u /\ prio'[n] = prio[n]
        BY <1>10, <2>3
      <4>2. cur[u] = curr[u]
        BY <2>3
      <4>3. QED
        BY <3>2, <4>1, <4>2 DEF Justified
    <3>3. QED
      BY <1>21, <2>3, <3>1, <3>2
  <2>4. QED
    BY <2>2, <2>3
<1>24. Balance'
  BY <1>15, <1>16, <1>17, <1>18, <1>19, <1>20, <1>23 DEF Balance
<1>25. Typed'
  <2>1. stat' \in [Threads -> {"ready", "mutex", "sleep", "closed"}]
    BY <1>1, <1>2
  <2>2. timed' \in [Threads -> BOOLEAN] /\ pending' \in [Threads -> Mutexes \cup {NoMutex}]
    BY <1>1, <1>2
  <2>3. hold' \in [Mutexes -> 0 .. HoldMax]
    BY <1>1, <1>2, MutexesAssumption
  <2>4. prio' \in [Mutexes -> Prios]
    <3>1. \A m \in Mutexes : prio'[m] \in Prios
      BY <1>1, <1>10, <1>12
    <3>2. prio' = [m \in Mutexes |-> prio'[m]]
      BY <1>2
    <3>3. QED
      BY <3>1, <3>2
  <2>5. susp' \in [Mutexes -> Seq(Threads)]
    <3>1. \A m \in Mutexes : susp'[m] \in Seq(Threads)
      BY <1>1, <1>10, <1>11
    <3>2. susp' = [m \in Mutexes |-> susp'[m]]
      BY <1>2
    <3>3. QED
      BY <3>1, <3>2
  <2>6. QED
    BY <1>1, <1>14, <2>1, <2>2, <2>3, <2>4, <2>5 DEF Typed
<1>26. Links'
  <2>1. \A m \in Mutexes : (hold'[m] = 0) <=> (owner'[m] = NoThread)
    <3>1. SUFFICES ASSUME NEW m \in Mutexes PROVE (hold'[m] = 0) <=> (owner'[m] = NoThread)
      OBVIOUS
    <3>2. CASE m \in S
      BY <1>2, <1>3, <1>5, <3>2
    <3>3. CASE m \notin S
      BY <1>1, <1>10, <3>3 DEF Links
    <3>4. QED
      BY <3>2, <3>3
  <2>2. \A u \in Threads : stat'[u] = "mutex" => pending'[u] # NoMutex
    BY <1>1, <1>2 DEF Links
  <2>3. ASSUME NEW u \in Threads, pending'[u] # NoMutex PROVE owner'[pending'[u]] # u
    <3>1. u \notin woken /\ pending'[u] = pending[u] /\ pending[u] \in Mutexes
      BY <1>1, <1>2, <2>3
    <3>2. CASE pending[u] \in S
      BY <1>3, <1>5, <1>13, <3>1, <3>2
    <3>3. CASE pending[u] \notin S
      BY <1>1, <1>10, <2>3, <3>1, <3>3 DEF Links
    <3>4. QED
      BY <3>2, <3>3
  <2>4. QED
    BY <2>1, <2>2, <2>3 DEF Links
<1>27. QED
  BY <1>24, <1>25, <1>26 DEF MutexInv

\* The last rt_mutex_release.
LEMMA ReleaseKeeps ==
    ASSUME MutexInv, NEW t \in Threads, NEW m \in Mutexes, Release(t, m)
    PROVE  MutexInv'
<1> DEFINE cur == Restored(t, m)
           H == Held(t) \ {m}
           p == MutexPriority(t, H, prio, ceiling)
           again == ceiling[m] # NoPrio \/ curr[t] = prio[m]
<1>1. /\ Typed /\ Links /\ Balance
      /\ curr \in [Threads -> 0 .. NoPrio - 1]
      /\ stat \in [Threads -> {"ready", "mutex", "sleep", "closed"}]
      /\ timed \in [Threads -> BOOLEAN]
      /\ pending \in [Threads -> Mutexes \cup {NoMutex}]
      /\ owner \in [Mutexes -> Threads \cup {NoThread}]
      /\ hold \in [Mutexes -> 0 .. HoldMax]
      /\ prio \in [Mutexes -> Prios]
      /\ ceiling \in [Mutexes -> Ceilings \cup {NoPrio}] /\ ceiling \in [Mutexes -> Prios]
      /\ susp \in [Mutexes -> Seq(Threads)] /\ leaked \subseteq Threads
      /\ Waits \in [Threads -> Mutexes \cup {NoMutex}]
      /\ \A u \in Threads : Waits[u] = IF stat[u] = "mutex" THEN pending[u] ELSE NoMutex
  BY InvTypes
<1>2. /\ stat[t] = "ready" /\ owner[m] = t /\ curr' = cur /\ HandOver({m}, stat, cur)
      /\ leaked' = StillLeaked /\ ceiling' = ceiling
  BY DEF Release, Calls, Runs
<1>3. t # NoThread /\ NoPrio \in Nat
  BY ThreadsAssumption, PrioAssumption
<1>4. /\ H \in SUBSET Mutexes
      /\ \A n \in Mutexes : n \in H <=> (owner[n] = t /\ n # m)
  BY DEF Held
<1> HIDE DEF H
<1>5. /\ p \in 0 .. NoPrio - 1 /\ p <= InitPrio[t]
      /\ \A n \in H : p <= prio[n] /\ p <= ceiling[n]
      /\ p = InitPrio[t] \/ \E n \in H : p = prio[n] \/ p = ceiling[n]
  BY <1>1, <1>4, PriorityOfHolder
<1>6. cur = IF again THEN [curr EXCEPT ![t] = p] ELSE curr
  BY DEF Restored, H
<1> HIDE DEF cur, p
<1>7. /\ cur \in [Threads -> 0 .. NoPrio - 1] /\ \A u \in Threads : u # t => cur[u] = curr[u]
      /\ cur[t] = IF again THEN p ELSE curr[t]
  BY <1>1, <1>5, <1>6
<1>8. \A n \in Mutexes : owner[n] = t => curr[t] <= prio[n]
  BY <1>1, <1>3 DEF Balance, Inherits
<1>9. cur[t] <= InitPrio[t]
  BY <1>1, <1>5, <1>7 DEF Balance, Bounded
<1>10. \A n \in Mutexes : owner[n] = t /\ n \notin {m} => cur[t] <= prio[n]
  BY <1>4, <1>5, <1>7, <1>8
<1>11. \/ InitPrio[t] <= cur[t] \/ t \in leaked' \/ stat[t] = "closed"
       \/ \E n \in Mutexes : owner[n] = t /\ n \notin {m} /\ (prio[n] <= cur[t] \/ ceiling[n] <= cur[t])
  <2>1. CASE again
    <3>1. cur[t] = p /\ p <= p
      BY <1>5, <1>7, <2>1
    <3>2. QED
      BY <1>4, <1>5, <3>1
  <2>2. CASE ~again
    <3>1. cur[t] = curr[t] /\ ceiling[m] = NoPrio /\ curr[t] # prio[m]
      BY <1>7, <2>2
    <3>2. curr[t] \in 0 .. NoPrio - 1 /\ prio[m] \in Prios /\ curr[t] <= prio[m]
      BY <1>1, <1>2, <1>8
    <3>3. ~(prio[m] <= curr[t]) /\ ~(ceiling[m] <= curr[t])
      BY <1>3, <3>1, <3>2 DEF Prios
    <3>4. Justified(t, curr, prio, ceiling, owner) \/ t \in leaked
      BY <1>1, <1>2 DEF Balance, Restores, Closed
    <3>5. t \in leaked => t \in leaked'
      BY <1>2, <3>1 DEF StillLeaked
    <3>6. QED
      BY <3>1, <3>3, <3>4, <3>5 DEF Justified
  <2>3. QED
    BY <2>1, <2>2
<1>12. leaked' \subseteq Threads /\ \A u \in leaked : u # t => u \in leaked'
  BY <1>1, <1>2, <1>7 DEF StillLeaked
<1>13. {m} \in SUBSET Mutexes /\ \A n \in {m} : owner[n] = t
  BY <1>2
<1>14. QED
  BY <1>2, <1>7, <1>9, <1>10, <1>11, <1>12, <1>13, HandedOver

\* _thread_exit.
LEMMA ExitKeeps ==
    ASSUME MutexInv, NEW t \in Threads, Exit(t)
    PROVE  MutexInv'
<1> DEFINE st == [stat EXCEPT ![t] = "closed"]
<1>1. /\ Typed /\ Links /\ Balance
      /\ curr \in [Threads -> 0 .. NoPrio - 1]
      /\ stat \in [Threads -> {"ready", "mutex", "sleep", "closed"}]
      /\ timed \in [Threads -> BOOLEAN]
      /\ pending \in [Threads -> Mutexes \cup {NoMutex}]
      /\ owner \in [Mutexes -> Threads \cup {NoThread}]
      /\ hold \in [Mutexes -> 0 .. HoldMax]
      /\ prio \in [Mutexes -> Prios]
      /\ ceiling \in [Mutexes -> Ceilings \cup {NoPrio}] /\ ceiling \in [Mutexes -> Prios]
      /\ susp \in [Mutexes -> Seq(Threads)] /\ leaked \subseteq Threads
      /\ Waits \in [Threads -> Mutexes \cup {NoMutex}]
      /\ \A u \in Threads : Waits[u] = IF stat[u] = "mutex" THEN pending[u] ELSE NoMutex
  BY InvTypes
<1>2. /\ stat[t] = "ready" /\ HandOver(Held(t), st, curr)
      /\ curr' = curr /\ ceiling' = ceiling /\ leaked' = leaked
  BY DEF Exit, Calls, Runs
<1>3. st[t] = "closed" /\ \A u \in Threads : u # t => st[u] = stat[u]
  BY <1>1
<1> HIDE DEF st
<1>4. /\ Held(t) \in SUBSET Mutexes /\ \A m \in Held(t) : owner[m] = t
      /\ \A n \in Mutexes : owner[n] = t /\ n \notin Held(t) => curr[t] <= prio[n]
  BY DEF Held
<1>5. curr[t] <= InitPrio[t] /\ leaked' \subseteq Threads /\ \A u \in leaked : u # t => u \in leaked'
  BY <1>1, <1>2 DEF Balance, Bounded
<1> DEFINE S == Held(t)
<1>6. /\ HandOver(S, st, curr) /\ S \in SUBSET Mutexes /\ \A m \in S : owner[m] = t
      /\ \A n \in Mutexes : owner[n] = t /\ n \notin S => curr[t] <= prio[n]
  BY <1>2, <1>4
<1> HIDE DEF S
<1>7. st[t] \in {"ready", "closed"}
  BY <1>3
<1>8. \/ InitPrio[t] <= curr[t] \/ t \in leaked' \/ st[t] = "closed"
      \/ \E n \in Mutexes : owner[n] = t /\ n \notin S /\ (prio[n] <= curr[t] \/ ceiling[n] <= curr[t])
  BY <1>3
<1>9. curr \in [Threads -> 0 .. NoPrio - 1]
  BY <1>1
<1>10. QED
  BY <1>2, <1>3, <1>5, <1>6, <1>7, <1>8, <1>9, HandedOver

\* rt_mutex_take of a free mutex.
LEMMA TakeFreeKeeps ==
    ASSUME MutexInv, NEW t \in Threads, NEW m \in Mutexes, TakeFree(t, m)
    PROVE  MutexInv'
<1>1. /\ Typed /\ Links /\ Balance
      /\ curr \in [Threads -> 0 .. NoPrio - 1]
      /\ stat \in [Threads -> {"ready", "mutex", "sleep", "closed"}]
      /\ timed \in [Threads -> BOOLEAN]
      /\ pending \in [Threads -> Mutexes \cup {NoMutex}]
      /\ owner \in [Mutexes -> Threads \cup {NoThread}]
      /\ hold \in [Mutexes -> 0 .. HoldMax]
      /\ prio \in [Mutexes -> Prios]
      /\ ceiling \in [Mutexes -> Ceilings \cup {NoPrio}] /\ ceiling \in [Mutexes -> Prios]
      /\ susp \in [Mutexes -> Seq(Threads)] /\ leaked \subseteq Threads
      /\ Waits \in [Threads -> Mutexes \cup {NoMutex}]
      /\ \A u \in Threads : Waits[u] = IF stat[u] = "mutex" THEN pending[u] ELSE NoMutex
  BY InvTypes
<1>2. /\ stat[t] = "ready" /\ pending[t] = NoMutex /\ owner[m] = NoThread
      /\ owner' = [owner EXCEPT ![m] = t] /\ hold' = [hold EXCEPT ![m] = 1]
      /\ prio' = [prio EXCEPT ![m] = NoPrio] /\ leaked' = StillLeaked
      /\ curr' = IF ceiling[m] < curr[t] THEN [curr EXCEPT ![t] = ceiling[m]] ELSE curr
      /\ UNCHANGED <<stat, timed, pending, ceiling, susp>>
  BY DEF TakeFree, Calls, Runs
<1>3. /\ NoMutex \notin Mutexes /\ NoThread \notin Threads /\ NoPrio \in Nat /\ Waits[t] = NoMutex
      /\ curr[t] \in 0 .. NoPrio - 1 /\ ceiling[m] \in Prios
  BY <1>1, <1>2, MutexesAssumption, ThreadsAssumption, PrioAssumption
<1>4. Waits' = Waits /\ Closed' = Closed
  BY <1>2 DEF Waits, Closed
<1>5. /\ curr' \in [Threads -> 0 .. NoPrio - 1] /\ curr'[t] \in 0 .. NoPrio - 1 /\ curr'[t] <= curr[t]
      /\ \A u \in Threads : u # t => curr'[u] = curr[u]
      /\ curr'[t] = curr[t] \/ curr'[t] = ceiling[m]
  <2>1. CASE ceiling[m] < curr[t]
    <3>1. ceiling[m] \in 0 .. NoPrio - 1
      BY <1>3, <2>1 DEF Prios
    <3>2. QED
      BY <1>1, <1>2, <1>3, <2>1, <3>1
  <2>2. CASE ~(ceiling[m] < curr[t])
    BY <1>1, <1>2, <1>3, <2>2
  <2>3. QED
    BY <2>1, <2>2
<1>6. /\ owner' \in [Mutexes -> Threads \cup {NoThread}] /\ owner'[m] = t
      /\ prio' \in [Mutexes -> Prios] /\ prio'[m] = NoPrio
      /\ \A n \in Mutexes : n # m => owner'[n] = owner[n] /\ prio'[n] = prio[n]
  BY <1>1, <1>2, <1>3 DEF Prios
<1>7. \A u \in Threads : Waits[u] # NoMutex => Waits[u] \in Mutexes /\ Waits[u] # m /\ u # t
  BY <1>1, <1>2, <1>3 DEF Balance, Owned
<1>8. Queues(Waits, susp)'
  BY <1>1, <1>2, <1>4 DEF Balance, Queues
<1>9. Owned(Waits, owner)'
  BY <1>1, <1>4, <1>6, <1>7 DEF Balance, Owned
<1>10. Inherits(curr, prio, owner)'
  <2>1. SUFFICES ASSUME NEW n \in Mutexes, owner'[n] # NoThread PROVE curr'[owner'[n]] <= prio'[n]
    BY DEF Inherits
  <2>2. CASE n = m
    BY <1>3, <1>5, <1>6, <2>2
  <2>3. CASE n # m
    <3>1. owner'[n] = owner[n] /\ prio'[n] = prio[n] /\ owner[n] \in Threads /\ prio[n] \in Prios
      BY <1>1, <1>6, <2>1, <2>3
    <3>2. curr[owner[n]] <= prio[n]
      BY <1>1, <2>1, <3>1 DEF Balance, Inherits
    <3>3. QED
      BY <1>3, <1>5, <3>1, <3>2 DEF Prios
  <2>4. QED
    BY <2>2, <2>3
<1>11. Highest(curr, prio, Waits, NoThread)'
  BY <1>1, <1>4, <1>5, <1>6, <1>7 DEF Balance, Highest
<1>12. Ordered(curr, susp, NoThread)'
  <2>1. SUFFICES ASSUME NEW n \in Mutexes PROVE SortedBut(susp[n], curr', NoThread)
    BY <1>2 DEF Ordered, SortedBut
  <2>2. susp[n] \in Seq(Threads) /\ SortedBut(susp[n], curr, NoThread)
    BY <1>1 DEF Balance, Ordered
  <2>3. ToSet(susp[n]) = {u \in Threads : Waits[u] = n}
    BY <1>1 DEF Balance, Queues
  <2>4. NoThread \notin ToSet(susp[n]) /\ \A u \in ToSet(susp[n]) : u # NoThread => curr'[u] = curr[u]
    BY <1>3, <1>5, <2>3
  <2> DEFINE c2 == curr'
  <2>5. \A u \in ToSet(susp[n]) : u # NoThread => c2[u] = curr[u]
    BY <2>4
  <2> HIDE DEF c2
  <2>6. SortedBut(susp[n], c2, NoThread)
    BY <2>2, <2>4, <2>5, SortedStill
  <2>7. QED
    BY <2>6 DEF c2
<1>13. Bounded(curr)'
  <2>1. \A u \in Threads : curr[u] <= InitPrio[u] /\ InitPrio[u] \in 0 .. NoPrio - 1
    BY <1>1, PrioAssumption DEF Balance, Bounded
  <2>2. QED
    BY <1>3, <1>5, <2>1 DEF Bounded
<1>14. Restores(curr, prio, ceiling, owner, leaked \cup Closed, curr)'
  <2>1. SUFFICES ASSUME NEW u \in Threads
                 PROVE  Justified(u, curr', prio', ceiling, owner') \/ u \in leaked' \cup Closed
    BY <1>2, <1>4 DEF Restores, Justified
  <2>2. CASE u = t /\ curr'[t] # curr[t]
    <3>1. curr'[t] = ceiling[m] /\ ceiling[m] <= curr'[t]
      BY <1>5, <2>2
    <3>2. QED
      BY <1>6, <2>2, <3>1 DEF Justified
  <2>3. CASE curr'[u] = curr[u]
    <3>1. Justified(u, curr, prio, ceiling, owner) \/ u \in leaked \cup Closed
      BY <1>1 DEF Balance, Restores
    <3>2. u \in leaked => u \in leaked'
      BY <1>2, <2>3 DEF StillLeaked
    <3>3. \A n \in Mutexes : owner[n] = u => owner'[n] = u /\ prio'[n] = prio[n]
      BY <1>2, <1>3, <1>6
    <3>4. QED
      BY <2>3, <3>1, <3>2, <3>3 DEF Justified
  <2>4. QED
    BY <1>5, <2>2, <2>3
<1>15. Balance'
  BY <1>8, <1>9, <1>10, <1>11, <1>12, <1>13, <1>14 DEF Balance
<1>16. Typed'
  <2>1. hold' \in [Mutexes -> 0 .. HoldMax]
    BY <1>1, <1>2, MutexesAssumption
  <2>2. QED
    BY <1>1, <1>2, <1>5, <1>6, <2>1 DEF Typed, StillLeaked
<1>17. Links'
  <2>1. \A n \in Mutexes : (hold'[n] = 0) <=> (owner'[n] = NoThread)
    BY <1>1, <1>2, <1>3 DEF Links
  <2>2. \A u \in Threads : pending[u] # NoMutex => owner'[pending[u]] # u
    BY <1>1, <1>2, <1>6 DEF Links
  <2>3. QED
    BY <1>1, <1>2, <2>1, <2>2 DEF Links
<1>18. QED
  BY <1>15, <1>16, <1>17 DEF MutexInv

\* The operations that only count, or put the thread to sleep.
LEMMA OthersKeep ==
    ASSUME MutexInv, NEW t \in Threads, NEW m \in Mutexes,
           TakeAgain(t, m) \/ ReleaseNested(t, m) \/ UNCHANGED vars
    PROVE  MutexInv'
<1>1. /\ Typed /\ Links /\ Balance
      /\ curr \in [Threads -> 0 .. NoPrio - 1]
      /\ stat \in [Threads -> {"ready", "mutex", "sleep", "closed"}]
      /\ timed \in [Threads -> BOOLEAN]
      /\ pending \in [Threads -> Mutexes \cup {NoMutex}]
      /\ owner \in [Mutexes -> Threads \cup {NoThread}]
      /\ hold \in [Mutexes -> 0 .. HoldMax]
      /\ prio \in [Mutexes -> Prios]
      /\ ceiling \in [Mutexes -> Ceilings \cup {NoPrio}] /\ ceiling \in [Mutexes -> Prios]
      /\ susp \in [Mutexes -> Seq(Threads)] /\ leaked \subseteq Threads
      /\ Waits \in [Threads -> Mutexes \cup {NoMutex}]
      /\ \A u \in Threads : Waits[u] = IF stat[u] = "mutex" THEN pending[u] ELSE NoMutex
  BY InvTypes
<1>2. /\ UNCHANGED <<curr, stat, timed, pending, owner, prio, ceiling, susp, leaked>>
      /\ hold' \in [Mutexes -> 0 .. HoldMax]
      /\ \A n \in Mutexes : (hold'[n] = 0) <=> (owner[n] = NoThread)
  <2>1. CASE TakeAgain(t, m)
    BY <1>1, <2>1, MutexesAssumption, ThreadsAssumption DEF TakeAgain, Links
  <2>2. CASE ReleaseNested(t, m)
    BY <1>1, <2>2, MutexesAssumption, ThreadsAssumption DEF ReleaseNested, Links
  <2>3. CASE UNCHANGED vars
    BY <1>1, <2>3 DEF vars, Links
  <2>4. QED
    BY <2>1, <2>2, <2>3
<1>3. Typed' /\ Links'
  BY <1>1, <1>2 DEF Typed, Links
<1>4. Waits' = Waits /\ Closed' = Closed
  BY <1>2 DEF Waits, Closed
<1>5. Balance'
  BY <1>1, <1>2, <1>4 DEF Balance, Queues, Owned, Inherits, Highest, Ordered, SortedBut, Bounded,
                          Restores, Justified
<1>6. QED
  BY <1>3, <1>5 DEF MutexInv

\* rt_thread_mdelay.
LEMMA SleepKeeps ==
    ASSUME MutexInv, NEW t \in Threads, Sleep(t)
    PROVE  MutexInv'
<1>1. /\ Typed /\ Links /\ Balance
      /\ curr \in [Threads -> 0 .. NoPrio - 1]
      /\ stat \in [Threads -> {"ready", "mutex", "sleep", "closed"}]
      /\ timed \in [Threads -> BOOLEAN]
      /\ pending \in [Threads -> Mutexes \cup {NoMutex}]
      /\ owner \in [Mutexes -> Threads \cup {NoThread}]
      /\ hold \in [Mutexes -> 0 .. HoldMax]
      /\ prio \in [Mutexes -> Prios]
      /\ ceiling \in [Mutexes -> Ceilings \cup {NoPrio}] /\ ceiling \in [Mutexes -> Prios]
      /\ susp \in [Mutexes -> Seq(Threads)] /\ leaked \subseteq Threads
      /\ Waits \in [Threads -> Mutexes \cup {NoMutex}]
      /\ \A u \in Threads : Waits[u] = IF stat[u] = "mutex" THEN pending[u] ELSE NoMutex
  BY InvTypes
<1>2. /\ stat[t] = "ready" /\ stat' = [stat EXCEPT ![t] = "sleep"] /\ timed' = [timed EXCEPT ![t] = TRUE]
      /\ UNCHANGED <<curr, pending, owner, hold, prio, ceiling, susp, leaked>>
  BY DEF Sleep, Calls, Runs
<1>3. stat'[t] = "sleep" /\ \A u \in Threads : u # t => stat'[u] = stat[u]
  BY <1>1, <1>2
<1>4. Typed'
  BY <1>1, <1>2 DEF Typed
<1>5. Links'
  BY <1>1, <1>2, <1>3 DEF Links
<1>6. Waits' = Waits /\ Closed' = Closed
  BY <1>1, <1>2, <1>3 DEF Waits, Closed
<1>7. Balance'
  BY <1>1, <1>2, <1>6 DEF Balance, Queues, Owned, Inherits, Highest, Ordered, SortedBut, Bounded,
                          Restores, Justified
<1>8. QED
  BY <1>4, <1>5, <1>7 DEF MutexInv

-----------------------------------------------------------------------------
(* The theorems. *)

\* Before anything is taken.
LEMMA InitHolds == Init => MutexInv
<1>1. SUFFICES ASSUME Init PROVE MutexInv
  OBVIOUS
<1>2. /\ NoPrio \in Nat /\ InitPrio \in [Threads -> 0 .. NoPrio - 1]
      /\ NoMutex \notin Mutexes /\ HoldMax \in Nat \ {0}
  BY PrioAssumption, MutexesAssumption
<1>3. <<>> \in Seq(Threads) /\ DOMAIN <<>> = {} /\ ToSet(<<>>) = {}
  BY DEF ToSet
<1>4. Typed
  BY <1>1, <1>2, <1>3 DEF Init, Typed, Prios
<1>5. Links
  BY <1>1 DEF Init, Links
<1>6. /\ \A t \in Threads : Waits[t] = NoMutex /\ curr[t] = InitPrio[t]
      /\ \A m \in Mutexes : owner[m] = NoThread /\ susp[m] = <<>>
  BY <1>1 DEF Init, Waits
<1>7. Queues(Waits, susp)
  <2>1. IsInjective(<<>>)
    BY <1>3 DEF IsInjective
  <2>2. \A m \in Mutexes : {u \in Threads : Waits[u] = m} = {}
    BY <1>2, <1>6
  <2>3. QED
    BY <1>3, <1>6, <2>1, <2>2, Zenon DEF Queues
<1>8. Owned(Waits, owner) /\ Inherits(curr, prio, owner) /\ Highest(curr, prio, Waits, NoThread)
  BY <1>6 DEF Owned, Inherits, Highest
<1>9. Ordered(curr, susp, NoThread)
  BY <1>3, <1>6, Zenon DEF Ordered, SortedBut
<1>10. \A t \in Threads : InitPrio[t] <= curr[t] /\ curr[t] <= InitPrio[t]
  BY <1>2, <1>6
<1>11. Bounded(curr) /\ Restores(curr, prio, ceiling, owner, leaked \cup Closed, curr)
  BY <1>10, Zenon DEF Bounded, Restores, Justified
<1>12. QED
  BY <1>4, <1>5, <1>7, <1>8, <1>9, <1>11 DEF MutexInv, Balance

\* Every operation keeps the invariant.
LEMMA NextKeeps == MutexInv /\ [Next]_vars => MutexInv'
<1>1. SUFFICES ASSUME MutexInv, [Next]_vars PROVE MutexInv'
  OBVIOUS
<1>2. ASSUME NEW t \in Threads, NEW m \in Mutexes, TakeFree(t, m) PROVE MutexInv'
  BY <1>1, <1>2, TakeFreeKeeps
<1>3. ASSUME NEW t \in Threads, NEW m \in Mutexes, TakeAgain(t, m) \/ ReleaseNested(t, m)
      PROVE  MutexInv'
  BY <1>1, <1>3, OthersKeep
<1>4. ASSUME NEW t \in Threads, NEW m \in Mutexes, NEW tmo \in BOOLEAN, TakeWait(t, m, tmo)
      PROVE  MutexInv'
  BY <1>1, <1>4, TakeWaitKeeps
<1>5. ASSUME NEW t \in Threads, NEW m \in Mutexes, Release(t, m) PROVE MutexInv'
  BY <1>1, <1>5, ReleaseKeeps
<1>6. ASSUME NEW t \in Threads, NEW m \in Mutexes, NEW c \in Ceilings, SetCeiling(t, m, c)
      PROVE  MutexInv'
  BY <1>1, <1>6, SetCeilingKeeps
<1>7. ASSUME NEW t \in Threads, TakeTimedOut(t) PROVE MutexInv'
  BY <1>1, <1>7, TakeTimedOutKeeps
<1>8. ASSUME NEW t \in Threads, Timeout(t) PROVE MutexInv'
  BY <1>1, <1>8, TimeoutKeeps
<1>9. ASSUME NEW t \in Threads, Sleep(t) PROVE MutexInv'
  BY <1>1, <1>9, SleepKeeps
<1>10. ASSUME NEW t \in Threads, Exit(t) PROVE MutexInv'
  BY <1>1, <1>10, ExitKeeps
<1>11. ASSUME NEW t \in Threads, NEW u \in Threads, Detach(u, t) PROVE MutexInv'
  BY <1>1, <1>11, DetachKeeps
<1>12. CASE UNCHANGED vars
  <2>1. Typed' /\ Links'
    BY <1>1, <1>12 DEF MutexInv, Typed, Links, vars
  <2>2. Waits' = Waits /\ Closed' = Closed
    BY <1>12 DEF Waits, Closed, vars
  <2>3. Balance'
    BY <1>1, <1>12, <2>2 DEF MutexInv, Balance, Queues, Owned, Inherits, Highest, Ordered, SortedBut,
                             Bounded, Restores, Justified, vars
  <2>4. QED
    BY <2>1, <2>3 DEF MutexInv
<1>13. QED
  BY <1>1, <1>2, <1>3, <1>4, <1>5, <1>6, <1>7, <1>8, <1>9, <1>10, <1>11, <1>12, Zenon DEF Next

\* The invariant holds in every state the kernel reaches.
LEMMA InvHolds == Spec => []MutexInv
BY InitHolds, NextKeeps, PTL DEF Spec

\* Of the invariant: the list of a mutex holds the threads suspended on it.
LEMMA InvType == MutexInv => TypeOK
<1>1. SUFFICES ASSUME MutexInv PROVE TypeOK
  OBVIOUS
<1>2. /\ Links /\ Balance /\ pending \in [Threads -> Mutexes \cup {NoMutex}]
      /\ \A t \in Threads : Waits[t] = IF stat[t] = "mutex" THEN pending[t] ELSE NoMutex
  BY <1>1, InvTypes
<1>3. ASSUME NEW m \in Mutexes
      PROVE  /\ (hold[m] = 0) <=> (owner[m] = NoThread)
             /\ IsInjective(susp[m])
             /\ ToSet(susp[m]) = {t \in Threads : stat[t] = "mutex" /\ pending[t] = m}
  <2>1. IsInjective(susp[m]) /\ ToSet(susp[m]) = {t \in Threads : Waits[t] = m}
    BY <1>2 DEF Balance, Queues
  <2>2. {t \in Threads : Waits[t] = m} = {t \in Threads : stat[t] = "mutex" /\ pending[t] = m}
    BY <1>2, MutexesAssumption
  <2>3. (hold[m] = 0) <=> (owner[m] = NoThread)
    BY <1>2 DEF Links
  <2>4. QED
    BY <2>1, <2>2, <2>3
<1>4. QED
  BY <1>1, <1>3 DEF MutexInv, Typed, TypeOK, Prios

\* Of the invariant: the owner's priority is at most that of its mutex, which
\* is at most that of the waiter.
LEMMA InvInheritance == MutexInv => Inheritance
<1>1. SUFFICES ASSUME MutexInv, NEW m \in Mutexes, NEW i \in DOMAIN susp[m]
               PROVE  curr[owner[m]] <= curr[susp[m][i]]
  BY DEF Inheritance
<1>2. /\ Typed /\ Links /\ Balance
      /\ curr \in [Threads -> 0 .. NoPrio - 1]
      /\ stat \in [Threads -> {"ready", "mutex", "sleep", "closed"}]
      /\ timed \in [Threads -> BOOLEAN]
      /\ pending \in [Threads -> Mutexes \cup {NoMutex}]
      /\ owner \in [Mutexes -> Threads \cup {NoThread}]
      /\ hold \in [Mutexes -> 0 .. HoldMax]
      /\ prio \in [Mutexes -> Prios]
      /\ ceiling \in [Mutexes -> Ceilings \cup {NoPrio}] /\ ceiling \in [Mutexes -> Prios]
      /\ susp \in [Mutexes -> Seq(Threads)] /\ leaked \subseteq Threads
      /\ Waits \in [Threads -> Mutexes \cup {NoMutex}]
      /\ \A u \in Threads : Waits[u] = IF stat[u] = "mutex" THEN pending[u] ELSE NoMutex
  BY <1>1, InvTypes
<1> DEFINE u == susp[m][i]
<1>3. u \in ToSet(susp[m])
  BY DEF ToSet
<1>4. u \in Threads /\ Waits[u] = m
  BY <1>2, <1>3 DEF Balance, Queues
<1>5. owner[m] \in Threads /\ u # NoThread /\ m # NoMutex /\ owner[m] # NoThread
  BY <1>2, <1>4, ThreadsAssumption, MutexesAssumption DEF Balance, Owned
<1>6. curr[owner[m]] <= prio[m] /\ prio[m] <= curr[u]
  BY <1>2, <1>4, <1>5 DEF Balance, Inherits, Highest
<1>7. curr[owner[m]] \in Int /\ prio[m] \in Int /\ curr[u] \in Int
  BY <1>2, <1>4, <1>5, PrioAssumption DEF Prios
<1>8. QED
  BY <1>6, <1>7

\* Of the invariant: without a mutex there is no reason for another priority.
LEMMA InvRestored == MutexInv => PriorityRestored
<1>1. SUFFICES ASSUME MutexInv, NEW t \in Threads, stat[t] # "closed", Held(t) = {}, t \notin leaked
               PROVE  curr[t] = InitPrio[t]
  BY DEF PriorityRestored
<1>2. Balance /\ curr \in [Threads -> 0 .. NoPrio - 1]
  BY <1>1, InvTypes
<1>3. \A m \in Mutexes : owner[m] # t
  BY <1>1 DEF Held
<1>4. Justified(t, curr, prio, ceiling, owner)
  BY <1>1, <1>2 DEF Balance, Restores, Closed
<1>5. InitPrio[t] <= curr[t] /\ curr[t] <= InitPrio[t]
  BY <1>2, <1>3, <1>4 DEF Justified, Balance, Bounded
<1>6. QED
  BY <1>2, <1>5, PrioAssumption

\* Type correctness: every variable has its type, and the suspend list of a
\* mutex (rt_susp_list_enqueue, rt_susp_list_dequeue) holds the threads that
\* wait for it, each once.
THEOREM TypeCorrect == Spec => []TypeOK
BY InvHolds, InvType, PTL

\* Priority inheritance (_thread_update_priority): an owner runs at least at
\* the priority of every waiter, through any chain or cycle of owners.
THEOREM OwnersInherit == Spec => []Inheritance
BY InvHolds, InvInheritance, PTL

\* What was inherited is given back (rt_mutex_release, the end of a timed
\* take), but for the threads that kept it in rt_mutex_take's error path.
THEOREM InheritedGivenBack == Spec => []PriorityRestored
BY InvHolds, InvRestored, PTL

\* rt_mutex_release and _thread_exit hand a mutex to the waiter of the highest
\* priority, whatever happened to the priorities since the threads queued.
THEOREM HandedToHighest == Spec => HandOffToHighest
<1> DEFINE Good == \A m \in Mutexes :
                     susp[m] # <<>> /\ owner'[m] # owner[m]
                         => /\ owner'[m] \in ToSet(susp[m])
                            /\ \A t \in ToSet(susp[m]) : curr[owner'[m]] <= curr[t]
<1>1. MutexInv /\ [Next]_vars => [Good]_vars
  <2>1. SUFFICES ASSUME MutexInv, Next, NEW m \in Mutexes, susp[m] # <<>>, owner'[m] # owner[m]
                 PROVE  /\ owner'[m] \in ToSet(susp[m])
                        /\ \A t \in ToSet(susp[m]) : curr[owner'[m]] <= curr[t]
    BY Zenon
  <2>2. /\ Typed /\ Links /\ Balance
        /\ curr \in [Threads -> 0 .. NoPrio - 1]
        /\ stat \in [Threads -> {"ready", "mutex", "sleep", "closed"}]
        /\ timed \in [Threads -> BOOLEAN]
        /\ pending \in [Threads -> Mutexes \cup {NoMutex}]
        /\ owner \in [Mutexes -> Threads \cup {NoThread}]
        /\ hold \in [Mutexes -> 0 .. HoldMax]
        /\ prio \in [Mutexes -> Prios]
        /\ ceiling \in [Mutexes -> Ceilings \cup {NoPrio}] /\ ceiling \in [Mutexes -> Prios]
        /\ susp \in [Mutexes -> Seq(Threads)] /\ leaked \subseteq Threads
        /\ Waits \in [Threads -> Mutexes \cup {NoMutex}]
        /\ \A u \in Threads : Waits[u] = IF stat[u] = "mutex" THEN pending[u] ELSE NoMutex
    BY <2>1, InvTypes
  <2>3. /\ Head(susp[m]) \in ToSet(susp[m]) /\ owner[m] # NoThread
        /\ \A t \in ToSet(susp[m]) : curr[Head(susp[m])] <= curr[t]
    <3>1. susp[m] \in Seq(Threads) /\ SortedBut(susp[m], curr, NoThread)
      BY <2>2 DEF Balance, Ordered
    <3>2. Sorted(susp[m], curr)
      BY <3>1, SortedButNone
    <3>3. /\ Head(susp[m]) \in ToSet(susp[m]) /\ FirstPrio(susp[m], curr) = curr[Head(susp[m])]
          /\ \A t \in ToSet(susp[m]) : FirstPrio(susp[m], curr) <= curr[t]
      BY <2>1, <2>2, <3>1, <3>2, FirstIsHighest
    <3>4. owner[m] # NoThread
      BY <2>2, <3>3, ThreadsAssumption, MutexesAssumption DEF Balance, Queues, Owned
    <3>5. QED
      BY <3>3, <3>4
  <2>4. SUFFICES owner'[m] = Head(susp[m])
    BY <2>3
  <2>5. ASSUME NEW S, NEW st, NEW cur, HandOver(S, st, cur) PROVE owner'[m] = Head(susp[m])
    <3>1. owner'[m] = IF m \in S THEN IF susp[m] = <<>> THEN NoThread ELSE Head(susp[m]) ELSE owner[m]
      BY <2>5 DEF HandOver
    <3>2. QED
      BY <2>1, <3>1
  <2>6. ASSUME NEW t \in Threads, NEW n \in Mutexes, TakeFree(t, n) PROVE FALSE
    BY <2>1, <2>2, <2>3, <2>6 DEF TakeFree
  <2>7. ASSUME NEW t \in Threads, NEW n \in Mutexes,
               \/ TakeAgain(t, n) \/ ReleaseNested(t, n)
               \/ \E tmo \in BOOLEAN : TakeWait(t, n, tmo)
               \/ \E c \in Ceilings : SetCeiling(t, n, c)
        PROVE  FALSE
    BY <2>1, <2>7 DEF TakeAgain, ReleaseNested, TakeWait, TakeWaitBy, SetCeiling
  <2>8. ASSUME NEW t \in Threads,
               \/ TakeTimedOut(t) \/ Timeout(t) \/ Sleep(t)
               \/ \E u \in Threads : Detach(u, t)
        PROVE  FALSE
    BY <2>1, <2>8 DEF TakeTimedOut, Timeout, TimeoutBy, Sleep, Detach
  <2>9. ASSUME NEW t \in Threads, NEW n \in Mutexes, Release(t, n) PROVE owner'[m] = Head(susp[m])
    BY <2>5, <2>9 DEF Release
  <2>10. ASSUME NEW t \in Threads, Exit(t) PROVE owner'[m] = Head(susp[m])
    BY <2>5, <2>10 DEF Exit
  <2>11. QED
    BY <2>1, <2>6, <2>7, <2>8, <2>9, <2>10, Zenon DEF Next
<1>2. HandOffToHighest <=> [][Good]_vars
  BY DEF HandOffToHighest
<1> HIDE DEF Good
<1>3. QED
  BY <1>1, <1>2, InvHolds, PTL DEF Spec
=============================================================================
