----------------------------- MODULE CanTxProofs -----------------------------
(***************************************************************************)
(* For every finite set of writing threads and every number of send boxes: *)
(* no box is used twice, a write that reports its frame sent has sent it,  *)
(* and the error interrupt names a box that exists.                        *)
(***************************************************************************)
EXTENDS CanTx, FiniteSetTheorems, WellFoundedInduction, TLAPS

-----------------------------------------------------------------------------
(* The inductive invariant. *)

\* Every place of a thread; the ones where it has a token of the semaphore; the
\* ones where its frame was handed to the mailbox and the result is not read.
Places == Using \cup {"idle", "semwait", "token", "good", "dropped"}
Busy == Using \cup {"token", "good", "dropped"}
Waiting == {"sent", "blocked", "woken", "return"}

\* How many threads a function f of the threads puts at the places P.
Count(f, P) == Cardinality({u \in Threads : f[u] \in P})

\* Only t has moved between f and g.
Moved(f, g, t) == \A u \in Threads \ {t} : g[u] = f[u]

\* TypeOK in three parts: the types, the requests, the tokens.
Types ==
    /\ pc \in [Threads -> Places] /\ box \in [Threads -> Boxes] /\ tainted \subseteq Threads
    /\ semq \in Seq(Threads) /\ freelist \in Seq(Boxes)
    /\ result \in [Boxes -> {"ok", "err", "wait"}]
    /\ comp \in [Boxes -> Threads \cup {None, Done}]
    /\ mailbox \in [Boxes -> Threads \cup {Empty, Old}]
    /\ rqcp \subseteq Boxes /\ txok \subseteq Boxes /\ ackerr \in BOOLEAN
Requests ==
    /\ order \in Seq(Boxes) /\ IsInjective(order)
    /\ ToSet(order) = {b \in Boxes : mailbox[b] # Empty}
Tokens == sem \in Nat /\ sem + Count(pc, Busy) = SndBoxes

\* The threads suspended on the semaphore are in its queue, once each.
Queued == IsInjective(semq) /\ ToSet(semq) = {t \in Threads : pc[t] = "semwait"}

\* A box is on the list or in use.
BoxesCounted == Len(freelist) + Count(pc, Using) = SndBoxes

\* BoxesNotShared in two parts, but for the length of the list.
BoxOfOne ==
    /\ \A t, u \in Threads : pc[t] \in Using /\ pc[u] \in Using /\ t # u => box[t] # box[u]
    /\ \A t \in Threads : pc[t] \in Using => box[t] \notin ToSet(freelist)
    /\ IsInjective(freelist)
WaiterOfBox ==
    /\ \A b \in Boxes : comp[b] \in Threads => pc[comp[b]] = "blocked" /\ box[comp[b]] = b
    /\ \A t \in Threads : pc[t] = "blocked" => comp[box[t]] = t

\* A frame of a thread that is still writing is in the mailbox of its box.
FramesOwned ==
    \A t \in Threads, b \in Boxes :
        mailbox[b] = t => /\ pc[t] \in Waiting \cup {"good", "dropped"}
                          /\ pc[t] \in Waiting => b = box[t]

\* The box of a thread that found it at rest holds nothing until the thread
\* sends, and reports no success before the frame has left.
BoxAtRest ==
    \A t \in Threads \ tainted :
        /\ pc[t] \in {"taken", "fresh"} =>
            /\ mailbox[box[t]] = Empty /\ box[t] \notin rqcp
            /\ result[box[t]] # "ok"
        /\ pc[t] \in Waiting /\ mailbox[box[t]] = t =>
            box[t] \notin rqcp /\ result[box[t]] # "ok"

\* A mailbox that transmits has no TXOK, and an error is one of a frame.
ErrorOfFrame ==
    /\ \A b \in Boxes : mailbox[b] # Empty => b \notin txok
    /\ ackerr => order # <<>>

Sharing == Tokens /\ Queued /\ BoxesCounted /\ BoxOfOne
Frames == FramesOwned /\ BoxAtRest /\ OkMeansSent
IInv == Types /\ Requests /\ Sharing /\ WaiterOfBox /\ Frames /\ ErrorOfFrame

-----------------------------------------------------------------------------
(* Sequences without repetitions, and counting. *)

\* Taking the first element.
LEMMA TailOfQueue ==
    ASSUME NEW S, NEW s \in Seq(S), IsInjective(s), s # <<>>
    PROVE  /\ Head(s) \in S /\ Head(s) \in ToSet(s)
           /\ Tail(s) \in Seq(S) /\ IsInjective(Tail(s))
           /\ ToSet(Tail(s)) = ToSet(s) \ {Head(s)}
           /\ Len(s) \in Nat /\ Len(Tail(s)) = Len(s) - 1
<1>1. /\ Len(s) \in Nat \ {0} /\ DOMAIN s = 1..Len(s) /\ Head(s) = s[1]
      /\ \A i \in 1..Len(s) : s[i] \in S
  OBVIOUS
<1>2. /\ Tail(s) \in Seq(S) /\ Len(Tail(s)) = Len(s) - 1 /\ DOMAIN Tail(s) = 1..(Len(s) - 1)
      /\ \A i \in 1..(Len(s) - 1) : Tail(s)[i] = s[i + 1]
  OBVIOUS
<1>3. Head(s) \in S /\ Head(s) \in ToSet(s)
  BY <1>1 DEF ToSet
<1>4. IsInjective(Tail(s))
  <2>1. SUFFICES ASSUME NEW i \in 1..(Len(s) - 1), NEW j \in 1..(Len(s) - 1),
                        Tail(s)[i] = Tail(s)[j]
                 PROVE  i = j
    BY <1>2 DEF IsInjective
  <2>2. i + 1 \in 1..Len(s) /\ j + 1 \in 1..Len(s) /\ s[i + 1] = s[j + 1]
    BY <1>1, <1>2, <2>1
  <2>3. i + 1 = j + 1
    BY <1>1, <2>2 DEF IsInjective
  <2>4. QED
    BY <2>3
<1>5. ASSUME NEW x \in ToSet(Tail(s)) PROVE x \in ToSet(s) \ {Head(s)}
  <2>1. PICK i \in 1..(Len(s) - 1) : x = s[i + 1]
    BY <1>2 DEF ToSet
  <2>2. i + 1 \in 1..Len(s) /\ i + 1 # 1 /\ 1 \in 1..Len(s)
    BY <1>1
  <2>3. s[i + 1] # s[1]
    BY <1>1, <2>2 DEF IsInjective
  <2>4. QED
    BY <1>1, <2>1, <2>2, <2>3 DEF ToSet
<1>6. ASSUME NEW x \in ToSet(s) \ {Head(s)} PROVE x \in ToSet(Tail(s))
  <2>1. PICK i \in 1..Len(s) : x = s[i]
    BY <1>1 DEF ToSet
  <2>2. i # 1
    BY <1>1, <2>1
  <2>3. i - 1 \in 1..(Len(s) - 1) /\ (i - 1) + 1 = i
    BY <1>1, <2>2
  <2>4. Tail(s)[i - 1] = x
    BY <1>2, <2>1, <2>3
  <2>5. QED
    BY <1>2, <2>3, <2>4 DEF ToSet
<1>7. QED
  BY <1>1, <1>2, <1>3, <1>4, <1>5, <1>6

\* Adding a new element at the end.
LEMMA AppendToQueue ==
    ASSUME NEW S, NEW s \in Seq(S), IsInjective(s), NEW e \in S, e \notin ToSet(s)
    PROVE  /\ Append(s, e) \in Seq(S) /\ IsInjective(Append(s, e))
           /\ ToSet(Append(s, e)) = ToSet(s) \cup {e}
           /\ Len(s) \in Nat /\ Len(Append(s, e)) = Len(s) + 1
           /\ Append(s, e) # <<>>
<1> DEFINE a == Append(s, e)
<1>1. /\ Len(s) \in Nat /\ DOMAIN s = 1..Len(s)
      /\ a \in Seq(S) /\ Len(a) = Len(s) + 1 /\ DOMAIN a = 1..(Len(s) + 1)
      /\ \A i \in 1..Len(s) : a[i] = s[i]
      /\ a[Len(s) + 1] = e
  OBVIOUS
<1> HIDE DEF a
<1>2. \A i \in 1..Len(s) : s[i] # e
  BY <1>1 DEF ToSet
<1>3. IsInjective(a)
  <2>1. SUFFICES ASSUME NEW i \in 1..(Len(s) + 1), NEW j \in 1..(Len(s) + 1), a[i] = a[j]
                 PROVE  i = j
    BY <1>1 DEF IsInjective
  <2>2. CASE i \in 1..Len(s) /\ j \in 1..Len(s)
    BY <1>1, <2>1, <2>2 DEF IsInjective
  <2>3. CASE i \notin 1..Len(s) \/ j \notin 1..Len(s)
    BY <1>1, <1>2, <2>1, <2>3
  <2>4. QED
    BY <2>2, <2>3
<1>4. ASSUME NEW x \in ToSet(a) PROVE x \in ToSet(s) \cup {e}
  <2>1. PICK i \in 1..(Len(s) + 1) : x = a[i]
    BY <1>1 DEF ToSet
  <2>2. QED
    BY <1>1, <2>1 DEF ToSet
<1>5. ASSUME NEW x \in ToSet(s) \cup {e} PROVE x \in ToSet(a)
  <2>1. CASE x = e
    BY <1>1, <2>1 DEF ToSet
  <2>2. CASE x \in ToSet(s)
    <3>1. PICK i \in 1..Len(s) : x = s[i]
      BY <1>1, <2>2 DEF ToSet
    <3>2. i \in 1..(Len(s) + 1) /\ a[i] = x
      BY <1>1, <3>1
    <3>3. QED
      BY <1>1, <3>2 DEF ToSet
  <2>3. QED
    BY <2>1, <2>2
<1>6. a # <<>>
  BY <1>1
<1>7. QED
  BY <1>1, <1>3, <1>4, <1>5, <1>6 DEF a

\* How many threads are at the places P when one of them moves.
LEMMA OneMoves ==
    ASSUME NEW f, NEW g, NEW P, NEW t \in Threads, Moved(f, g, t)
    PROVE  /\ Count(f, P) \in Nat /\ Count(g, P) \in Nat
           /\ (f[t] \in P <=> g[t] \in P) => Count(g, P) = Count(f, P)
           /\ f[t] \in P /\ g[t] \notin P => Count(g, P) = Count(f, P) - 1
           /\ f[t] \notin P /\ g[t] \in P => Count(g, P) = Count(f, P) + 1
<1> DEFINE F == {u \in Threads : f[u] \in P}
           G == {u \in Threads : g[u] \in P}
<1>1. IsFiniteSet(F) /\ IsFiniteSet(G)
  BY ThreadsAssumption, FS_Subset
<1>2. Cardinality(F) \in Nat /\ Cardinality(G) \in Nat
  BY <1>1, FS_CardinalityType
<1>3. (f[t] \in P <=> g[t] \in P) => G = F
  BY DEF Moved
<1>4. f[t] \in P /\ g[t] \notin P => t \in F /\ G = F \ {t}
  BY DEF Moved
<1>5. f[t] \notin P /\ g[t] \in P => t \notin F /\ G = F \cup {t}
  BY DEF Moved
<1> HIDE DEF F, G
<1>6. Count(f, P) = Cardinality(F) /\ Count(g, P) = Cardinality(G)
  BY DEF Count, F, G
<1>7. ASSUME f[t] \in P, g[t] \notin P PROVE Cardinality(G) = Cardinality(F) - 1
  BY <1>1, <1>4, <1>7, FS_RemoveElement
<1>8. ASSUME f[t] \notin P, g[t] \in P PROVE Cardinality(G) = Cardinality(F) + 1
  BY <1>1, <1>5, <1>8, FS_AddElement
<1>9. QED
  BY <1>2, <1>3, <1>6, <1>7, <1>8

\* A set of natural numbers has a least element.
LEMMA LeastOfNats ==
    ASSUME NEW S \in SUBSET Nat, S # {}
    PROVE  \E x \in S : \A y \in S : x <= y
<1> DEFINE R == {ss \in Nat \X Nat : ss[1] < ss[2]}
<1>1. IsWellFoundedOn(R, Nat)
  BY NatLessThanWellFounded, Zenon DEF OpToRel
<1> HIDE DEF R
<1>2. \E x \in S : \A y \in S : ~(<<y, x>> \in R)
  BY <1>1, WFMin, Zenon
<1>3. PICK x \in S : \A y \in S : ~(<<y, x>> \in R)
  BY <1>2
<1>4. ASSUME NEW y \in S PROVE x <= y
  <2>1. <<y, x>> \notin R
    BY <1>3
  <2>2. <<y, x>> \in Nat \X Nat /\ <<y, x>>[1] = y /\ <<y, x>>[2] = x
    OBVIOUS
  <2>3. ~(y < x)
    BY <2>1, <2>2, Zenon DEF R
  <2>4. QED
    BY <2>3
<1>5. QED
  BY <1>4

\* Threads with a token but no box are as many as the boxes on the list allow.
LEMMA TokensFitList ==
    ASSUME pc \in [Threads -> Places], sem \in Nat, Len(freelist) \in Nat,
           sem + Count(pc, Busy) = SndBoxes, Len(freelist) + Count(pc, Using) = SndBoxes
    PROVE  Count(pc, {"token"}) \in Nat /\ Count(pc, {"token"}) <= Len(freelist)
<1> DEFINE T == {u \in Threads : pc[u] \in {"token"}}
           U == {u \in Threads : pc[u] \in Using}
           B == {u \in Threads : pc[u] \in Busy}
<1>1. T \cap U = {} /\ T \cup U \subseteq B
  BY DEF Using, Busy
<1>2. IsFiniteSet(T) /\ IsFiniteSet(U) /\ IsFiniteSet(B)
  BY ThreadsAssumption, FS_Subset
<1>3. Count(pc, {"token"}) = Cardinality(T) /\ Count(pc, Using) = Cardinality(U)
      /\ Count(pc, Busy) = Cardinality(B)
  BY DEF Count
<1> HIDE DEF T, U, B
<1>4. Cardinality(T) \in Nat /\ Cardinality(U) \in Nat /\ Cardinality(B) \in Nat
  BY <1>2, FS_CardinalityType
<1>5. Cardinality(T \cup U) = Cardinality(T) + Cardinality(U) - Cardinality(T \cap U)
  BY <1>2, FS_Union
<1>6. Cardinality(T \cap U) = 0
  BY <1>1, FS_EmptySet
<1>7. Cardinality(T \cup U) <= Cardinality(B)
  BY <1>1, <1>2, FS_Subset
<1>8. Cardinality(T) + Cardinality(U) <= Cardinality(B)
  BY <1>4, <1>5, <1>6, <1>7
<1>9. QED
  BY <1>3, <1>4, <1>8, BoxesAssumption

-----------------------------------------------------------------------------
(* The semaphore, its queue and the boxes. *)

\* The invariant gives the type invariant and the first safety property.
LEMMA PartsOfInv == ASSUME IInv PROVE TypeOK /\ BoxesNotShared
<1>1. Count(pc, Busy) = Cardinality({t \in Threads : pc[t] \notin {"idle", "semwait"}})
  <2>1. {t \in Threads : pc[t] \notin {"idle", "semwait"}} = {t \in Threads : pc[t] \in Busy}
    BY DEF IInv, Types, Places, Busy, Using
  <2>2. QED
    BY <2>1 DEF Count
<1>2. Count(pc, Busy) \in Nat
  <2>1. PICK t \in Threads : TRUE
    BY ThreadsAssumption
  <2>2. Moved(pc, pc, t)
    BY DEF Moved
  <2>3. QED
    BY <2>2, OneMoves
<1>3. sem \in 0..SndBoxes
  BY <1>2, BoxesAssumption DEF IInv, Sharing, Tokens
<1>4. TypeOK
  BY <1>1, <1>3 DEF IInv, Types, Requests, Sharing, Tokens, TypeOK, Places
<1>5. Len(freelist) \in Nat
  BY DEF IInv, Types
<1>6. Count(pc, {"token"}) <= Len(freelist)
  BY <1>5, TokensFitList DEF IInv, Types, Sharing, Tokens, BoxesCounted
<1>7. Count(pc, {"token"}) = Cardinality({t \in Threads : pc[t] = "token"})
  <2>1. {t \in Threads : pc[t] \in {"token"}} = {t \in Threads : pc[t] = "token"}
    OBVIOUS
  <2>2. QED
    BY <2>1 DEF Count
<1>8. BoxesNotShared
  BY <1>6, <1>7 DEF IInv, Sharing, BoxOfOne, WaiterOfBox, BoxesNotShared
<1>9. QED
  BY <1>4, <1>8

\* A thread with a token finds a box.
LEMMA ListNotEmpty ==
    ASSUME IInv, NEW t \in Threads, pc[t] = "token"
    PROVE  freelist # <<>>
<1> DEFINE g == [pc EXCEPT ![t] = "idle"]
<1>1. pc \in [Threads -> Places] /\ Len(freelist) \in Nat
  BY DEF IInv, Types
<1>2. Count(pc, {"token"}) <= Len(freelist)
  BY <1>1, TokensFitList DEF IInv, Types, Sharing, Tokens, BoxesCounted
<1>3. /\ pc[t] \in {"token"} /\ g[t] \notin {"token"}
      /\ Moved(pc, g, t)
  BY <1>1 DEF Moved
<1> HIDE DEF g
<1>4. Count(g, {"token"}) \in Nat /\ Count(g, {"token"}) = Count(pc, {"token"}) - 1
      /\ Count(pc, {"token"}) \in Nat
  BY <1>3, OneMoves
<1>5. Len(freelist) # 0
  BY <1>1, <1>2, <1>4
<1>6. QED
  BY <1>5

\* A thread that uses a box goes on with it.
LEMMA UserMoves ==
    ASSUME IInv, NEW t \in Threads, pc[t] \in Using, pc' \in [Threads -> Places],
           pc'[t] \in Using, Moved(pc, pc', t),
           UNCHANGED <<box, sem, semq, freelist>>
    PROVE  Sharing'
<1>1. Count(pc', Busy) = Count(pc, Busy) /\ Count(pc', Using) = Count(pc, Using)
  <2>1. pc[t] \in Busy /\ pc'[t] \in Busy
    BY DEF Busy
  <2>2. QED
    BY <2>1, OneMoves
<1>2. Tokens' /\ BoxesCounted'
  BY <1>1 DEF IInv, Sharing, Tokens, BoxesCounted, Count
<1>3. Queued'
  BY DEF IInv, Sharing, Queued, Using, Moved
<1>4. BoxOfOne'
  BY DEF IInv, Sharing, BoxOfOne, Moved
<1>5. QED
  BY <1>2, <1>3, <1>4 DEF Sharing

-----------------------------------------------------------------------------
(* The start. *)

\* rt_can_open leaves every box free and every token in the semaphore.
LEMMA InitInv == Init => IInv
<1> SUFFICES ASSUME Init PROVE IInv
  OBVIOUS
<1>1. /\ pc \in [Threads -> Places] /\ box \in [Threads -> Boxes] /\ semq \in Seq(Threads)
      /\ result \in [Boxes -> {"ok", "err", "wait"}]
  BY BoxesAssumption DEF Init, Places, Boxes
<1>2. /\ freelist \in Seq(Boxes) /\ Len(freelist) = SndBoxes /\ IsInjective(freelist)
  <2>1. \A i \in 1..SndBoxes : i - 1 \in Boxes
    BY BoxesAssumption DEF Boxes
  <2>2. freelist \in [1..SndBoxes -> Boxes]
    BY <2>1 DEF Init
  <2>3. freelist \in Seq(Boxes) /\ Len(freelist) = SndBoxes
    BY <2>2, BoxesAssumption
  <2>4. QED
    BY <2>3, BoxesAssumption DEF Init, IsInjective
<1>3. Types
  BY <1>1, <1>2 DEF Init, Types, Boxes
<1>4. Requests
  BY DEF Init, Requests, IsInjective, ToSet
<1>5. Count(pc, Busy) = 0 /\ Count(pc, Using) = 0
  <2>1. {u \in Threads : pc[u] \in Busy} = {} /\ {u \in Threads : pc[u] \in Using} = {}
    BY DEF Init, Busy, Using
  <2>2. QED
    BY <2>1, FS_EmptySet DEF Count
<1>6. Tokens /\ BoxesCounted
  BY <1>2, <1>5, BoxesAssumption DEF Init, Tokens, BoxesCounted
<1>7. Queued
  BY DEF Init, Queued, IsInjective, ToSet
<1>8. BoxOfOne /\ WaiterOfBox
  BY <1>2, ThreadsAssumption DEF Init, BoxOfOne, WaiterOfBox, Using
<1>9. Frames
  BY ThreadsAssumption DEF Init, Frames, FramesOwned, BoxAtRest, OkMeansSent, Waiting
<1>10. ErrorOfFrame
  BY DEF Init, ErrorOfFrame
<1>11. QED
  BY <1>3, <1>4, <1>6, <1>7, <1>8, <1>9, <1>10 DEF IInv, Sharing

-----------------------------------------------------------------------------
(* The writing threads. *)

\* rt_sem_take gives a token or queues the thread.
LEMMA WriteKeeps == ASSUME IInv, NEW t \in Threads, Write(t) PROVE IInv'
<1>1. /\ pc[t] = "idle" /\ pc \in [Threads -> Places]
      /\ UNCHANGED <<box, tainted, freelist, result, comp, mailbox, order, rqcp, txok, ackerr>>
      /\ \/ /\ sem > 0 /\ sem' = sem - 1 /\ pc' = [pc EXCEPT ![t] = "token"] /\ semq' = semq
         \/ /\ semq' = Append(semq, t) /\ pc' = [pc EXCEPT ![t] = "semwait"] /\ sem' = sem
  BY DEF IInv, Types, Write
<1>2. /\ pc' \in [Threads -> Places] /\ pc'[t] \in {"token", "semwait"} /\ Moved(pc, pc', t)
  BY <1>1 DEF Places, Moved
<1>3. Types'
  <2>1. semq \in Seq(Threads)
    BY DEF IInv, Types
  <2>2. Append(semq, t) \in Seq(Threads)
    BY <2>1
  <2>3. semq' \in Seq(Threads)
    BY <1>1, <2>1, <2>2
  <2>4. QED
    BY <1>1, <1>2, <2>3 DEF IInv, Types
<1>4. Requests' /\ ErrorOfFrame'
  BY <1>1 DEF IInv, Requests, ErrorOfFrame
<1>5. Tokens' /\ Queued'
  <2>1. CASE sem > 0 /\ sem' = sem - 1 /\ pc'[t] = "token" /\ semq' = semq
    <3>1. pc[t] \notin Busy /\ pc'[t] \in Busy
      BY <1>1, <2>1 DEF Busy, Using
    <3>2. Count(pc', Busy) = Count(pc, Busy) + 1 /\ Count(pc, Busy) \in Nat
      BY <1>2, <3>1, OneMoves
    <3>3. Tokens'
      BY <2>1, <3>2 DEF IInv, Sharing, Tokens, Count
    <3>4. Queued'
      BY <1>1, <1>2, <2>1 DEF IInv, Sharing, Queued, Moved
    <3>5. QED
      BY <3>3, <3>4
  <2>2. CASE semq' = Append(semq, t) /\ pc'[t] = "semwait" /\ sem' = sem
    <3>1. pc[t] \notin Busy /\ pc'[t] \notin Busy
      BY <1>1, <2>2 DEF Busy, Using
    <3>2. Count(pc', Busy) = Count(pc, Busy)
      BY <1>2, <3>1, OneMoves
    <3>3. Tokens'
      BY <2>2, <3>2 DEF IInv, Sharing, Tokens, Count
    <3>4. semq \in Seq(Threads) /\ IsInjective(semq) /\ t \notin ToSet(semq)
      BY <1>1 DEF IInv, Types, Sharing, Queued
    <3>5. IsInjective(semq') /\ ToSet(semq') = ToSet(semq) \cup {t}
      BY <2>2, <3>4, AppendToQueue
    <3>6. Queued'
      BY <1>1, <1>2, <2>2, <3>5 DEF IInv, Sharing, Queued, Moved
    <3>7. QED
      BY <3>3, <3>6
  <2>3. QED
    BY <1>1, <2>1, <2>2
<1>6. BoxesCounted' /\ BoxOfOne'
  <2>1. pc[t] \notin Using /\ pc'[t] \notin Using
    BY <1>1, <1>2 DEF Using
  <2>2. Count(pc', Using) = Count(pc, Using)
    BY <1>2, <2>1, OneMoves
  <2>3. BoxesCounted'
    BY <1>1, <2>2 DEF IInv, Sharing, BoxesCounted, Count
  <2>4. BoxOfOne'
    BY <1>1, <1>2, <2>1 DEF IInv, Sharing, BoxOfOne, Moved
  <2>5. QED
    BY <2>3, <2>4
<1>7. WaiterOfBox'
  BY <1>1, <1>2 DEF IInv, WaiterOfBox, Moved
<1>8. Frames'
  <2>1. \A u \in Threads : u # t => pc'[u] = pc[u]
    BY <1>2 DEF Moved
  <2>2. FramesOwned' /\ BoxAtRest'
    BY <1>1, <1>2, <2>1 DEF IInv, Frames, FramesOwned, BoxAtRest, Waiting
  <2>3. OkMeansSent'
    BY <1>1, <1>2, <2>1 DEF IInv, Frames, OkMeansSent, InMailbox
  <2>4. QED
    BY <2>2, <2>3 DEF Frames
<1>9. QED
  BY <1>3, <1>4, <1>5, <1>6, <1>7, <1>8 DEF IInv, Sharing

\* A thread with a token takes a box nobody uses.
LEMMA TakeBoxKeeps == ASSUME IInv, NEW t \in Threads, TakeBox(t) PROVE IInv'
<1> DEFINE b == Head(freelist)
<1>1. /\ pc[t] = "token" /\ pc \in [Threads -> Places]
      /\ pc' = [pc EXCEPT ![t] = "taken"] /\ box' = [box EXCEPT ![t] = b]
      /\ tainted' = IF mailbox[b] = Empty /\ b \notin rqcp THEN tainted ELSE tainted \cup {t}
      /\ result' = [result EXCEPT ![b] = "wait"] /\ freelist' = Tail(freelist)
      /\ UNCHANGED <<sem, semq, comp, mailbox, order, rqcp, txok, ackerr>>
  BY DEF IInv, Types, TakeBox, TakeBoxBy
<1>2. pc' \in [Threads -> Places] /\ pc'[t] = "taken" /\ Moved(pc, pc', t)
  BY <1>1 DEF Places, Using, Moved
<1>3. freelist # <<>> /\ freelist \in Seq(Boxes) /\ IsInjective(freelist)
  BY <1>1, ListNotEmpty DEF IInv, Types, Sharing, BoxOfOne
<1>4. /\ b \in Boxes /\ b \in ToSet(freelist)
      /\ freelist' \in Seq(Boxes) /\ IsInjective(freelist')
      /\ ToSet(freelist') = ToSet(freelist) \ {b}
      /\ Len(freelist) \in Nat /\ Len(freelist') = Len(freelist) - 1
  BY <1>1, <1>3, TailOfQueue
<1> HIDE DEF b
<1>5. box' \in [Threads -> Boxes] /\ box'[t] = b /\ \A u \in Threads : u # t => box'[u] = box[u]
  BY <1>1, <1>4 DEF IInv, Types
<1>6. /\ result' \in [Boxes -> {"ok", "err", "wait"}] /\ result'[b] = "wait"
      /\ \A c \in Boxes : c # b => result'[c] = result[c]
  BY <1>1, <1>4 DEF IInv, Types
<1>7. Types'
  BY <1>1, <1>2, <1>4, <1>5, <1>6 DEF IInv, Types
<1>8. Requests' /\ ErrorOfFrame'
  BY <1>1 DEF IInv, Requests, ErrorOfFrame
<1>9. Tokens' /\ BoxesCounted'
  <2>1. pc[t] \in Busy /\ pc'[t] \in Busy /\ pc[t] \notin Using /\ pc'[t] \in Using
    BY <1>1, <1>2 DEF Busy, Using
  <2>2. /\ Count(pc', Busy) = Count(pc, Busy)
        /\ Count(pc', Using) = Count(pc, Using) + 1 /\ Count(pc, Using) \in Nat
    BY <1>2, <2>1, OneMoves
  <2>3. Tokens'
    BY <1>1, <2>2 DEF IInv, Sharing, Tokens, Count
  <2>4. Len(freelist') + Count(pc', Using) = SndBoxes
    BY <1>4, <2>2 DEF IInv, Sharing, BoxesCounted
  <2>5. QED
    BY <2>3, <2>4 DEF BoxesCounted, Count
<1>10. Queued'
  BY <1>1, <1>2 DEF IInv, Sharing, Queued, Moved
<1>11. BoxOfOne'
  <2>1. \A u \in Threads : u # t /\ pc'[u] \in Using => box'[u] = box[u] /\ box[u] \notin ToSet(freelist)
    BY <1>2, <1>5 DEF IInv, Sharing, BoxOfOne, Moved
  <2>2. \A u \in Threads : u # t /\ pc'[u] \in Using => box'[u] # b
    BY <1>4, <2>1
  <2>3. \A u, v \in Threads : pc'[u] \in Using /\ pc'[v] \in Using /\ u # v => box'[u] # box'[v]
    BY <1>2, <1>5, <2>2 DEF IInv, Sharing, BoxOfOne, Moved
  <2>4. \A u \in Threads : pc'[u] \in Using => box'[u] \notin ToSet(freelist')
    BY <1>4, <1>5, <2>1
  <2>5. QED
    BY <1>4, <2>3, <2>4 DEF BoxOfOne
<1>12. WaiterOfBox'
  BY <1>1, <1>2, <1>5 DEF IInv, WaiterOfBox, Moved
<1>13. Frames'
  <2>1. \A u \in Threads : u # t => pc'[u] = pc[u] /\ box'[u] = box[u] /\ (u \in tainted' <=> u \in tainted)
    BY <1>1, <1>2, <1>5 DEF Moved
  <2>2. FramesOwned'
    BY <1>1, <1>2, <2>1 DEF IInv, Frames, FramesOwned, Waiting
  <2>3. OkMeansSent'
    BY <1>1, <1>2, <2>1 DEF IInv, Frames, OkMeansSent, InMailbox
  <2>4. BoxAtRest'
    <3>1. \A u \in Threads : u # t /\ pc[u] \in Using => result'[box[u]] = result[box[u]]
      BY <1>4, <1>6 DEF IInv, Types, Sharing, BoxOfOne
    <3>2. {"taken", "fresh"} \cup Waiting \subseteq Using
      BY DEF Waiting, Using
    <3>3. \A u \in Threads \ tainted' : u # t =>
            /\ pc'[u] \in {"taken", "fresh"} =>
                mailbox'[box'[u]] = Empty /\ box'[u] \notin rqcp' /\ result'[box'[u]] # "ok"
            /\ pc'[u] \in Waiting /\ mailbox'[box'[u]] = u =>
                box'[u] \notin rqcp' /\ result'[box'[u]] # "ok"
      BY <1>1, <2>1, <3>1, <3>2 DEF IInv, Frames, BoxAtRest
    <3>4. t \notin tainted' => mailbox'[b] = Empty /\ b \notin rqcp' /\ result'[b] # "ok"
      BY <1>1, <1>6
    <3>5. QED
      BY <1>2, <1>5, <3>3, <3>4 DEF BoxAtRest, Waiting
  <2>5. QED
    BY <2>2, <2>3, <2>4 DEF Frames
<1>14. QED
  BY <1>7, <1>8, <1>9, <1>10, <1>11, <1>12, <1>13 DEF IInv, Sharing

\* The box of a thread that uses one, and the completion there.
LEMMA BoxOfUser ==
    ASSUME IInv, NEW t \in Threads, pc[t] \in Using
    PROVE  /\ box[t] \in Boxes
           /\ pc[t] # "blocked" => comp[box[t]] \in {None, Done}
           /\ \A u \in Threads : u # t /\ pc[u] \in Using => box[u] # box[t]
<1>1. box[t] \in Boxes /\ comp[box[t]] \in Threads \cup {None, Done}
  BY DEF IInv, Types
<1>2. \A u \in Threads : u # t /\ pc[u] \in Using => box[u] # box[t]
  BY DEF IInv, Sharing, BoxOfOne
<1>3. "blocked" \in Using
  BY DEF Using
<1>4. QED
  BY <1>1, <1>2, <1>3 DEF IInv, WaiterOfBox

\* The completion is initialised, waited on or consumed by the box's user.
LEMMA CompletionKeeps ==
    ASSUME IInv, NEW t \in Threads, CompletionInit(t) \/ CompletionWait(t) \/ CompletionRetry(t)
    PROVE  IInv'
<1>1. /\ pc[t] \in Using /\ pc[t] # "blocked" /\ pc \in [Threads -> Places]
      /\ UNCHANGED <<box, tainted, sem, semq, freelist, result, mailbox, order, rqcp, txok, ackerr>>
      /\ \E v \in Using : pc' = [pc EXCEPT ![t] = v]
  BY DEF IInv, Types, CompletionInit, CompletionWait, CompletionWaitBy, CompletionRetry, Using
<1>2. pc' \in [Threads -> Places] /\ pc'[t] \in Using /\ Moved(pc, pc', t)
  BY <1>1 DEF Places, Moved
<1>3. Sharing'
  BY <1>1, <1>2, UserMoves
<1>4. /\ box[t] \in Boxes /\ comp[box[t]] \in {None, Done}
      /\ \A u \in Threads : u # t /\ pc[u] \in Using => box[u] # box[t]
  BY <1>1, BoxOfUser
<1>5. /\ comp' \in [Boxes -> Threads \cup {None, Done}]
      /\ \A c \in Boxes : c # box[t] => comp'[c] = comp[c]
      /\ IF pc'[t] = "blocked" THEN comp'[box[t]] = t ELSE comp'[box[t]] \in {None, Done}
  <2>1. comp \in [Boxes -> Threads \cup {None, Done}]
    BY DEF IInv, Types
  <2>2. CASE CompletionInit(t)
    BY <1>1, <1>4, <2>1, <2>2 DEF CompletionInit
  <2>3. CASE CompletionWait(t)
    BY <1>1, <1>4, <2>1, <2>3 DEF CompletionWait, CompletionWaitBy
  <2>4. CASE CompletionRetry(t)
    BY <1>1, <1>4, <2>1, <2>4 DEF CompletionRetry
  <2>5. QED
    BY <2>2, <2>3, <2>4
<1>6. Types'
  BY <1>1, <1>2, <1>5 DEF IInv, Types
<1>7. Requests' /\ ErrorOfFrame'
  BY <1>1 DEF IInv, Requests, ErrorOfFrame
<1>8. WaiterOfBox'
  <2>1. None \notin Threads /\ Done \notin Threads
    BY ThreadsAssumption
  <2>2. \A u \in Threads : u # t => pc'[u] = pc[u]
    BY <1>2 DEF Moved
  <2>3. \A u \in Threads : u # t /\ pc[u] = "blocked" => box[u] # box[t]
    BY <1>4 DEF Using
  <2>4. ASSUME NEW c \in Boxes, comp'[c] \in Threads
        PROVE  pc'[comp'[c]] = "blocked" /\ box'[comp'[c]] = c
    BY <1>1, <1>5, <2>1, <2>2, <2>4 DEF IInv, WaiterOfBox
  <2>5. ASSUME NEW u \in Threads, pc'[u] = "blocked" PROVE comp'[box'[u]] = u
    <3>1. CASE u = t
      BY <1>1, <1>5, <2>5, <3>1
    <3>2. CASE u # t
      <4>1. box[u] \in Boxes /\ box[u] # box[t] /\ comp[box[u]] = u
        BY <2>2, <2>3, <2>5, <3>2 DEF IInv, Types, WaiterOfBox
      <4>2. QED
        BY <1>1, <1>5, <4>1
    <3>3. QED
      BY <3>1, <3>2
  <2>6. QED
    BY <2>4, <2>5 DEF WaiterOfBox
<1>9. Frames'
  <2>1. \/ pc[t] = "taken" /\ pc'[t] = "fresh"
        \/ pc[t] \in Waiting /\ pc'[t] \in Waiting
    BY <1>1 DEF CompletionInit, CompletionWait, CompletionWaitBy, CompletionRetry, Waiting
  <2>2. \A u \in Threads : u # t => pc'[u] = pc[u]
    BY <1>2 DEF Moved
  <2>3. FramesOwned' /\ BoxAtRest'
    BY <1>1, <2>1, <2>2 DEF IInv, Frames, FramesOwned, BoxAtRest, Waiting
  <2>4. OkMeansSent'
    BY <1>1, <2>1, <2>2 DEF IInv, Frames, OkMeansSent, InMailbox, Waiting
  <2>5. QED
    BY <2>3, <2>4 DEF Frames
<1>10. QED
  BY <1>3, <1>6, <1>7, <1>8, <1>9 DEF IInv

\* The frame goes into an empty mailbox.
LEMMA SendMsgKeeps == ASSUME IInv, NEW t \in Threads, SendMsg(t) PROVE IInv'
<1> DEFINE b == box[t]
<1>1. /\ pc[t] = "fresh" /\ mailbox[b] = Empty /\ pc \in [Threads -> Places]
      /\ pc' = [pc EXCEPT ![t] = "sent"] /\ mailbox' = [mailbox EXCEPT ![b] = t]
      /\ order' = Append(order, b) /\ rqcp' = rqcp \ {b} /\ txok' = txok \ {b}
      /\ UNCHANGED <<box, tainted, sem, semq, freelist, result, comp, ackerr>>
  BY DEF IInv, Types, SendMsg
<1>2. pc[t] \in Using
  BY <1>1 DEF Using
<1>3. /\ b \in Boxes /\ \A u \in Threads : u # t /\ pc[u] \in Using => box[u] # b
  BY <1>2, BoxOfUser
<1> HIDE DEF b
<1>4. /\ pc' \in [Threads -> Places] /\ pc'[t] = "sent" /\ pc'[t] \in Using /\ Moved(pc, pc', t)
      /\ \A u \in Threads : u # t => pc'[u] = pc[u]
  BY <1>1 DEF Places, Using, Moved
<1>5. Sharing'
  BY <1>1, <1>2, <1>4, UserMoves
<1>6. /\ mailbox' \in [Boxes -> Threads \cup {Empty, Old}] /\ mailbox'[b] = t
      /\ \A c \in Boxes : c # b => mailbox'[c] = mailbox[c]
  BY <1>1, <1>3 DEF IInv, Types
<1>7. Types'
  BY <1>1, <1>4, <1>6 DEF IInv, Types
<1>8. /\ order \in Seq(Boxes) /\ IsInjective(order) /\ b \notin ToSet(order)
  BY <1>1 DEF IInv, Requests
<1>9. /\ order' \in Seq(Boxes) /\ IsInjective(order') /\ ToSet(order') = ToSet(order) \cup {b}
      /\ order' # <<>>
  BY <1>1, <1>3, <1>8, AppendToQueue
<1>10. t # Empty
  BY ThreadsAssumption
<1>11. Requests'
  BY <1>3, <1>6, <1>9, <1>10 DEF IInv, Requests
<1>12. ErrorOfFrame'
  BY <1>1, <1>6, <1>9 DEF IInv, ErrorOfFrame
<1>13. WaiterOfBox'
  BY <1>1, <1>4 DEF IInv, WaiterOfBox
<1>14. FramesOwned'
  <2>1. \A c \in Boxes : mailbox[c] # t
    BY <1>1 DEF IInv, Frames, FramesOwned, Waiting
  <2>2. box' = box /\ box[t] = b
    BY <1>1 DEF b
  <2>3. QED
    BY <1>4, <1>6, <2>1, <2>2 DEF IInv, Frames, FramesOwned, Waiting
<1>15. BoxAtRest'
  <2>1. {"taken", "fresh"} \cup Waiting \subseteq Using
    BY DEF Waiting, Using
  <2>2. box' = box /\ box[t] = b /\ \A u \in Threads : box[u] \in Boxes
    BY <1>1 DEF b, IInv, Types
  <2>3. ASSUME NEW u \in Threads \ tainted', u # t
        PROVE  /\ pc'[u] \in {"taken", "fresh"} =>
                    mailbox'[box'[u]] = Empty /\ box'[u] \notin rqcp' /\ result'[box'[u]] # "ok"
               /\ pc'[u] \in Waiting /\ mailbox'[box'[u]] = u =>
                    box'[u] \notin rqcp' /\ result'[box'[u]] # "ok"
    <3>1. pc[u] \in {"taken", "fresh"} \cup Waiting => mailbox'[box[u]] = mailbox[box[u]]
      BY <1>3, <1>6, <2>1, <2>2, <2>3
    <3>2. QED
      BY <1>1, <1>4, <2>2, <2>3, <3>1 DEF IInv, Frames, BoxAtRest
  <2>4. t \notin tainted => result[b] # "ok"
    BY <1>1, <2>2 DEF IInv, Frames, BoxAtRest
  <2>5. QED
    BY <1>1, <1>4, <2>2, <2>3, <2>4 DEF BoxAtRest
<1>16. OkMeansSent'
  <2>1. \A u \in Threads : u # t /\ InMailbox(u)' => InMailbox(u)
    BY <1>6 DEF InMailbox
  <2>2. QED
    BY <1>1, <1>4, <2>1 DEF IInv, Frames, OkMeansSent
<1>17. QED
  BY <1>5, <1>7, <1>11, <1>12, <1>13, <1>14, <1>15, <1>16 DEF IInv, Frames

\* The frame is refused.
LEMMA SendRefusedKeeps == ASSUME IInv, NEW t \in Threads, SendRefused(t) PROVE IInv'
<1>1. /\ pc[t] = "fresh" /\ pc \in [Threads -> Places] /\ pc' = [pc EXCEPT ![t] = "refused"]
      /\ UNCHANGED <<box, tainted, sem, semq, freelist, result, comp, mailbox, order, rqcp, txok,
                     ackerr>>
  BY DEF IInv, Types, SendRefused
<1>2. /\ pc' \in [Threads -> Places] /\ pc'[t] = "refused" /\ pc[t] \in Using /\ pc'[t] \in Using
      /\ Moved(pc, pc', t) /\ \A u \in Threads : u # t => pc'[u] = pc[u]
  BY <1>1 DEF Places, Using, Moved
<1>3. Sharing'
  BY <1>1, <1>2, UserMoves
<1>4. Types' /\ Requests' /\ ErrorOfFrame'
  BY <1>1, <1>2 DEF IInv, Types, Requests, ErrorOfFrame
<1>5. WaiterOfBox'
  BY <1>1, <1>2 DEF IInv, WaiterOfBox
<1>6. FramesOwned' /\ BoxAtRest'
  BY <1>1, <1>2 DEF IInv, Frames, FramesOwned, BoxAtRest, Waiting
<1>7. OkMeansSent'
  BY <1>1, <1>2 DEF IInv, Frames, OkMeansSent, InMailbox
<1>8. QED
  BY <1>3, <1>4, <1>5, <1>6, <1>7 DEF IInv, Frames

\* The box goes back to the list; the thread reports its frame sent only when
\* no mailbox holds it.
LEMMA GiveBackKeeps == ASSUME IInv, NEW t \in Threads, GiveBack(t) PROVE IInv'
<1> DEFINE b == box[t]
<1>1. /\ pc[t] \in {"return", "refused"} /\ pc \in [Threads -> Places]
      /\ \/ pc' = [pc EXCEPT ![t] = "dropped"]
         \/ pc[t] = "return" /\ result[b] = "ok" /\ pc' = [pc EXCEPT ![t] = "good"]
      /\ freelist' = Append(freelist, b) /\ box' = [box EXCEPT ![t] = 0]
      /\ UNCHANGED <<tainted, sem, semq, result, comp, mailbox, order, rqcp, txok, ackerr>>
  BY DEF IInv, Types, GiveBack
<1>2. /\ pc' \in [Threads -> Places] /\ pc'[t] \in {"good", "dropped"}
      /\ pc'[t] = "good" => pc[t] = "return" /\ result[b] = "ok"
      /\ Moved(pc, pc', t) /\ \A u \in Threads : u # t => pc'[u] = pc[u]
  BY <1>1 DEF Places, Moved
<1>3. pc[t] \in Using
  BY <1>1 DEF Using
<1>4. b \in Boxes /\ b \notin ToSet(freelist) /\ freelist \in Seq(Boxes) /\ IsInjective(freelist)
  BY <1>3 DEF IInv, Types, Sharing, BoxOfOne
<1>5. /\ freelist' \in Seq(Boxes) /\ IsInjective(freelist')
      /\ ToSet(freelist') = ToSet(freelist) \cup {b}
      /\ Len(freelist) \in Nat /\ Len(freelist') = Len(freelist) + 1
  BY <1>1, <1>4, AppendToQueue
<1>6. /\ box' \in [Threads -> Boxes] /\ \A u \in Threads : u # t => box'[u] = box[u]
  BY <1>1, BoxesAssumption DEF IInv, Types, Boxes
<1>7. Types' /\ Requests' /\ ErrorOfFrame'
  BY <1>1, <1>2, <1>5, <1>6 DEF IInv, Types, Requests, ErrorOfFrame
<1>8. Tokens' /\ BoxesCounted'
  <2>1. pc[t] \in Busy /\ pc'[t] \in Busy /\ pc'[t] \notin Using
    BY <1>2, <1>3 DEF Busy, Using
  <2>2. /\ Count(pc', Busy) = Count(pc, Busy)
        /\ Count(pc', Using) = Count(pc, Using) - 1 /\ Count(pc, Using) \in Nat
    <3>1. Moved(pc, pc', t)
      BY <1>2
    <3>2. Count(pc', Busy) = Count(pc, Busy)
      BY <2>1, <3>1, OneMoves
    <3>3. Count(pc', Using) = Count(pc, Using) - 1 /\ Count(pc, Using) \in Nat
      BY <1>3, <2>1, <3>1, OneMoves
    <3>4. QED
      BY <3>2, <3>3
  <2>3. Tokens'
    BY <1>1, <2>2 DEF IInv, Sharing, Tokens, Count
  <2>4. Len(freelist') + Count(pc', Using) = SndBoxes
    BY <1>5, <2>2 DEF IInv, Sharing, BoxesCounted
  <2>5. QED
    BY <2>3, <2>4 DEF BoxesCounted, Count
<1>9. Queued'
  BY <1>1, <1>2 DEF IInv, Sharing, Queued
<1>10. BoxOfOne'
  <2>1. pc'[t] \notin Using
    BY <1>2 DEF Using
  <2>2. \A u \in Threads : u # t /\ pc[u] \in Using => box[u] # b
    BY <1>3 DEF IInv, Sharing, BoxOfOne
  <2>3. QED
    BY <1>2, <1>5, <1>6, <2>1, <2>2 DEF IInv, Sharing, BoxOfOne
<1>11. WaiterOfBox'
  BY <1>1, <1>2, <1>6 DEF IInv, WaiterOfBox
<1>12. Frames'
  <2>1. FramesOwned'
    BY <1>1, <1>2, <1>6 DEF IInv, Frames, FramesOwned, Waiting
  <2>2. BoxAtRest'
    BY <1>1, <1>2, <1>6 DEF IInv, Frames, BoxAtRest, Waiting
  <2>3. pc'[t] = "good" /\ t \notin tainted => ~InMailbox(t)
    <3>1. SUFFICES ASSUME pc[t] = "return", result[b] = "ok", t \notin tainted,
                          NEW c \in Boxes, mailbox[c] = t
                   PROVE  FALSE
      BY <1>2 DEF InMailbox
    <3>2. c = b /\ pc[t] \in Waiting
      BY <3>1 DEF IInv, Frames, FramesOwned, Waiting
    <3>3. QED
      BY <3>1, <3>2 DEF IInv, Frames, BoxAtRest
  <2>4. OkMeansSent'
    BY <1>1, <1>2, <2>3 DEF IInv, Frames, OkMeansSent, InMailbox
  <2>5. QED
    BY <2>1, <2>2, <2>4 DEF Frames
<1>13. QED
  BY <1>7, <1>8, <1>9, <1>10, <1>11, <1>12 DEF IInv, Sharing

\* The token goes back to the semaphore or to the first thread in its queue.
LEMMA SemReleaseKeeps == ASSUME IInv, NEW t \in Threads, SemRelease(t) PROVE IInv'
<1>1. /\ pc[t] \in {"good", "dropped"} /\ pc \in [Threads -> Places]
      /\ tainted' = tainted \ {t}
      /\ mailbox' = [b \in Boxes |-> IF mailbox[b] = t THEN Old ELSE mailbox[b]]
      /\ UNCHANGED <<box, freelist, result, comp, order, rqcp, txok, ackerr>>
  BY DEF IInv, Types, SemRelease, SemReleaseBy
<1>2. Empty \notin Threads /\ Old \notin Threads /\ Empty # Old
  BY ThreadsAssumption DEF Empty, Old
<1>3. /\ mailbox' \in [Boxes -> Threads \cup {Empty, Old}]
      /\ \A b \in Boxes : mailbox'[b] = Empty <=> mailbox[b] = Empty
      /\ \A b \in Boxes, u \in Threads : mailbox'[b] = u <=> mailbox[b] = u /\ u # t
  BY <1>1, <1>2 DEF IInv, Types
<1>4. /\ pc' \in [Threads -> Places] /\ pc'[t] = "idle" /\ semq' \in Seq(Threads)
      /\ Tokens' /\ Queued'
      /\ \A u \in Threads \ {t} : pc'[u] = pc[u] \/ (pc[u] = "semwait" /\ pc'[u] = "token")
      /\ Count(pc', Using) = Count(pc, Using)
  <2>1. pc[t] \in Busy /\ pc[t] \notin Using /\ "idle" \notin Busy /\ "idle" \notin Using
    BY <1>1 DEF Busy, Using
  <2>2. CASE semq = <<>>
    <3>1. sem' = sem + 1 /\ pc' = [pc EXCEPT ![t] = "idle"] /\ semq' = semq
      BY <2>2 DEF SemRelease, SemReleaseBy
    <3>2. pc' \in [Threads -> Places] /\ pc'[t] = "idle" /\ Moved(pc, pc', t)
      BY <1>1, <3>1 DEF Places, Moved
    <3>a. Moved(pc, pc', t) /\ pc[t] \in Busy /\ pc'[t] \notin Busy
      BY <2>1, <3>2
    <3>b. pc[t] \notin Using /\ pc'[t] \notin Using
      BY <2>1, <3>2
    <3>c. Count(pc, Busy) \in Nat
      BY <3>a, OneMoves
    <3>d. Count(pc', Busy) = Count(pc, Busy) - 1
      BY <3>a, OneMoves
    <3>3. Count(pc', Busy) = Count(pc, Busy) - 1 /\ Count(pc, Busy) \in Nat
      BY <3>c, <3>d
    <3>4. Count(pc', Using) = Count(pc, Using)
      BY <3>a, <3>b, OneMoves
    <3>5. sem' + Count(pc', Busy) = SndBoxes /\ sem' \in Nat
      BY <3>1, <3>3 DEF IInv, Sharing, Tokens
    <3>6. Queued'
      BY <1>1, <3>1, <3>2 DEF IInv, Sharing, Queued, Moved
    <3>7. QED
      BY <3>1, <3>2, <3>4, <3>5, <3>6 DEF IInv, Types, Tokens, Moved, Count
  <2>3. CASE semq # <<>>
    <3> DEFINE h == Head(semq)
               f == [pc EXCEPT ![t] = "idle"]
    <3>1. /\ semq \in Seq(Threads) /\ IsInjective(semq)
          /\ ToSet(semq) = {u \in Threads : pc[u] = "semwait"}
      BY DEF IInv, Types, Sharing, Queued
    <3>2. /\ h \in Threads /\ h \in ToSet(semq) /\ Tail(semq) \in Seq(Threads)
          /\ IsInjective(Tail(semq)) /\ ToSet(Tail(semq)) = ToSet(semq) \ {h}
      BY <2>3, <3>1, TailOfQueue
    <3>3. sem' = sem /\ pc' = [pc EXCEPT ![t] = "idle", ![h] = "token"] /\ semq' = Tail(semq)
      BY <2>3 DEF SemRelease, SemReleaseBy
    <3> HIDE DEF h
    <3>4. pc[h] = "semwait" /\ h # t
      BY <1>1, <3>1, <3>2
    <3>5. /\ f \in [Threads -> Places] /\ f[t] = "idle" /\ f[h] = "semwait"
          /\ Moved(pc, f, t)
      BY <1>1, <3>2, <3>4 DEF Places, Moved
    <3>6. /\ pc' \in [Threads -> Places] /\ pc'[t] = "idle" /\ pc'[h] = "token"
          /\ Moved(f, pc', h)
          /\ \A u \in Threads : u # t /\ u # h => pc'[u] = pc[u]
      BY <1>1, <3>2, <3>3, <3>4 DEF Places, Moved
    <3> HIDE DEF f
    <3>7. /\ f[t] \notin Busy /\ f[t] \notin Using /\ f[h] \notin Busy /\ f[h] \notin Using
          /\ pc'[h] \in Busy /\ pc'[h] \notin Using
      BY <3>5, <3>6 DEF Busy, Using
    <3>8. Count(f, Busy) = Count(pc, Busy) - 1 /\ Count(pc, Busy) \in Nat
      BY <2>1, <3>5, <3>7, OneMoves
    <3>9. Count(pc', Busy) = Count(f, Busy) + 1
      BY <3>2, <3>6, <3>7, OneMoves
    <3>10. Count(f, Using) = Count(pc, Using)
      BY <2>1, <3>5, <3>7, OneMoves
    <3>11. Count(pc', Using) = Count(f, Using)
      BY <3>2, <3>6, <3>7, OneMoves
    <3>12. sem' + Count(pc', Busy) = SndBoxes /\ sem' \in Nat
      BY <3>3, <3>8, <3>9 DEF IInv, Sharing, Tokens
    <3>13. ToSet(semq') = {u \in Threads : pc'[u] = "semwait"}
      BY <1>1, <3>1, <3>2, <3>3, <3>4, <3>6
    <3>14. QED
      BY <3>2, <3>3, <3>4, <3>6, <3>10, <3>11, <3>12, <3>13 DEF Tokens, Queued, Count
  <2>4. QED
    BY <2>2, <2>3
<1>5. \A u \in Threads : pc'[u] \in Using => u # t /\ pc'[u] = pc[u]
  BY <1>4 DEF Using
<1>6. Types' /\ ErrorOfFrame'
  BY <1>1, <1>3, <1>4 DEF IInv, Types, ErrorOfFrame
<1>7. Requests'
  BY <1>1, <1>3 DEF IInv, Requests
<1>8. BoxesCounted' /\ BoxOfOne'
  <2>1. BoxesCounted'
    BY <1>1, <1>4 DEF IInv, Sharing, BoxesCounted, Count
  <2>2. BoxOfOne'
    BY <1>1, <1>5 DEF IInv, Sharing, BoxOfOne
  <2>3. QED
    BY <2>1, <2>2
<1>9. WaiterOfBox'
  <2>1. \A u \in Threads : pc'[u] = "blocked" <=> pc[u] = "blocked"
    BY <1>1, <1>4
  <2>2. QED
    BY <1>1, <2>1 DEF IInv, WaiterOfBox
<1>10. FramesOwned'
  <2>1. ASSUME NEW u \in Threads, NEW b \in Boxes, mailbox'[b] = u
        PROVE  pc'[u] = pc[u] /\ mailbox[b] = u
    BY <1>3, <1>4, <2>1 DEF IInv, Frames, FramesOwned, Waiting
  <2>2. QED
    BY <1>1, <2>1 DEF IInv, Frames, FramesOwned
<1>11. BoxAtRest'
  <2>1. {"taken", "fresh"} \cup Waiting \subseteq Using
    BY DEF Waiting, Using
  <2>2. \A u \in Threads : box[u] \in Boxes
    BY DEF IInv, Types
  <2>3. QED
    BY <1>1, <1>3, <1>5, <2>1, <2>2 DEF IInv, Frames, BoxAtRest
<1>12. OkMeansSent'
  <2>1. \A u \in Threads : pc'[u] = "good" => u # t /\ pc[u] = "good"
    BY <1>4
  <2>2. \A u \in Threads : InMailbox(u)' => InMailbox(u)
    BY <1>3 DEF InMailbox
  <2>3. QED
    BY <1>1, <2>1, <2>2 DEF IInv, Frames, OkMeansSent
<1>13. QED
  BY <1>4, <1>6, <1>7, <1>8, <1>9, <1>10, <1>11, <1>12 DEF IInv, Sharing, Frames

-----------------------------------------------------------------------------
(* The controller and its interrupts. *)

\* The oldest request is transmitted.
LEMMA TransmitKeeps == ASSUME IInv, Transmit PROVE IInv'
<1> DEFINE b == Head(order)
<1>1. /\ order # <<>> /\ mailbox' = [mailbox EXCEPT ![b] = Empty]
      /\ rqcp' = rqcp \cup {b} /\ txok' = txok \cup {b} /\ order' = Tail(order) /\ ackerr' = FALSE
      /\ UNCHANGED <<pc, box, tainted, sem, semq, freelist, result, comp>>
  BY DEF Transmit
<1>2. order \in Seq(Boxes) /\ IsInjective(order)
  BY DEF IInv, Requests
<1>3. /\ b \in Boxes /\ b \in ToSet(order) /\ order' \in Seq(Boxes) /\ IsInjective(order')
      /\ ToSet(order') = ToSet(order) \ {b}
  BY <1>1, <1>2, TailOfQueue
<1> HIDE DEF b
<1>4. mailbox[b] # Empty
  BY <1>3 DEF IInv, Requests
<1>5. /\ mailbox' \in [Boxes -> Threads \cup {Empty, Old}] /\ mailbox'[b] = Empty
      /\ \A c \in Boxes : c # b => mailbox'[c] = mailbox[c]
  BY <1>1, <1>3 DEF IInv, Types
<1>6. Types'
  BY <1>1, <1>3, <1>5 DEF IInv, Types
<1>7. Requests'
  BY <1>3, <1>5 DEF IInv, Requests
<1>8. Sharing' /\ WaiterOfBox'
  BY <1>1 DEF IInv, Sharing, Tokens, Queued, BoxesCounted, BoxOfOne, WaiterOfBox, Count
<1>9. ErrorOfFrame'
  BY <1>1, <1>5 DEF IInv, ErrorOfFrame
<1>10. \A u \in Threads, c \in Boxes : mailbox'[c] = u => mailbox[c] = u /\ c # b
  BY <1>5, ThreadsAssumption
<1>11. FramesOwned' /\ OkMeansSent'
  BY <1>1, <1>10 DEF IInv, Frames, FramesOwned, OkMeansSent, InMailbox
<1>12. BoxAtRest'
  <2>1. \A u \in Threads : box[u] \in Boxes
    BY DEF IInv, Types
  <2>2. \A u \in Threads \ tainted : pc[u] \in {"taken", "fresh"} => box[u] # b
    BY <1>4 DEF IInv, Frames, BoxAtRest
  <2>3. QED
    BY <1>1, <1>5, <1>10, <2>1, <2>2 DEF IInv, Frames, BoxAtRest
<1>13. QED
  BY <1>6, <1>7, <1>8, <1>9, <1>11, <1>12 DEF IInv, Frames

\* A frame is not acknowledged.
LEMMA AckErrorKeeps == ASSUME IInv, AckError PROVE IInv'
<1>1. Types' /\ Requests' /\ ErrorOfFrame'
  BY DEF IInv, Types, Requests, ErrorOfFrame, AckError
<1>2. Sharing' /\ WaiterOfBox'
  BY DEF IInv, Sharing, Tokens, Queued, BoxesCounted, BoxOfOne, WaiterOfBox, Count, AckError
<1>3. Frames'
  BY DEF IInv, Frames, FramesOwned, BoxAtRest, OkMeansSent, InMailbox, AckError
<1>4. QED
  BY <1>1, <1>2, <1>3 DEF IInv

\* rt_hw_can_isr wakes the users of the completed boxes and nobody else.
LEMMA CompleteKeeps ==
    ASSUME IInv, NEW S \in SUBSET Boxes, NEW r \in {"ok", "err"}, Complete(S, r),
           UNCHANGED <<box, tainted, sem, semq, freelist, mailbox, order>>
    PROVE  /\ pc' \in [Threads -> Places] /\ result' \in [Boxes -> {"ok", "err", "wait"}]
           /\ comp' \in [Boxes -> Threads \cup {None, Done}]
           /\ \A t \in Threads : pc'[t] = pc[t] \/ (pc[t] = "blocked" /\ pc'[t] = "woken")
           /\ \A b \in Boxes : result'[b] = IF b \in S THEN r ELSE result[b]
           /\ Requests' /\ Sharing' /\ WaiterOfBox' /\ FramesOwned' /\ OkMeansSent'
<1>1. \A t \in Threads : pc'[t] = IF \E b \in S : comp[b] = t THEN "woken" ELSE pc[t]
  BY DEF Complete
<1>2. \A t \in Threads : pc'[t] # pc[t] => pc[t] = "blocked" /\ pc'[t] = "woken"
  BY <1>1 DEF IInv, WaiterOfBox
<1>3. pc' \in [Threads -> Places]
  BY DEF IInv, Types, Complete, Places, Using
<1>4. /\ result' \in [Boxes -> {"ok", "err", "wait"}]
      /\ comp' \in [Boxes -> Threads \cup {None, Done}]
      /\ \A b \in Boxes : result'[b] = IF b \in S THEN r ELSE result[b]
      /\ \A b \in Boxes : comp'[b] = IF b \in S THEN Done ELSE comp[b]
  BY DEF IInv, Types, Complete
<1>5. Requests'
  BY DEF IInv, Requests
<1>6. \A t \in Threads : /\ pc'[t] \in Using <=> pc[t] \in Using
                         /\ pc'[t] \in Busy <=> pc[t] \in Busy
                         /\ pc'[t] = "semwait" <=> pc[t] = "semwait"
                         /\ pc'[t] = "good" <=> pc[t] = "good"
                         /\ pc'[t] \in Waiting <=> pc[t] \in Waiting
                         /\ pc'[t] = "dropped" <=> pc[t] = "dropped"
  <2>1. {"blocked", "woken"} \subseteq Using /\ {"blocked", "woken"} \subseteq Busy
        /\ {"blocked", "woken"} \subseteq Waiting
    BY DEF Using, Busy, Waiting
  <2>2. QED
    BY <1>2, <2>1
<1>7. Sharing'
  <2>1. /\ {u \in Threads : pc'[u] \in Busy} = {u \in Threads : pc[u] \in Busy}
        /\ {u \in Threads : pc'[u] \in Using} = {u \in Threads : pc[u] \in Using}
    BY <1>6
  <2>2. Tokens' /\ BoxesCounted'
    BY <2>1 DEF IInv, Sharing, Tokens, BoxesCounted, Count
  <2>3. Queued' /\ BoxOfOne'
    BY <1>6 DEF IInv, Sharing, Queued, BoxOfOne
  <2>4. QED
    BY <2>2, <2>3 DEF Sharing
<1>8. WaiterOfBox'
  <2>1. Done \notin Threads
    BY ThreadsAssumption
  <2>2. ASSUME NEW b \in Boxes, comp'[b] \in Threads
        PROVE  pc'[comp'[b]] = "blocked" /\ box'[comp'[b]] = b
    <3>1. b \notin S /\ comp'[b] = comp[b] /\ pc[comp[b]] = "blocked" /\ box[comp[b]] = b
      BY <1>4, <2>1, <2>2 DEF IInv, WaiterOfBox
    <3>2. ~\E c \in S : comp[c] = comp[b]
      BY <2>2, <3>1 DEF IInv, WaiterOfBox
    <3>3. QED
      BY <1>1, <2>2, <3>1, <3>2
  <2>3. ASSUME NEW t \in Threads, pc'[t] = "blocked" PROVE comp'[box'[t]] = t
    <3>1. pc[t] = "blocked" /\ box[t] \in Boxes /\ comp[box[t]] = t
      BY <1>2, <2>3 DEF IInv, Types, WaiterOfBox
    <3>2. box[t] \notin S
      BY <1>1, <2>3, <3>1
    <3>3. QED
      BY <1>4, <3>1, <3>2
  <2>4. QED
    BY <2>2, <2>3 DEF WaiterOfBox
<1>9. FramesOwned' /\ OkMeansSent'
  BY <1>6 DEF IInv, Frames, FramesOwned, OkMeansSent, InMailbox
<1>10. QED
  BY <1>2, <1>3, <1>4, <1>5, <1>7, <1>8, <1>9

\* CAN_TX_IRQHandler reports boxes whose frame has left.
LEMMA TxIsrKeeps == ASSUME IInv, TxIsr PROVE IInv'
<1>1. /\ rqcp \in SUBSET Boxes /\ Complete(rqcp, "ok") /\ rqcp' = {} /\ txok' = txok \ rqcp
      /\ UNCHANGED <<box, tainted, sem, semq, freelist, mailbox, order, ackerr>>
  BY DEF IInv, Types, TxIsr, TxIsrBy
<1>2. /\ pc' \in [Threads -> Places] /\ result' \in [Boxes -> {"ok", "err", "wait"}]
      /\ comp' \in [Boxes -> Threads \cup {None, Done}]
      /\ \A t \in Threads : pc'[t] = pc[t] \/ (pc[t] = "blocked" /\ pc'[t] = "woken")
      /\ \A b \in Boxes : result'[b] = IF b \in rqcp THEN "ok" ELSE result[b]
      /\ Requests' /\ Sharing' /\ WaiterOfBox' /\ FramesOwned' /\ OkMeansSent'
  BY <1>1, CompleteKeeps
<1>3. Types' /\ ErrorOfFrame'
  BY <1>1, <1>2 DEF IInv, Types, ErrorOfFrame
<1>4. BoxAtRest'
  <2>1. \A u \in Threads : /\ box[u] \in Boxes
                           /\ pc'[u] \in Waiting => pc[u] \in Waiting
                           /\ pc'[u] \in {"taken", "fresh"} => pc[u] \in {"taken", "fresh"}
    BY <1>2 DEF IInv, Types, Waiting
  <2>2. QED
    BY <1>1, <1>2, <2>1 DEF IInv, Frames, BoxAtRest
<1>5. QED
  BY <1>2, <1>3, <1>4 DEF IInv, Frames

\* The first mailbox without TXOK is one of the boxes: the one of the frame
\* that was not acknowledged, or one before it.
LEMMA FailBoxInRange == ASSUME IInv PROVE FailIndexInRange
<1> SUFFICES ASSUME ackerr PROVE FailBox # {} /\ FailBox \subseteq Boxes
  BY DEF FailIndexInRange
<1>1. order # <<>> /\ order \in Seq(Boxes) /\ IsInjective(order)
  BY DEF IInv, ErrorOfFrame, Requests
<1>2. PICK b \in Boxes : b \in ToSet(order)
  BY <1>1, TailOfQueue
<1>3. b \notin txok
  BY <1>2 DEF IInv, Requests, ErrorOfFrame
<1> DEFINE S == MailboxNos \ txok
<1>4. b \in S /\ S \in SUBSET Nat
  BY <1>3, BoxesAssumption DEF Boxes, MailboxNos
<1>5. PICK m \in S : \A c \in S : m <= c
  BY <1>4, LeastOfNats
<1>6. m \in FailBox
  BY <1>5 DEF FailBox, FirstOf
<1>7. ASSUME NEW c \in FailBox PROVE c \in Boxes
  <2>1. c \in MailboxNos /\ c <= b
    BY <1>4 DEF FailBox, FirstOf
  <2>2. QED
    BY <2>1, BoxesAssumption DEF Boxes, MailboxNos
<1>8. QED
  BY <1>6, <1>7

\* CAN_SCE_IRQHandler never reports a success.
LEMMA SceIsrKeeps == ASSUME IInv, SceIsr PROVE IInv'
<1>1. /\ Complete(FailBox, "err") /\ ackerr /\ ackerr' = FALSE
      /\ UNCHANGED <<box, tainted, sem, semq, freelist, mailbox, order, rqcp, txok>>
  BY DEF SceIsr
<1>2. FailBox \in SUBSET Boxes
  BY <1>1, FailBoxInRange DEF FailIndexInRange
<1>3. /\ pc' \in [Threads -> Places] /\ result' \in [Boxes -> {"ok", "err", "wait"}]
      /\ comp' \in [Boxes -> Threads \cup {None, Done}]
      /\ \A t \in Threads : pc'[t] = pc[t] \/ (pc[t] = "blocked" /\ pc'[t] = "woken")
      /\ \A b \in Boxes : result'[b] = IF b \in FailBox THEN "err" ELSE result[b]
      /\ Requests' /\ Sharing' /\ WaiterOfBox' /\ FramesOwned' /\ OkMeansSent'
  BY <1>1, <1>2, CompleteKeeps
<1>4. Types' /\ ErrorOfFrame'
  BY <1>1, <1>3 DEF IInv, Types, ErrorOfFrame
<1>5. BoxAtRest'
  <2>1. \A u \in Threads : /\ box[u] \in Boxes
                           /\ pc'[u] \in Waiting => pc[u] \in Waiting
                           /\ pc'[u] \in {"taken", "fresh"} => pc[u] \in {"taken", "fresh"}
    BY <1>3 DEF IInv, Types, Waiting
  <2>2. QED
    BY <1>1, <1>3, <2>1 DEF IInv, Frames, BoxAtRest
<1>6. QED
  BY <1>3, <1>4, <1>5 DEF IInv, Frames

-----------------------------------------------------------------------------
(* The theorems. *)

\* Every step preserves the invariant.
LEMMA NextInv == IInv /\ [Next]_vars => IInv'
<1> SUFFICES ASSUME IInv, [Next]_vars PROVE IInv'
  OBVIOUS
<1>1. CASE UNCHANGED vars
  <2>1. Types' /\ Requests' /\ ErrorOfFrame'
    BY <1>1 DEF IInv, Types, Requests, ErrorOfFrame, vars
  <2>2. Sharing' /\ WaiterOfBox'
    BY <1>1 DEF IInv, Sharing, Tokens, Queued, BoxesCounted, BoxOfOne, WaiterOfBox, Count, vars
  <2>3. Frames'
    BY <1>1 DEF IInv, Frames, FramesOwned, BoxAtRest, OkMeansSent, InMailbox, vars
  <2>4. QED
    BY <2>1, <2>2, <2>3 DEF IInv
<1>2. ASSUME NEW t \in Threads, Write(t) \/ Step(t) PROVE IInv'
  BY <1>2, WriteKeeps, TakeBoxKeeps, CompletionKeeps, SendMsgKeeps, SendRefusedKeeps,
      GiveBackKeeps, SemReleaseKeeps DEF Step
<1>3. QED
  BY <1>1, <1>2, TransmitKeeps, AckErrorKeeps, TxIsrKeeps, SceIsrKeeps DEF Next

\* The invariant holds in every reachable state.
LEMMA Invariant == Spec => []IInv
BY InitInv, NextInv, PTL DEF Spec

\* The state keeps its types, the mailboxes that are not empty are the requests
\* in order, and the semaphore's value and the threads with a token add up to
\* the number of boxes.
THEOREM TypeCorrect == Spec => []TypeOK
<1>1. IInv => TypeOK
  BY PartsOfInv
<1>2. QED
  BY <1>1, Invariant, PTL

\* No box of _can_int_tx is used twice, and rt_sem_take lets a thread through
\* only when the free list has a box for it.
THEOREM NoBoxShared == Spec => []BoxesNotShared
<1>1. IInv => BoxesNotShared
  BY PartsOfInv
<1>2. QED
  BY <1>1, Invariant, PTL

\* A write that reports success has sent its frame, if its box was at rest when
\* it took it.
THEOREM SuccessIsSent == Spec => []OkMeansSent
<1>1. IInv => OkMeansSent
  BY DEF IInv, Frames
<1>2. QED
  BY <1>1, Invariant, PTL

\* The number the error interrupt passes to rt_hw_can_isr is that of a box.
THEOREM FailIndexSafe == Spec => []FailIndexInRange
<1>1. IInv => FailIndexInRange
  BY FailBoxInRange
<1>2. QED
  BY <1>1, Invariant, PTL
=============================================================================
