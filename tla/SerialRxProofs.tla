--------------------------- MODULE SerialRxProofs ---------------------------
(***************************************************************************)
(* The receive ring is correct for every buffer size of at least two and   *)
(* every number of bytes.  TypeOK /\ Content is inductive; the refinement  *)
(* follows from it step by step.                                           *)
(***************************************************************************)
EXTENDS SerialRx, TLAPS

IInv == TypeOK /\ Content

\* A ring index stays a ring index.
LEMMA AdvanceInSlots ==
    ASSUME NEW i \in Slots PROVE Advance(i) \in Slots
BY BufSzAssumption DEF Advance, Slots

\* A ring that is not empty by the reader's test holds a byte, and a ring
\* that is empty by that test holds none: is_full never disagrees with the
\* indices (dev_serial.c:334 against dev_serial.c:1464-1467).
LEMMA NoDataIsEmpty ==
    ASSUME IInv PROVE NoData(fifo) <=> Length(fifo) = 0
BY BufSzAssumption DEF IInv, TypeOK, Content, FifoType, NoData, Length, Slots

\* The length is one of 0..BufSz-1.
LEMMA LengthBounds ==
    ASSUME fifo \in FifoType PROVE Length(fifo) \in 0..(BufSz - 1)
BY BufSzAssumption DEF FifoType, Length, Slots

\* The fields of a ring.
LEMMA Fields ==
    ASSUME NEW f \in FifoType
    PROVE  /\ f.put \in Slots /\ f.get \in Slots
           /\ f.buffer \in [Slots -> Nat] /\ f.isFull \in BOOLEAN
BY DEF FifoType

\* What a push does to the type and the length of the ring.
LEMMA PushLength ==
    ASSUME fifo \in FifoType, NEW b \in Nat
    PROVE  /\ Push(fifo, b) \in FifoType
           /\ Length(Push(fifo, b)) =
                IF Length(fifo) = BufSz - 1 THEN BufSz - 1 ELSE Length(fifo) + 1
<1>1. Push(fifo, b) \in FifoType
  BY Fields, AdvanceInSlots DEF FifoType, Push
<1> DEFINE p == fifo.put
           g == fifo.get
           q == Push(fifo, b)
<1>2. p \in Slots /\ g \in Slots
  BY Fields
<1>3. q.put = Advance(p) /\ q.get = IF Advance(p) = g THEN Advance(g) ELSE g
  BY DEF Push
<1>4. Length(fifo) = IF p >= g THEN p - g ELSE BufSz - (g - p)
  BY DEF Length
<1>5. Length(q) = IF q.put >= q.get THEN q.put - q.get ELSE BufSz - (q.get - q.put)
  BY DEF Length
<1> HIDE DEF p, g, q
<1>6. Length(q) = IF Length(fifo) = BufSz - 1 THEN BufSz - 1 ELSE Length(fifo) + 1
  BY <1>2, <1>3, <1>4, <1>5, BufSzAssumption DEF Advance, Slots
<1>7. QED
  BY <1>1, <1>6 DEF q

\* What a pop does to the type and the length of a ring that is not empty.
LEMMA PopLength ==
    ASSUME fifo \in FifoType, Length(fifo) > 0
    PROVE  Pop(fifo) \in FifoType /\ Length(Pop(fifo)) = Length(fifo) - 1
<1>1. Pop(fifo) \in FifoType
  BY Fields, AdvanceInSlots DEF FifoType, Pop
<1> DEFINE p == fifo.put
           g == fifo.get
           q == Pop(fifo)
<1>2. p \in Slots /\ g \in Slots
  BY Fields
<1>3. q.put = p /\ q.get = Advance(g)
  BY DEF Pop
<1>4. Length(fifo) = IF p >= g THEN p - g ELSE BufSz - (g - p)
  BY DEF Length
<1>5. Length(q) = IF q.put >= q.get THEN q.put - q.get ELSE BufSz - (q.get - q.put)
  BY DEF Length
<1> HIDE DEF p, g, q
<1>6. Length(q) = Length(fifo) - 1
  BY <1>2, <1>3, <1>4, <1>5, BufSzAssumption DEF Advance, Slots
<1>7. QED
  BY <1>1, <1>6 DEF q

\* Ring arithmetic on the indices alone: p the put index, g the get index.
Len(p, g) == IF p >= g THEN p - g ELSE BufSz - (g - p)
At(g, k) == IF g + k < BufSz THEN g + k ELSE g + k - BufSz

\* The put index, seen from the get index, is the length of the ring.
LEMMA RingArith ==
    ASSUME NEW p \in Slots, NEW g \in Slots
    PROVE  /\ Len(p, g) \in 0..(BufSz - 1)
           /\ Advance(p) = g <=> Len(p, g) = BufSz - 1
           /\ Len(p, g) < BufSz - 1 => At(g, Len(p, g)) = p
           /\ Len(p, g) = BufSz - 1 => At(Advance(g), BufSz - 2) = p
           /\ At(g, 0) = g
BY BufSzAssumption DEF Slots, Advance, Len, At

\* The k-th queued byte is not in the slot the next push writes.
LEMMA RingApart ==
    ASSUME NEW p \in Slots, NEW g \in Slots, NEW k \in 0..(Len(p, g) - 1)
    PROVE  At(g, k) \in Slots /\ At(g, k) # p
BY BufSzAssumption DEF Slots, Len, At

\* Moving the get index shifts the positions by one.
LEMMA RingShift ==
    ASSUME NEW g \in Slots, NEW k \in 0..(BufSz - 2)
    PROVE  At(Advance(g), k) = At(g, k + 1)
BY BufSzAssumption DEF Slots, Advance, At

\* The invariant in terms of the indices.
ContentOf(f, n) ==
    /\ Len(f.put, f.get) <= n
    /\ \A k \in 0..(Len(f.put, f.get) - 1) :
            f.buffer[At(f.get, k)] = n - Len(f.put, f.get) + k
    /\ f.isFull => Len(f.put, f.get) = BufSz - 1

\* Content, in the next state too, is ContentOf the ring and the bytes received.
LEMMA ContentIs ==
    /\ Content <=> ContentOf(fifo, next)
    /\ Content' <=> ContentOf(fifo', next')
    /\ Length(fifo) = Len(fifo.put, fifo.get)
    /\ Length(fifo)' = Len(fifo'.put, fifo'.get)
BY DEF Content, ContentOf, Length, Len, Pos, At

\* A push keeps the content an interval that ends with the byte pushed.
LEMMA PushContent ==
    ASSUME NEW f \in FifoType, NEW n \in Nat, ContentOf(f, n)
    PROVE  ContentOf(Push(f, n), n + 1)
<1> DEFINE p == f.put
           g == f.get
           L == Len(p, g)
           q == Push(f, n)
           M == Len(q.put, q.get)
<1>1. p \in Slots /\ g \in Slots /\ f.buffer \in [Slots -> Nat] /\ f.isFull \in BOOLEAN
  BY Fields
<1>2. /\ q.put = Advance(p)
      /\ q.get = IF Advance(p) = g THEN Advance(g) ELSE g
      /\ q.buffer = [f.buffer EXCEPT ![p] = n]
      /\ q.isFull = (f.isFull \/ Advance(p) = g)
  BY DEF Push
<1>3. /\ L <= n
      /\ \A k \in 0..(L - 1) : f.buffer[At(g, k)] = n - L + k
      /\ f.isFull => L = BufSz - 1
  BY DEF ContentOf
<1>4. L \in 0..(BufSz - 1) /\ (Advance(p) = g <=> L = BufSz - 1)
  BY <1>1, RingArith
<1>5. M = IF L = BufSz - 1 THEN BufSz - 1 ELSE L + 1
  BY <1>1, <1>2, BufSzAssumption DEF Slots, Advance, Len
<1> HIDE DEF L, M, q, p, g
<1>6. M <= n + 1
  BY <1>3, <1>4, <1>5, BufSzAssumption
<1>7. ASSUME NEW k \in 0..(M - 1)
      PROVE  q.buffer[At(q.get, k)] = (n + 1) - M + k
  <2>1. CASE L = BufSz - 1 /\ k < BufSz - 2
    <3>1. k + 1 \in 0..(L - 1) /\ k \in 0..(BufSz - 2)
      BY <1>5, <2>1, BufSzAssumption
    <3>2. At(q.get, k) = At(g, k + 1)
      BY <1>1, <1>2, <1>4, <2>1, <3>1, RingShift
    <3>3. At(g, k + 1) \in Slots /\ At(g, k + 1) # p
      BY <1>1, <3>1, RingApart DEF L
    <3>4. q.buffer[At(q.get, k)] = f.buffer[At(g, k + 1)]
      BY <1>1, <1>2, <3>2, <3>3
    <3>5. QED
      BY <1>3, <1>5, <2>1, <3>1, <3>4, BufSzAssumption
  <2>2. CASE L < BufSz - 1 /\ k < L
    <3>1. k \in 0..(L - 1)
      BY <2>2, <1>4, BufSzAssumption
    <3>2. q.get = g
      BY <1>2, <1>4, <2>2, BufSzAssumption
    <3>3. At(g, k) \in Slots /\ At(g, k) # p
      BY <1>1, <3>1, RingApart DEF L
    <3>4. q.buffer[At(q.get, k)] = f.buffer[At(g, k)]
      BY <1>1, <1>2, <3>2, <3>3
    <3>5. QED
      BY <1>3, <1>4, <1>5, <2>2, <3>1, <3>4, BufSzAssumption
  <2>3. CASE k = M - 1
    <3>1. At(q.get, k) = p
      <4>1. CASE L = BufSz - 1
        BY <1>1, <1>2, <1>4, <1>5, <2>3, <4>1, RingArith, BufSzAssumption DEF L
      <4>2. CASE L < BufSz - 1
        BY <1>1, <1>2, <1>4, <1>5, <2>3, <4>2, RingArith, BufSzAssumption DEF L
      <4>3. QED
        BY <1>4, <4>1, <4>2, BufSzAssumption
    <3>2. q.buffer[p] = n
      BY <1>1, <1>2
    <3>3. QED
      BY <1>4, <1>5, <2>3, <3>1, <3>2, BufSzAssumption
  <2>4. QED
    BY <1>4, <1>5, <2>1, <2>2, <2>3, BufSzAssumption
<1>8. q.isFull => M = BufSz - 1
  BY <1>1, <1>2, <1>3, <1>4, <1>5
<1>9. ContentOf(q, n + 1)
  <2>1. \A k \in 0..(M - 1) : q.buffer[At(q.get, k)] = (n + 1) - M + k
    BY <1>7
  <2>2. QED
    BY <1>6, <2>1, <1>8, Zenon DEF ContentOf, M
<1>10. QED
  BY <1>9 DEF q

\* A pop of a ring that is not empty takes the first byte of the interval.
LEMMA PopContent ==
    ASSUME NEW f \in FifoType, NEW n \in Nat, ContentOf(f, n), Len(f.put, f.get) > 0
    PROVE  /\ ContentOf(Pop(f), n)
           /\ Front(f) = n - Len(f.put, f.get)
<1> DEFINE p == f.put
           g == f.get
           L == Len(p, g)
           q == Pop(f)
           M == Len(q.put, q.get)
<1>1. p \in Slots /\ g \in Slots
  BY Fields
<1>2. q.put = p /\ q.get = Advance(g) /\ q.buffer = f.buffer /\ q.isFull = FALSE
  BY DEF Pop
<1>3. L <= n /\ L > 0 /\ \A k \in 0..(L - 1) : f.buffer[At(g, k)] = n - L + k
  BY DEF ContentOf
<1>4. L \in 0..(BufSz - 1) /\ At(g, 0) = g
  BY <1>1, RingArith
<1>5. M = L - 1
  BY <1>1, <1>2, <1>3, BufSzAssumption DEF Slots, Advance, Len
<1>6. Front(f) = f.buffer[g]
  BY DEF Front
<1> HIDE DEF L, M, q, p, g
<1>7. ASSUME NEW k \in 0..(M - 1)
      PROVE  q.buffer[At(q.get, k)] = n - M + k
  <2>1. k + 1 \in 0..(L - 1) /\ k \in 0..(BufSz - 2)
    BY <1>4, <1>5, BufSzAssumption
  <2>2. At(q.get, k) = At(g, k + 1)
    BY <1>1, <1>2, <2>1, RingShift
  <2>3. QED
    BY <1>2, <1>3, <1>4, <1>5, <2>1, <2>2, BufSzAssumption
<1>8. Front(f) = n - L
  <2>1. 0 \in 0..(L - 1)
    BY <1>3, <1>4, BufSzAssumption
  <2>2. QED
    BY <1>3, <1>4, <1>6, <2>1, BufSzAssumption
<1>9. M <= n
  BY <1>3, <1>4, <1>5, BufSzAssumption
<1>10. QED
  BY <1>2, <1>7, <1>8, <1>9 DEF ContentOf, M, q, L, p, g

\* The first state satisfies the inductive invariant.
LEMMA InitIInv == Init => IInv
<1> SUFFICES ASSUME Init PROVE IInv
  OBVIOUS
<1>1. fifo \in FifoType
  BY BufSzAssumption DEF Init, EmptyFifo, FifoType, Slots
<1>2. fifo.put = 0 /\ fifo.get = 0 /\ fifo.isFull = FALSE
  BY DEF Init, EmptyFifo
<1>3. ContentOf(fifo, next)
  BY <1>2, BufSzAssumption DEF Init, ContentOf, Len
<1>4. QED
  BY <1>1, <1>3, ContentIs, MaxBytesAssumption DEF Init, IInv, TypeOK

\* A byte received preserves the inductive invariant.
LEMMA ReceiveIInv == ASSUME IInv, Receive PROVE IInv'
<1>1. next \in Nat /\ fifo \in FifoType /\ fifo' = Push(fifo, next) /\ next' = next + 1
  BY MaxBytesAssumption DEF IInv, TypeOK, Receive
<1>2. TypeOK'
  BY <1>1, PushLength, MaxBytesAssumption DEF IInv, TypeOK, Receive
<1>3. ContentOf(Push(fifo, next), next + 1)
  BY <1>1, PushContent, ContentIs DEF IInv
<1>4. QED
  BY <1>1, <1>2, <1>3, ContentIs DEF IInv

\* What a read returns, and that the ring was not empty.
LEMMA ReadStep ==
    ASSUME IInv, Read
    PROVE  /\ next \in Nat /\ fifo \in FifoType /\ fifo' = Pop(fifo) /\ next' = next
           /\ Length(fifo) \in 1..(BufSz - 1)
           /\ Length(fifo)' = Length(fifo) - 1
           /\ out' = next - Length(fifo)
           /\ Length(fifo) <= next
           /\ fifo' \in FifoType
           /\ Content'
<1>1. next \in Nat /\ fifo \in FifoType /\ fifo' = Pop(fifo) /\ next' = next
  BY MaxBytesAssumption DEF IInv, TypeOK, Read
<1>2. Length(fifo) \in 0..(BufSz - 1) /\ Length(fifo) # 0
  BY <1>1, NoDataIsEmpty, LengthBounds DEF Read
<1>3. Length(fifo) > 0 /\ Length(fifo) \in 1..(BufSz - 1)
  BY <1>2, BufSzAssumption
<1>4. Pop(fifo) \in FifoType /\ Length(Pop(fifo)) = Length(fifo) - 1
  BY <1>1, <1>3, PopLength
<1>5. Length(fifo)' = Length(Pop(fifo))
  BY <1>1 DEF Length
<1>6. ContentOf(fifo, next) /\ Length(fifo) = Len(fifo.put, fifo.get)
  BY ContentIs DEF IInv
<1>7. ContentOf(Pop(fifo), next) /\ Front(fifo) = next - Length(fifo)
  BY <1>1, <1>3, <1>6, PopContent
<1>8. Length(fifo) <= next
  BY <1>6 DEF ContentOf
<1>9. QED
  BY <1>1, <1>3, <1>4, <1>5, <1>7, <1>8, ContentIs DEF Read

\* A byte read preserves the inductive invariant.
LEMMA ReadIInv == ASSUME IInv, Read PROVE IInv'
<1>1. out' \in -1..MaxBytes
  BY ReadStep, MaxBytesAssumption, BufSzAssumption DEF IInv, TypeOK
<1>2. QED
  BY <1>1, ReadStep DEF IInv, TypeOK

\* TypeOK /\ Content holds in every reachable state.
THEOREM RingInvariant == Spec => [](TypeOK /\ Content)
<1>1. IInv /\ UNCHANGED vars => IInv'
  BY DEF IInv, TypeOK, Content, Length, Pos, vars
<1>2. IInv /\ [Next]_vars => IInv'
  BY <1>1, ReceiveIInv, ReadIInv DEF Next
<1>3. QED
  BY InitIInv, <1>2, PTL DEF Spec, IInv

\* The indexes of the ring stay below the buffer's size, and every byte slot
\* holds a byte that arrived (dev_serial.c:620-650).
THEOREM TypeCorrect == Spec => []TypeOK
BY RingInvariant, PTL

\* The ring implements the queue that loses its oldest byte: every push is an
\* arrival, every pop the delivery of the oldest byte.
THEOREM RingImplementsQueue == Spec => ImplementsQueue
<1>1. Init => Queue!Init
  BY DEF Init, EmptyFifo, Length, Queue!Init
<1>2. ASSUME IInv, Receive PROVE Queue!Arrive
  <2>1. next \in Nat /\ fifo \in FifoType /\ fifo' = Push(fifo, next)
    BY <1>2, MaxBytesAssumption DEF IInv, TypeOK, Receive
  <2>2. Length(Push(fifo, next)) =
            IF Length(fifo) = BufSz - 1 THEN BufSz - 1 ELSE Length(fifo) + 1
    BY <2>1, PushLength
  <2>3. Length(fifo) \in 0..(BufSz - 1) /\ Length(fifo)' = Length(Push(fifo, next))
    BY <2>1, LengthBounds DEF Length
  <2>4. next' - Length(fifo)' =
            IF next - (next - Length(fifo)) = BufSz - 1
            THEN next - Length(fifo) + 1 ELSE next - Length(fifo)
    BY <1>2, <2>1, <2>2, <2>3, BufSzAssumption DEF Receive
  <2>5. QED
    BY <1>2, <2>4 DEF Receive, Queue!Arrive
<1>3. ASSUME IInv, Read PROVE Queue!Deliver
  <2>1. /\ next - Length(fifo) < next
        /\ next' - Length(fifo)' = next - Length(fifo) + 1
    BY <1>3, ReadStep, BufSzAssumption
  <2>2. QED
    BY <1>3, <2>1, ReadStep DEF Queue!Deliver
<1>4. UNCHANGED vars => UNCHANGED Queue!vars
  BY DEF vars, Queue!vars, Length
<1>5. IInv /\ [Next]_vars => [Queue!Next]_(Queue!vars)
  BY <1>2, <1>3, <1>4 DEF Next, Queue!Next
<1>6. QED
  BY <1>1, <1>5, RingInvariant, PTL DEF Spec, ImplementsQueue, Queue!Spec, IInv
=============================================================================
