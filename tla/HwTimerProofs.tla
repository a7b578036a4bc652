--------------------------- MODULE HwTimerProofs ---------------------------
(***************************************************************************)
(* What HwTimer promises for every width of the counter, every set of      *)
(* frequencies and timeouts, and every arithmetic that splits a timeout    *)
(* into cycles: no timeout comes before its cycles have run, a ONESHOT     *)
(* timeout is the last, and the count of overflows that rt_hwtimer_read    *)
(* uses accounts for every tick.                                           *)
(***************************************************************************)
EXTENDS HwTimer, TLAPS

-----------------------------------------------------------------------------
(* Arithmetic. *)

\* A product grows with its factor.
LEMMA ProductGrows ==
    ASSUME NEW a \in Int, NEW b \in Int, NEW p \in Nat, a <= b
    PROVE  a * p \in Int /\ b * p \in Int /\ a * p <= b * p
<1>1. PICK d \in Nat : b = a + d
  <2>1. b - a \in Nat /\ b = a + (b - a)
    OBVIOUS
  <2>2. QED
    BY <2>1
<1>2. (a + d) * p = a * p + d * p /\ d * p \in Nat /\ a * p \in Int
  BY <1>1
<1>3. QED
  BY <1>1, <1>2

\* One more times p is p more.
LEMMA OneMore ==
    ASSUME NEW a \in Int, NEW p \in Int
    PROVE  a * p \in Int /\ (a + 1) * p = a * p + p
OBVIOUS

\* Products with the numbers that a count starts from.
LEMMA SmallFactors ==
    ASSUME NEW a \in Int, NEW p \in Int
    PROVE  (a = 0 => a * p = 0) /\ (a = 0 - 1 => a * p = 0 - p)
OBVIOUS

-----------------------------------------------------------------------------
(* The inductive invariant. *)

\* The parts of TypeOK about numbers and about the rest.
Numbers ==
    /\ reload \in Nat /\ cycles \in Nat /\ cycles <= reload
    /\ overflow \in Nat /\ overflow <= MaxTicks
    /\ arr \in Nat /\ arr <= MaxCnt /\ cnt \in Nat /\ cnt <= arr
    /\ elapsed \in Nat /\ elapsed <= MaxTicks /\ fired \in Nat /\ fired <= MaxTicks
    /\ extra \in Nat /\ extra <= MaxExtra /\ writes \in Nat /\ writes <= MaxWrites

Flags ==
    /\ opened \in BOOLEAN /\ freq \in Freqs /\ mode \in Modes
    /\ cen \in BOOLEAN /\ single \in BOOLEAN /\ uie \in BOOLEAN /\ uif \in BOOLEAN
    /\ nvic \in BOOLEAN /\ shot \in BOOLEAN /\ restarted \in BOOLEAN /\ lost \in BOOLEAN

\* The device was written to since it was opened, and not closed.
Live == opened /\ uie

\* Otherwise nothing runs, and no interrupt is taken.
Quiet == (cen => Live) /\ (nvic => opened)

\* Cycles done of the timeout under way, and the update not yet served.
Done    == IF reload = 0 THEN 0 ELSE reload - cycles
Pending == IF uif THEN 1 ELSE 0

\* Cycles accounted for that really ran.
Ran == fired * Parts + Done + Pending - extra

\* The handler always finds a cycle to take, and cycles that ran took their
\* time; overflows and count are exact as long as no update is lost.
Counted ==
    Live =>
        /\ reload = 0 \/ cycles > 0
        /\ elapsed < MaxTicks => Ran * (arr + 1) + cnt <= elapsed
        /\ ~restarted /\ ~lost /\ elapsed < MaxTicks /\ overflow < MaxTicks
                => (overflow + Pending - extra) * (arr + 1) + cnt = elapsed

IInv == Numbers /\ Flags /\ Quiet /\ OneShotRests /\ Counted /\ NotEarly

\* While the device is live, NotEarly is a consequence of the count.
LEMMA CountedNotEarly ==
    ASSUME Numbers, Flags, Counted, Live PROVE NotEarly
<1> SUFFICES ASSUME elapsed < MaxTicks
             PROVE  elapsed >= (fired * Parts - extra) * (arr + 1)
  BY DEF NotEarly
<1> DEFINE f == fired * Parts
           p == arr + 1
<1>1. /\ Done \in Nat /\ Pending \in Nat /\ cnt \in Nat /\ elapsed \in Nat
      /\ extra \in Nat /\ p \in Nat /\ Parts \in Nat /\ fired \in Nat
  BY DEF Numbers, Done, Pending, Parts
<1>2. f \in Nat
  BY <1>1
<1>3. (f + Done + Pending - extra) * p + cnt <= elapsed
  BY DEF Counted, Ran
<1> HIDE DEF f, p
<1>4. (f - extra) * p <= (f + Done + Pending - extra) * p
      /\ (f - extra) * p \in Int /\ (f + Done + Pending - extra) * p \in Int
  <2>1. f - extra \in Int /\ f + Done + Pending - extra \in Int
        /\ f - extra <= f + Done + Pending - extra
    BY <1>1, <1>2
  <2>2. QED
    BY <1>1, <2>1, ProductGrows
<1>5. (f - extra) * p <= elapsed
  BY <1>1, <1>3, <1>4
<1>6. QED
  BY <1>5 DEF f, p

\* The same, of any state: also of the one after a step.
LEMMA CountedIsOnTime ==
    Numbers /\ Flags /\ Counted /\ Live => NotEarly
BY CountedNotEarly

-----------------------------------------------------------------------------
(* The steps. *)

\* The device as it is registered.
LEMMA InitInv == ASSUME Init PROVE IInv
<1>1. Numbers
  BY CountAssumption DEF Init, Numbers
<1>2. Flags
  BY CountAssumption DEF Init, Flags, Modes
<1>3. ~Live
  BY DEF Init, Live
<1>4. NotEarly
  <2>1. Parts = 1 /\ fired = 0 /\ extra = 0 /\ elapsed = 0 /\ arr \in Nat
    BY <1>1 DEF Init, Parts, Numbers
  <2>2. QED
    BY <2>1 DEF NotEarly
<1>5. QED
  BY <1>1, <1>2, <1>3, <1>4 DEF Init, IInv, Quiet, Counted, OneShotRests

\* Opening leaves the timer without its interrupt, so no count depends on it.
LEMMA OpenKeeps == ASSUME IInv, Open PROVE IInv'
<1>1. Numbers'
  BY CountAssumption DEF IInv, Open, Numbers
<1>2. Flags'
  BY CountAssumption DEF IInv, Open, Flags, Modes
<1>3. ~Live'
  BY DEF Open, Live
<1>4. NotEarly'
  <2>1. Parts' \in Nat /\ fired' = 0 /\ extra' = 1 /\ elapsed' = 0 /\ arr' \in Nat
    BY <1>1 DEF Open, Parts, Numbers
  <2> DEFINE m == fired' * Parts'
  <2>2. m = 0
    <3>1. fired' \in Int /\ Parts' \in Int
      BY <1>1 DEF Numbers, Parts
    <3>2. fired' = 0 => m = 0
      BY <3>1, SmallFactors
    <3>3. QED
      BY <2>1, <3>2
  <2> HIDE DEF m
  <2> DEFINE k == m - extra'
  <2>3. k * (arr' + 1) = 0 - (arr' + 1)
    <3>1. k = 0 - 1 /\ arr' + 1 \in Int
      BY <2>1, <2>2
    <3> HIDE DEF k
    <3>2. k \in Int
      BY <3>1
    <3>3. k = 0 - 1 => k * (arr' + 1) = 0 - (arr' + 1)
      BY <3>1, <3>2, SmallFactors
    <3>4. QED
      BY <3>1, <3>3
  <2>4. elapsed' >= k * (arr' + 1)
    <3> HIDE DEF k
    <3>1. QED
      BY <2>1, <2>3
  <2>5. QED
    BY <2>4 DEF NotEarly, m
<1>5. QED
  BY <1>1, <1>2, <1>3, <1>4 DEF Open, IInv, Quiet, Counted, OneShotRests

\* Closing stops the counter and shuts the interrupt out.
LEMMA CloseKeeps == ASSUME IInv, Close PROVE IInv'
<1>1. Numbers' /\ Flags'
  BY DEF IInv, Close, Numbers, Flags, Modes, past
<1>2. ~Live'
  BY DEF IInv, Close, Live, past
<1>3. NotEarly'
  BY DEF IInv, Close, NotEarly, Parts, past
<1>4. QED
  BY <1>1, <1>2, <1>3 DEF IInv, Close, Quiet, Counted, OneShotRests, past

\* A write starts every count anew.
LEMMA WriteKeeps == ASSUME IInv, NEW T \in Timeouts, Write(T) PROVE IInv'
<1>1. PICK s \in Splits :
        cycles' = s.cycles /\ reload' = s.cycles
            /\ Start(s.counter, s.cycles <= 1 /\ mode = "oneshot")
  BY DEF Write, WriteBy
<1>2. s.cycles \in Nat /\ s.counter \in Nat
  BY CountAssumption
<1>3. (s.counter - 1) % (MaxCnt + 1) \in 0 .. MaxCnt
  BY <1>2, CountAssumption
<1>4. /\ arr' \in 0 .. MaxCnt /\ cnt' = 0 /\ cen' = TRUE /\ nvic' = TRUE
      /\ single' \in BOOLEAN /\ uie' = TRUE /\ uif' = uif
  BY <1>1, <1>3 DEF Start, StartBy
<1>5. /\ opened /\ overflow' = 0 /\ elapsed' = 0 /\ fired' = 0 /\ extra' = Pending
      /\ shot' = FALSE /\ restarted' = FALSE /\ lost' = FALSE
      /\ writes < MaxWrites /\ writes' = writes + 1
      /\ opened' = opened /\ freq' = freq /\ mode' = mode
  BY DEF Write, WriteBy, Pending
<1>6. Pending \in {0, 1} /\ Pending' = Pending
  BY <1>4 DEF Pending
<1>7. Numbers'
  BY <1>1, <1>2, <1>4, <1>5, <1>6, CountAssumption DEF IInv, Numbers
<1>8. Flags'
  BY <1>4, <1>5 DEF IInv, Flags
<1>9. Live' /\ Quiet' /\ OneShotRests'
  BY <1>4, <1>5 DEF Live, Quiet, OneShotRests
<1>10. Counted'
  <2>1. Done' = 0 /\ Parts' \in Nat /\ (reload' = 0 \/ cycles' > 0)
    BY <1>1, <1>2 DEF Done, Parts
  <2>2. Ran' = 0
    <3> DEFINE m == fired' * Parts'
    <3>1. fired' \in Int /\ Parts' \in Int
      BY <1>7 DEF Numbers, Parts
    <3>2. fired' = 0 => m = 0
      BY <3>1, SmallFactors
    <3>3. Ran' = m + Done' + Pending' - extra'
      BY DEF Ran
    <3> HIDE DEF m
    <3>4. QED
      BY <1>5, <1>6, <2>1, <3>2, <3>3
  <2>3. overflow' + Pending' - extra' = 0
    BY <1>5, <1>6
  <2>4. Ran' * (arr' + 1) + cnt' = 0 /\ (overflow' + Pending' - extra') * (arr' + 1) + cnt' = 0
    <3> DEFINE k == Ran'
               n == overflow' + Pending' - extra'
               p == arr' + 1
    <3>1. p \in Int
      BY <1>4, CountAssumption
    <3>2. k = 0 /\ n = 0 /\ k \in Int /\ n \in Int
      BY <2>2, <2>3
    <3> HIDE DEF k, n, p
    <3>3. (k = 0 => k * p = 0) /\ (n = 0 => n * p = 0)
      BY <3>1, <3>2, SmallFactors
    <3>4. k * p + cnt' = 0 /\ n * p + cnt' = 0
      BY <1>4, <3>2, <3>3
    <3>5. QED
      BY <3>4 DEF k, n, p
  <2>5. QED
    BY <1>5, <2>1, <2>4 DEF Counted
<1>11. NotEarly'
  BY <1>7, <1>8, <1>9, <1>10, CountedIsOnTime, PTL
<1>12. QED
  BY <1>7, <1>8, <1>9, <1>10, <1>11 DEF IInv

\* Stopping the timer and setting its mode disturb no count.
LEMMA ControlKeeps ==
    ASSUME IInv, Stop \/ (\E m \in Modes : SetMode(m)) PROVE IInv'
<1>1. /\ UNCHANGED <<opened, freq, cycles, reload, overflow, cnt, arr, single, uie, uif, past>>
      /\ cen' => cen
      /\ nvic' => nvic
  BY DEF IInv, Flags, Stop, SetMode, device, tim
<1>2. Flags'
  BY DEF IInv, Flags, Stop, SetMode, device, tim, past, Modes
<1>3. Parts' = Parts /\ Done' = Done /\ Pending' = Pending /\ Ran' = Ran
  BY <1>1 DEF Ran, Pending, Done, Parts, past
<1>4. Numbers' /\ Counted' /\ NotEarly'
  BY <1>1, <1>3 DEF IInv, Numbers, Counted, NotEarly, Live, past
<1>5. Quiet' /\ OneShotRests'
  BY <1>1 DEF IInv, Quiet, OneShotRests, Live, past
<1>6. QED
  BY <1>2, <1>4, <1>5 DEF IInv

\* The software update of FREQ_SET restarts the counter; when it sets the flag
\* it is counted as no overflow.
LEMMA FreqSetKeeps == ASSUME IInv, NEW f \in Freqs, FreqSet(f) PROVE IInv'
<1>1. /\ UNCHANGED <<opened, mode, cycles, reload, overflow, cen, arr, single, uie, nvic,
                     elapsed, fired, shot, lost, writes>>
      /\ freq' = f /\ cnt' = 0 /\ uif' = TRUE /\ restarted' = TRUE
      /\ extra' = (IF uif THEN extra ELSE extra + 1) /\ (uif \/ extra < MaxExtra)
  BY DEF FreqSet
<1>2. Numbers'
  BY <1>1, CountAssumption DEF IInv, Numbers
<1>3. Flags'
  BY <1>1 DEF IInv, Flags
<1>4. Quiet' /\ OneShotRests'
  BY <1>1 DEF IInv, Quiet, OneShotRests, Live
<1>5. Parts' = Parts /\ Done' = Done /\ Parts \in Nat /\ Done \in Nat /\ fired \in Nat
  BY <1>1 DEF IInv, Numbers, Parts, Done
<1>6. Pending' - extra' = Pending - extra /\ Pending' = 1 /\ Pending \in Nat
      /\ extra \in Nat /\ extra' \in Nat /\ extra <= extra'
  BY <1>1 DEF IInv, Numbers, Pending
<1>7. fired * Parts \in Nat
  BY <1>5
<1>8. Ran' = Ran /\ Ran \in Int
  BY <1>1, <1>5, <1>6, <1>7 DEF Ran
<1>9. Counted'
  <2>1. SUFFICES ASSUME Live'
                 PROVE  /\ reload' = 0 \/ cycles' > 0
                        /\ elapsed' < MaxTicks => Ran' * (arr' + 1) + cnt' <= elapsed'
    BY <1>1 DEF Counted
  <2>2. Live
    BY <1>1, <2>1 DEF Live
  <2> DEFINE w == Ran * (arr + 1)
  <2>3. w \in Int /\ cnt \in Nat /\ elapsed \in Nat
    BY <1>8 DEF IInv, Numbers
  <2>4. (reload = 0 \/ cycles > 0) /\ (elapsed < MaxTicks => w + cnt <= elapsed)
    BY <2>2 DEF IInv, Counted
  <2>5. Ran' * (arr' + 1) = w
    BY <1>1, <1>8
  <2> HIDE DEF w
  <2>6. QED
    BY <1>1, <2>3, <2>4, <2>5
<1>10. NotEarly'
  <2>1. SUFFICES ASSUME elapsed' < MaxTicks
                 PROVE  elapsed' >= (fired' * Parts' - extra') * (arr' + 1)
    BY DEF NotEarly
  <2> DEFINE a == (fired * Parts - extra) * (arr + 1)
             b == (fired * Parts - extra') * (arr + 1)
  <2>2. b <= a /\ a \in Int /\ b \in Int
    <3>1. fired * Parts - extra' <= fired * Parts - extra
          /\ fired * Parts - extra' \in Int /\ fired * Parts - extra \in Int
      BY <1>6, <1>7
    <3>2. arr + 1 \in Nat
      BY DEF IInv, Numbers
    <3>3. QED
      BY <3>1, <3>2, ProductGrows
  <2>3. elapsed >= a /\ elapsed \in Nat
    BY <1>1, <2>1 DEF IInv, NotEarly, Numbers
  <2>4. (fired' * Parts' - extra') * (arr' + 1) = b
    BY <1>1, <1>5
  <2> HIDE DEF a, b
  <2>5. QED
    BY <1>1, <2>2, <2>3, <2>4
<1>11. QED
  BY <1>2, <1>3, <1>4, <1>9, <1>10 DEF IInv

\* A tick of the counter.
LEMMA TickKeeps == ASSUME IInv, Tick PROVE IInv'
<1>1. /\ cen /\ Live /\ ~shot
      /\ elapsed \in Nat /\ elapsed' \in Nat /\ elapsed' <= MaxTicks
      /\ elapsed' < MaxTicks => elapsed < MaxTicks /\ elapsed' = elapsed + 1
      /\ UNCHANGED <<device, arr, single, uie, nvic, fired, shot, extra, restarted, writes>>
  BY CountAssumption DEF IInv, Numbers, Quiet, OneShotRests, Tick, Inc
<1>2. /\ arr \in Nat /\ cnt \in Nat /\ cnt <= arr /\ cnt' \in Nat /\ cnt' <= arr
      /\ (cnt < arr /\ cnt' = cnt + 1 /\ uif' = uif /\ lost' = lost)
         \/ (cnt = arr /\ cnt' = 0 /\ uif' = TRUE /\ lost' = (lost \/ uif))
  <2>1. arr \in Nat /\ cnt \in Nat /\ cnt <= arr
    BY DEF IInv, Numbers
  <2>2. CASE cnt < arr
    <3>1. cnt' = cnt + 1 /\ uif' = uif /\ lost' = lost
      BY <2>2 DEF Tick
    <3>2. QED
      BY <2>1, <2>2, <3>1
  <2>3. CASE ~(cnt < arr)
    <3>1. cnt' = 0 /\ uif' = TRUE /\ lost' = (lost \/ uif)
      BY <2>3, Zenon DEF Tick
    <3>2. cnt = arr
      BY <2>1, <2>3
    <3>3. QED
      BY <2>1, <3>1, <3>2
  <2>4. QED
    BY <2>2, <2>3
<1>3. Numbers'
  BY <1>1, <1>2 DEF IInv, Numbers, device
<1>4. Flags'
  BY DEF IInv, Flags, Tick, Modes, device
<1>5. Quiet' /\ OneShotRests' /\ Live'
  BY <1>1 DEF IInv, Quiet, OneShotRests, Live, device
<1>6. Counted'
  <2>1. /\ overflow' = overflow /\ arr' = arr /\ extra' = extra /\ Parts' = Parts
        /\ Done' = Done /\ fired' = fired /\ reload' = reload /\ cycles' = cycles
        /\ restarted' = restarted
    BY <1>1 DEF device, Parts, Done
  <2>2. /\ overflow \in Nat /\ extra \in Nat /\ Done \in Nat /\ Parts \in Nat /\ fired \in Nat
        /\ Pending \in {0, 1} /\ uif \in BOOLEAN
    BY DEF IInv, Numbers, Flags, Done, Parts, Pending
  <2> DEFINE p == arr + 1
             k == fired * Parts + Done - extra
             n == overflow - extra
  <2>3. p \in Nat /\ k \in Int /\ n \in Int
    <3>1. fired * Parts \in Nat
      BY <2>2
    <3>2. QED
      BY <1>2, <2>2, <3>1
  <2>4. Ran = k + Pending /\ overflow + Pending - extra = n + Pending
    <3>1. fired * Parts \in Nat
      BY <2>2
    <3>2. QED
      BY <2>2, <3>1 DEF Ran
  <2>5. Pending' \in {0, 1}
    BY DEF Pending
  <2>6. Ran' = k + Pending' /\ overflow' + Pending' - extra' = n + Pending'
    <3>1. fired * Parts \in Nat
      BY <2>2
    <3>2. QED
      BY <2>1, <2>2, <2>5, <3>1 DEF Ran
  <2>7. /\ reload = 0 \/ cycles > 0
        /\ elapsed < MaxTicks => (k + Pending) * p + cnt <= elapsed
        /\ ~restarted /\ ~lost /\ elapsed < MaxTicks /\ overflow < MaxTicks
                => (n + Pending) * p + cnt = elapsed
    BY <1>1, <2>4 DEF IInv, Counted
  <2>8. SUFFICES
          /\ elapsed' < MaxTicks => (k + Pending') * p + cnt' <= elapsed'
          /\ ~restarted /\ ~lost' /\ elapsed' < MaxTicks /\ overflow < MaxTicks
                => (n + Pending') * p + cnt' = elapsed'
    BY <2>1, <2>6, <2>7 DEF Counted
  <2>9. p = arr + 1
    OBVIOUS
  <2> HIDE DEF p, k, n
  <2>10. k * p \in Int /\ (k + 1) * p = k * p + p /\ n * p \in Int /\ (n + 1) * p = n * p + p
    BY <2>3, OneMore
  <2>11. k + 0 = k /\ n + 0 = n
    BY <2>3
  <2>12. CASE cnt < arr /\ cnt' = cnt + 1 /\ uif' = uif /\ lost' = lost
    <3>1. Pending' = Pending
      BY <2>12 DEF Pending
    <3>2. (k + Pending) * p \in Int /\ (n + Pending) * p \in Int
      BY <2>2, <2>3
    <3>3. QED
      BY <1>1, <1>2, <2>7, <2>12, <3>1, <3>2
  <2>13. CASE cnt = arr /\ cnt' = 0 /\ uif' = TRUE /\ lost' = (lost \/ uif)
    <3>1. Pending' = 1 /\ (Pending = 1 <=> uif) /\ (~lost' => ~lost /\ ~uif)
      <4>1. Pending' = 1 /\ (Pending = 1 <=> uif)
        BY <2>13 DEF Pending
      <4>2. ~lost' => ~lost /\ ~uif
        BY <2>13, Zenon
      <4>3. QED
        BY <4>1, <4>2
    <3>2. CASE uif
      <4>1. Pending = 1
        BY <3>1, <3>2
      <4>2. elapsed' < MaxTicks => (k + 1) * p + 0 <= elapsed'
        BY <1>1, <1>2, <2>3, <2>7, <2>10, <4>1
      <4>3. QED
        BY <2>13, <3>1, <3>2, <4>2
    <3>3. CASE ~uif
      <4>1. Pending = 0
        BY <2>2, <3>1, <3>3
      <4>2. (k + Pending) * p = k * p /\ (n + Pending) * p = n * p
        BY <2>11, <4>1
      <4>3. QED
        BY <1>1, <1>2, <2>3, <2>7, <2>9, <2>10, <2>13, <3>1, <4>2
    <3>4. QED
      BY <2>2, <3>2, <3>3
  <2>14. QED
    BY <1>2, <2>12, <2>13
<1>7. NotEarly'
  BY <1>3, <1>4, <1>5, <1>6, CountedIsOnTime, PTL
<1>8. QED
  BY <1>3, <1>4, <1>5, <1>6, <1>7 DEF IInv

\* The handler moves the pending update to the overflows and takes one of the
\* cycles left; with the last it indicates the timeout.
LEMMA IsrKeeps == ASSUME IInv, Isr PROVE IInv'
<1>1. /\ uif /\ uie /\ nvic /\ opened /\ Live /\ ~shot
      /\ UNCHANGED <<opened, freq, mode, reload, cnt, arr, single, uie, elapsed,
                     extra, restarted, lost, writes>>
      /\ overflow' = Inc(overflow) /\ ~uif' /\ Live'
  BY DEF IInv, Isr, IsrBy, Quiet, Live, OneShotRests
<1>2. /\ cycles \in Nat /\ reload \in Nat /\ cycles <= reload
      /\ overflow \in Nat /\ overflow <= MaxTicks /\ fired \in Nat /\ fired <= MaxTicks
      /\ elapsed \in Nat /\ arr \in Nat /\ cnt \in Nat /\ extra \in Nat /\ MaxTicks \in Nat
      /\ cycles = 0 <=> reload = 0
  BY <1>1, CountAssumption DEF IInv, Numbers, Counted
<1>3. \/ cycles <= 1 /\ cycles' = reload /\ fired' = Inc(fired)
      \/ cycles > 1 /\ cycles' = cycles - 1 /\ fired' = fired
  <2>1. CASE cycles <= 1
    <3>1. LeftAfter = 0
      BY <1>2, <2>1 DEF LeftAfter
    <3>2. QED
      BY <2>1, <3>1 DEF Isr, IsrBy
  <2>2. CASE cycles > 1
    <3>1. LeftAfter = cycles - 1 /\ LeftAfter # 0
      BY <1>2, <2>2 DEF LeftAfter
    <3>2. QED
      BY <2>2, <3>1 DEF Isr, IsrBy
  <2>3. QED
    BY <1>2, <2>1, <2>2
<1>4. Numbers'
  BY <1>1, <1>2, <1>3 DEF IInv, Numbers, Inc
<1>5. Flags' /\ Quiet' /\ OneShotRests'
  <2>1. cen' \in BOOLEAN /\ nvic' \in BOOLEAN /\ shot' \in BOOLEAN /\ uif' \in BOOLEAN
    BY Zenon DEF IInv, Flags, Isr, IsrBy
  <2>2. cen' => cen
    BY Zenon DEF Isr, IsrBy
  <2>3. shot' => ~cen' /\ ~nvic'
    BY <1>1, Zenon DEF Isr, IsrBy
  <2>4. QED
    BY <1>1, <2>1, <2>2, <2>3 DEF IInv, Flags, Quiet, Live, OneShotRests
<1>6. Counted'
  <2>1. Pending = 1 /\ Pending' = 0
    BY <1>1 DEF Pending
  <2> DEFINE p == arr + 1
             m == fired * Parts
             k == m + Done + 1 - extra
             n == overflow + 1 - extra
  <2>2. Parts \in Nat /\ Parts' = Parts /\ Done \in Nat /\ m \in Nat
    <3>1. Parts \in Nat /\ Parts' = Parts /\ Done \in Nat
      BY <1>1, <1>2 DEF Parts, Done
    <3>2. QED
      BY <1>2, <3>1
  <2>3. p \in Nat /\ k \in Int /\ n \in Int
    BY <1>2, <2>2
  <2>4. /\ elapsed < MaxTicks => k * p + cnt <= elapsed
        /\ ~restarted /\ ~lost /\ elapsed < MaxTicks /\ overflow < MaxTicks
                => n * p + cnt = elapsed
    BY <1>1, <2>1 DEF IInv, Counted, Ran
  <2>5. Ran' \in Int /\ Ran' <= k
    <3>1. CASE cycles <= 1 /\ cycles' = reload /\ fired' = Inc(fired)
      <4>1. Done' = 0 /\ Done + 1 = Parts
        BY <1>1, <1>2, <3>1 DEF Done, Parts
      <4>2. (fired + 1) * Parts = m + Parts
        BY <1>2, <2>2
      <4>3. fired' * Parts' = m \/ fired' * Parts' = m + Parts
        BY <1>2, <2>2, <3>1, <4>2 DEF Inc
      <4>4. Ran' = fired' * Parts' - extra
        <5>1. fired' * Parts' \in Int
          BY <2>2, <4>3
        <5>2. QED
          BY <1>1, <1>2, <2>1, <4>1, <5>1 DEF Ran
      <4> HIDE DEF m
      <4>5. QED
        BY <1>2, <2>2, <4>1, <4>3, <4>4
    <3>2. CASE cycles > 1 /\ cycles' = cycles - 1 /\ fired' = fired
      <4>1. Done' = Done + 1
        BY <1>1, <1>2, <3>2 DEF Done
      <4>2. fired' * Parts' = m
        BY <2>2, <3>2
      <4> HIDE DEF m
      <4>3. Ran' = m + (Done + 1) + 0 - extra
        BY <1>1, <2>1, <4>1, <4>2 DEF Ran
      <4>4. QED
        BY <1>2, <2>2, <4>3
    <3>3. QED
      BY <1>3, <3>1, <3>2
  <2>6. overflow' < MaxTicks => overflow < MaxTicks /\ overflow' + Pending' - extra' = n
    BY <1>1, <1>2, <2>1 DEF Inc
  <2>7. reload' = 0 \/ cycles' > 0
    BY <1>1, <1>2, <1>3
  <2> HIDE DEF m, k, n
  <2>8. Ran' * p <= k * p /\ Ran' * p \in Int /\ k * p \in Int
    BY <2>3, <2>5, ProductGrows
  <2>9. elapsed < MaxTicks => Ran' * p + cnt <= elapsed
    BY <1>2, <2>4, <2>8
  <2>10. QED
    BY <1>1, <2>4, <2>6, <2>7, <2>9 DEF Counted
<1>7. NotEarly'
  BY <1>1, <1>4, <1>5, <1>6, CountedIsOnTime, PTL
<1>8. QED
  BY <1>4, <1>5, <1>6, <1>7 DEF IInv

\* Every step keeps the invariant.
LEMMA NextInv == ASSUME IInv, [Next]_vars PROVE IInv'
<1>1. CASE Open
  BY <1>1, OpenKeeps
<1>2. CASE Close
  BY <1>2, CloseKeeps
<1>3. CASE \E T \in Timeouts : Write(T)
  BY <1>3, WriteKeeps
<1>4. CASE Stop \/ \E m \in Modes : SetMode(m)
  BY <1>4, ControlKeeps
<1>5. CASE \E f \in Freqs : FreqSet(f)
  BY <1>5, FreqSetKeeps
<1>6. CASE Tick
  BY <1>6, TickKeeps
<1>7. CASE Isr
  BY <1>7, IsrKeeps
<1>8. CASE UNCHANGED vars
  <2>1. Parts' = Parts /\ Done' = Done /\ Pending' = Pending /\ Ran' = Ran
    BY <1>8 DEF vars, device, tim, past, Ran, Pending, Done, Parts
  <2>2. Numbers' /\ Flags' /\ Quiet' /\ OneShotRests'
    BY <1>8 DEF IInv, vars, device, tim, past, Numbers, Flags, Quiet, Live, OneShotRests
  <2>3. Counted' /\ NotEarly'
    BY <1>8, <2>1 DEF IInv, vars, device, tim, past, Counted, Live, NotEarly
  <2>4. QED
    BY <2>2, <2>3 DEF IInv
<1>9. QED
  BY <1>1, <1>2, <1>3, <1>4, <1>5, <1>6, <1>7, <1>8 DEF Next

-----------------------------------------------------------------------------
(* The theorems. *)

\* IInv is an invariant: the cycles a timeout has taken, the updates that were no
\* overflow and the ticks that passed always account for each other.
THEOREM Inductive == Spec => []IInv
BY InitInv, NextInv, PTL DEF Spec

\* Every variable has its type; the handler never counts cycles below 0.
THEOREM TypeCorrect == Spec => []TypeOK
<1>1. IInv => TypeOK
  BY DEF IInv, Numbers, Flags, TypeOK
<1>2. QED
  BY <1>1, Inductive, PTL

\* No timeout is indicated before all its cycles have run, whatever timeout_calc
\* makes of it; an update that was no overflow stands for one cycle and no more.
THEOREM NoTimeoutEarly == Spec => []NotEarly
<1>1. IInv => NotEarly
  BY DEF IInv
<1>2. QED
  BY <1>1, Inductive, PTL

\* A ONESHOT timeout is the last: the counter and its interrupt stay off until
\* the device is written to or opened again.
THEOREM OneShotIsLast == Spec => []OneShotRests
<1>1. IInv => OneShotRests
  BY DEF IInv
<1>2. QED
  BY <1>1, Inductive, PTL

\* What rt_hwtimer_read multiplies and adds in PERIOD mode accounts for every
\* tick since the write.
THEOREM ReadTellsTime == Spec => []ReadIsElapsed
<1>1. ASSUME IInv PROVE ReadIsElapsed
  <2>1. SUFFICES ASSUME nvic, uie, mode = "period", ~uif, ~restarted, ~lost,
                        elapsed < MaxTicks, overflow < MaxTicks
                 PROVE  ReadTicks = elapsed + extra * (arr + 1)
    BY DEF ReadIsElapsed
  <2> DEFINE p == arr + 1
  <2>2. Live /\ Pending = 0
    BY <1>1, <2>1 DEF IInv, Quiet, Live, Pending
  <2>3. overflow \in Nat /\ extra \in Nat /\ p \in Nat /\ cnt \in Nat /\ elapsed \in Nat
    BY <1>1 DEF IInv, Numbers
  <2>4. (overflow + 0 - extra) * p + cnt = elapsed
    BY <1>1, <2>1, <2>2 DEF IInv, Counted
  <2>5. ReadTicks = overflow * p + cnt
    BY <2>1 DEF ReadTicks
  <2> HIDE DEF p
  <2>6. (overflow + 0 - extra) * p = overflow * p - extra * p
        /\ overflow * p \in Int /\ extra * p \in Int
    BY <2>3
  <2>7. ReadTicks = elapsed + extra * p
    BY <2>3, <2>4, <2>5, <2>6
  <2>8. QED
    BY <2>7 DEF p
<1>2. QED
  BY <1>1, Inductive, PTL
=============================================================================
