-------------------------- MODULE PmTicklessProofs --------------------------
(***************************************************************************)
(* No low-power timer is late because of a sleep and every delay that a    *)
(* module asked for is honoured, for every rate the driver converts with,  *)
(* every tick rate and tick width and every set of timers and modules.     *)
(***************************************************************************)
EXTENDS PmTickless, WellFoundedInduction, TLAPS

-----------------------------------------------------------------------------
(* Arithmetic. *)

\* What an integer division drops is the remainder: the two lines of
\* n32_os_tick_from_pm_tick (drv_pm.c:214-217) split the same number.
LEMMA DivMod ==
    ASSUME NEW n \in Nat, NEW f \in Nat \ {0}
    PROVE  /\ n \div f \in Nat
           /\ n % f \in 0..(f - 1)
           /\ n = (n \div f) * f + (n % f)
BY Z3

\* A product with a natural number keeps the order.
LEMMA TimesMonotone ==
    ASSUME NEW a \in Nat, NEW b \in Nat, NEW c \in Nat, a <= b
    PROVE  a * c \in Nat /\ a * c <= b * c
<1>1. b * c = a * c + (b - a) * c
  BY Z3
<1>2. (b - a) * c >= 0 /\ a * c \in Nat
  BY Z3
<1>3. QED
  BY <1>1, <1>2

\* A quotient below a bound on the product.
LEMMA TimesCancel ==
    ASSUME NEW a \in Nat, NEW b \in Nat, NEW f \in Nat \ {0}, a * f < b * f
    PROVE  a < b
<1>1. SUFFICES ASSUME b <= a PROVE FALSE
  OBVIOUS
<1>2. b * f <= a * f
  BY <1>1, TimesMonotone
<1>3. a * f \in Nat /\ b * f \in Nat
  BY Z3
<1>4. QED
  BY <1>2, <1>3

\* A set of natural numbers has a least element, which Min is.
LEMMA MinOfNats ==
    ASSUME NEW S \in SUBSET Nat, S # {}
    PROVE  Min(S) \in S /\ \A y \in S : Min(S) <= y
<1> DEFINE R == {ss \in Nat \X Nat : ss[1] < ss[2]}
<1>1. IsWellFoundedOn(R, Nat)
  BY NatLessThanWellFounded, Zenon DEF OpToRel
<1> HIDE DEF R
<1>2. \E x \in S : \A y \in S : ~(<<y, x>> \in R)
  BY <1>1, WFMin, Zenon
<1>3. \E x \in S : \A y \in S : x <= y
  <2>1. PICK x \in S : \A y \in S : ~(<<y, x>> \in R)
    BY <1>2
  <2>2. ASSUME NEW y \in S PROVE x <= y
    <3>1. <<y, x>> \notin R
      BY <2>1
    <3>2. <<y, x>> \in Nat \X Nat /\ <<y, x>>[1] = y /\ <<y, x>>[2] = x
      BY <2>1
    <3>3. ~(y < x)
      BY <3>1, <3>2, Zenon DEF R
    <3>4. QED
      BY <3>3
  <2>3. QED
    BY <2>2
<1>4. QED
  BY <1>3 DEF Min

\* Addition of ticks wraps once.
LEMMA PlusWraps ==
    ASSUME NEW a \in Ticks, NEW n \in 0..(TickMod - 1)
    PROVE  (a + n) % TickMod = IF a + n < TickMod THEN a + n ELSE a + n - TickMod
<1>1. /\ (a + n) \div TickMod \in Nat
      /\ (a + n) % TickMod \in 0..(TickMod - 1)
      /\ a + n = ((a + n) \div TickMod) * TickMod + ((a + n) % TickMod)
  BY DivMod, ClockAssumption DEF Ticks, RT_TICK_MAX
<1> DEFINE q == (a + n) \div TickMod
           r == (a + n) % TickMod
<1>2. q < 2
  <2>1. SUFFICES ASSUME 2 <= q PROVE FALSE
    BY <1>1
  <2>2. 2 * TickMod <= q * TickMod
    BY <2>1, <1>1, TimesMonotone, ClockAssumption
  <2>3. q * TickMod \in Nat
    BY <1>1, TimesMonotone, ClockAssumption
  <2> HIDE DEF q, r
  <2>4. a + n = q * TickMod + r /\ r \in 0..(TickMod - 1)
    BY <1>1 DEF q, r
  <2>5. QED
    BY <2>2, <2>3, <2>4, ClockAssumption DEF Ticks, RT_TICK_MAX
<1>3. q = 0 \/ q = 1
  BY <1>1, <1>2
<1>4. a + n = q * TickMod + r /\ r \in 0..(TickMod - 1)
  BY <1>1
<1> HIDE DEF q, r
<1>5. r = IF a + n < TickMod THEN a + n ELSE a + n - TickMod
  BY <1>3, <1>4, ClockAssumption DEF Ticks, RT_TICK_MAX
<1>6. QED
  BY <1>5 DEF r

\* Subtraction of ticks wraps once.
LEMMA MinusWraps ==
    ASSUME NEW a \in Ticks, NEW b \in Ticks
    PROVE  /\ Minus(a, b) = IF a >= b THEN a - b ELSE a + TickMod - b
           /\ Minus(a, b) \in Ticks
<1>1. CASE b = 0
  <2>1. (a + TickMod - b) % TickMod = a
    <3>1. a \in Nat /\ a < TickMod /\ TickMod \in Nat \ {0}
      BY ClockAssumption DEF Ticks, RT_TICK_MAX
    <3>2. (a + TickMod) % TickMod = a
      BY <3>1, Z3
    <3>3. a + TickMod - b = a + TickMod
      BY <1>1, <3>1
    <3>4. QED
      BY <3>2, <3>3
  <2>2. QED
    BY <1>1, <2>1, ClockAssumption DEF Minus, Ticks, RT_TICK_MAX
<1>2. CASE b # 0
  <2>1. TickMod - b \in 0..(TickMod - 1) /\ a + (TickMod - b) = a + TickMod - b
    BY <1>2, ClockAssumption DEF Ticks, RT_TICK_MAX
  <2>2. Minus(a, b) = IF a + (TickMod - b) < TickMod THEN a + (TickMod - b)
                                                     ELSE a + (TickMod - b) - TickMod
    BY <2>1, PlusWraps DEF Minus
  <2>3. QED
    BY <2>2, <1>2, ClockAssumption DEF Ticks, RT_TICK_MAX
<1>3. QED
  BY <1>1, <1>2

-----------------------------------------------------------------------------
(* The inductive invariant. *)

Half == RT_TICK_MAX \div 2

\* Every active timer lies ahead of the tick, by less than half the range.
Ahead ==
    \A t \in Timers : deadline[t] # Off =>
        /\ deadline[t] \in Ticks
        /\ Minus(deadline[t], tick) \in 1..(Half - 1)

\* The LPTIM, if it runs to its end, does not reach past an active timer.
Reach ==
    (HasTimer(asleep) /\ lptim # Off) =>
        \A t \in Timers : deadline[t] # Off =>
            lptim * TicksPerSecond <= Minus(deadline[t], tick) * Freq

TimeInv ==
    /\ tick \in Ticks
    /\ deadline \in [Timers -> Ticks \cup {Off}]
    /\ remain \in Nat /\ remain < Freq
    /\ lptim \in Nat \cup {Off}
    /\ lsi \in BOOLEAN
    /\ Ahead
    /\ Reach

\* What the assumption on the periods says of the range of the tick.
LEMMA TickRange ==
    /\ TickMod \in Nat \ {0}
    /\ Half \in Nat /\ 2 * Half < TickMod
    /\ Off \notin Int
    /\ \A t \in Timers : Period[t] \in 1..(Half - 1)
<1>1. TickMod \in Nat \ {0} /\ Off \notin Int
  BY ClockAssumption
<1>2. (TickMod - 1) \div 2 \in Nat /\ 2 * ((TickMod - 1) \div 2) < TickMod
  BY <1>1
<1>3. QED
  BY <1>1, <1>2, PeriodAssumption DEF Half, RT_TICK_MAX

\* A timer started now lies ahead.
LEMMA StartAhead ==
    ASSUME NEW now \in Ticks, NEW t \in Timers
    PROVE  /\ (now + Period[t]) % TickMod \in Ticks
           /\ Minus((now + Period[t]) % TickMod, now) = Period[t]
           /\ (now + Period[t]) % TickMod # now
<1> DEFINE d == (now + Period[t]) % TickMod
<1>1. Period[t] \in 1..(Half - 1) /\ 2 * Half < TickMod /\ Half \in Nat /\ TickMod \in Nat
  BY TickRange
<1>2. now \in 0..(TickMod - 1)
  BY DEF Ticks, RT_TICK_MAX
<1>3. d = IF now + Period[t] < TickMod THEN now + Period[t] ELSE now + Period[t] - TickMod
  BY <1>1, <1>2, PlusWraps
<1> HIDE DEF d
<1>4. d \in Ticks /\ d # now
  BY <1>1, <1>2, <1>3 DEF Ticks, RT_TICK_MAX
<1>5. Minus(d, now) = IF d >= now THEN d - now ELSE d + TickMod - now
  BY <1>4, MinusWraps
<1>6. Minus(d, now) = Period[t]
  BY <1>1, <1>2, <1>3, <1>5
<1>7. QED
  BY <1>4, <1>6 DEF d

\* The heart of the argument: a timer d that lies ahead of the tick `now' by
\* some distance, and a tick that moves on by n of it and no more.  At the
\* distance the timer is due; before it is not, and it lies ahead by the rest.
LEMMA Move ==
    ASSUME NEW now \in Ticks, NEW d \in Ticks,
           Minus(d, now) \in 1..(Half - 1),
           NEW n \in Nat, n <= Minus(d, now)
    PROVE  LET later == (now + n) % TickMod
           IN  /\ later \in Ticks
               /\ n = Minus(d, now) => later = d /\ Minus(later, d) < Half
               /\ n < Minus(d, now) =>
                    /\ later # d
                    /\ ~(Minus(later, d) < Half)
                    /\ Minus(later, now) = n
                    /\ Minus(d, later) = Minus(d, now) - n
<1> DEFINE later == (now + n) % TickMod
<1>1. Half \in Nat /\ 2 * Half < TickMod /\ TickMod \in Nat
  BY TickRange
<1>2. now \in 0..(TickMod - 1) /\ d \in 0..(TickMod - 1)
  BY DEF Ticks, RT_TICK_MAX
<1>3. Minus(d, now) = IF d >= now THEN d - now ELSE d + TickMod - now
  BY MinusWraps
<1>4. later = IF now + n < TickMod THEN now + n ELSE now + n - TickMod
  <2>1. n \in 0..(TickMod - 1)
    BY <1>1
  <2>2. QED
    BY <2>1, PlusWraps
<1> HIDE DEF later
<1>5. later \in Ticks
  BY <1>1, <1>2, <1>4 DEF Ticks, RT_TICK_MAX
<1>6. /\ Minus(later, d) = IF later >= d THEN later - d ELSE later + TickMod - d
      /\ Minus(later, now) = IF later >= now THEN later - now ELSE later + TickMod - now
      /\ Minus(d, later) = IF d >= later THEN d - later ELSE d + TickMod - later
  BY <1>5, MinusWraps
<1>7. n = Minus(d, now) => later = d /\ Minus(later, d) < Half
  BY <1>1, <1>2, <1>3, <1>4, <1>6
<1>8. n < Minus(d, now) => /\ later # d
                           /\ ~(Minus(later, d) < Half)
                           /\ Minus(later, now) = n
                           /\ Minus(d, later) = Minus(d, now) - n
  BY <1>1, <1>2, <1>3, <1>4, <1>6
<1>9. QED
  BY <1>5, <1>7, <1>8 DEF later

-----------------------------------------------------------------------------
(* The steps. *)

\* What a step may do to the timers, as LptimerOnTime states it.
OnTime ==
    \A t \in Timers :
        (tick' # tick /\ deadline[t] # Off) =>
            IF tick' = deadline[t] THEN deadline'[t] # deadline[t]
            ELSE /\ deadline'[t] = deadline[t]
                 /\ Minus(tick', tick) < Minus(deadline[t], tick)

\* The tick moves on by no more than the distance of every active timer: the
\* timers it meets run at their tick and the others still lie ahead.
LEMMA IncreaseKeeps ==
    ASSUME TimeInv, NEW n \in Nat, TickIncrease(n),
           \A t \in Timers : deadline[t] # Off => n <= Minus(deadline[t], tick)
    PROVE  /\ tick' \in Ticks
           /\ deadline' \in [Timers -> Ticks \cup {Off}]
           /\ Ahead'
           /\ OnTime
<1>1. tick \in Ticks /\ deadline \in [Timers -> Ticks \cup {Off}] /\ Ahead
  BY DEF TimeInv
<1>2. tick' \in Ticks
  <2>1. tick \in Nat /\ TickMod \in Nat \ {0}
    BY <1>1, ClockAssumption DEF Ticks, RT_TICK_MAX
  <2>2. (tick + n) % TickMod \in 0..(TickMod - 1)
    BY <2>1, DivMod
  <2>3. QED
    BY <2>2 DEF TickIncrease, Ticks, RT_TICK_MAX
<1> DEFINE Due(t) == Minus(tick', deadline[t]) < Half
<1>3. deadline' = [t \in Timers |->
        IF deadline[t] # Off /\ Due(t)
        THEN IF t \in Periodic THEN (tick' + Period[t]) % TickMod ELSE Off
        ELSE deadline[t]]
  BY DEF TickIncrease, TimerCheck, Half
<1>4. ASSUME NEW t \in Timers, deadline[t] # Off
      PROVE  \/ /\ tick' = deadline[t] /\ Due(t)
             \/ /\ tick' # deadline[t] /\ ~Due(t)
                /\ Minus(tick', tick) < Minus(deadline[t], tick)
                /\ Minus(deadline[t], tick') \in 1..(Half - 1)
  <2>1. deadline[t] \in Ticks /\ Minus(deadline[t], tick) \in 1..(Half - 1)
    BY <1>1, <1>4 DEF Ahead
  <2>2. n <= Minus(deadline[t], tick)
    BY <1>4
  <2>3. tick' = (tick + n) % TickMod
    BY DEF TickIncrease
  <2> HIDE DEF Due
  <2>4. CASE n = Minus(deadline[t], tick)
    BY <1>1, <2>1, <2>2, <2>3, <2>4, Move DEF Due
  <2>5. CASE n < Minus(deadline[t], tick)
    <3>1. /\ tick' # deadline[t] /\ ~(Minus(tick', deadline[t]) < Half)
          /\ Minus(tick', tick) = n
          /\ Minus(deadline[t], tick') = Minus(deadline[t], tick) - n
      BY <1>1, <2>1, <2>2, <2>3, <2>5, Move
    <3>2. Half \in Nat
      BY TickRange
    <3>3. QED
      BY <2>1, <2>5, <3>1, <3>2 DEF Due
  <2>6. QED
    BY <2>1, <2>2, <2>4, <2>5, TickRange
<1>5. ASSUME NEW t \in Timers
      PROVE  /\ (tick' + Period[t]) % TickMod \in Ticks
             /\ Minus((tick' + Period[t]) % TickMod, tick') \in 1..(Half - 1)
             /\ (tick' + Period[t]) % TickMod # tick'
  BY <1>2, StartAhead, TickRange
<1> HIDE DEF Due
<1>6. deadline' \in [Timers -> Ticks \cup {Off}]
  BY <1>1, <1>3, <1>5
<1>7. Ahead'
  <2>1. SUFFICES ASSUME NEW t \in Timers, deadline'[t] # Off
                 PROVE  deadline'[t] \in Ticks /\ Minus(deadline'[t], tick') \in 1..(Half - 1)
    BY DEF Ahead, Minus, Half
  <2>2. CASE deadline[t] # Off /\ Due(t)
    BY <1>3, <1>5, <2>1, <2>2
  <2>3. CASE ~(deadline[t] # Off /\ Due(t))
    BY <1>1, <1>3, <1>4, <2>1, <2>3 DEF Ahead
  <2>4. QED
    BY <2>2, <2>3
<1>8. OnTime
  <2>1. SUFFICES ASSUME NEW t \in Timers, deadline[t] # Off
                 PROVE  IF tick' = deadline[t] THEN deadline'[t] # deadline[t]
                        ELSE /\ deadline'[t] = deadline[t]
                             /\ Minus(tick', tick) < Minus(deadline[t], tick)
    BY DEF OnTime
  <2>2. CASE tick' = deadline[t]
    <3>1. Due(t)
      BY <1>4, <2>1, <2>2
    <3>2. deadline'[t] = IF t \in Periodic THEN (tick' + Period[t]) % TickMod ELSE Off
      BY <1>3, <2>1, <3>1
    <3>3. QED
      BY <1>5, <2>1, <2>2, <3>2
  <2>3. CASE tick' # deadline[t]
    BY <1>3, <1>4, <2>1, <2>3
  <2>4. QED
    BY <2>2, <2>3
<1>9. QED
  BY <1>2, <1>6, <1>7, <1>8

\* rt_lptimer_next_timeout_tick: no active timer is nearer.
LEMMA NextTimeoutIsNearest ==
    ASSUME TimeInv
    PROVE  /\ NextTimeout \in Nat
           /\ \A t \in Timers : deadline[t] # Off => NextTimeout <= Minus(deadline[t], tick)
<1> DEFINE active == {t \in Timers : deadline[t] # Off}
           S == {Minus(deadline[t], tick) : t \in active}
<1>1. tick \in Ticks /\ RT_TICK_MAX \in Ticks /\ Ticks \subseteq Nat
  BY ClockAssumption DEF TimeInv, Ticks, RT_TICK_MAX
<1>2. \A t \in active : Minus(deadline[t], tick) \in Nat
  <2>1. SUFFICES ASSUME NEW t \in active PROVE Minus(deadline[t], tick) \in Nat
    OBVIOUS
  <2>2. deadline[t] \in Ticks
    BY DEF TimeInv, Ahead
  <2>3. QED
    BY <1>1, <2>2, MinusWraps
<1>3. CASE active = {}
  <2>1. NextTimeout = Minus(RT_TICK_MAX, tick)
    BY <1>3 DEF NextTimeout
  <2>2. QED
    BY <1>1, <1>3, <2>1, MinusWraps
<1>4. CASE active # {}
  <2>1. NextTimeout = Min(S)
    BY <1>4 DEF NextTimeout
  <2>2. S \in SUBSET Nat /\ S # {}
    BY <1>2, <1>4
  <2>3. Min(S) \in S /\ \A y \in S : Min(S) <= y
    BY <2>2, MinOfNats
  <2>4. QED
    BY <2>1, <2>2, <2>3
<1>5. QED
  BY <1>3, <1>4

\* pm_timer_start: the wrapping product, the division and the clamp only make
\* the LPTIM shorter than the timeout.
LEMMA StartReach ==
    ASSUME NEW d \in Nat
    PROVE  /\ pm_timer_start(d) \in Nat \cup {Off}
           /\ pm_timer_start(d) # Off => pm_timer_start(d) * TicksPerSecond <= d * Freq
<1> DEFINE p == d * Freq
           w == p % TickMod
           t == w \div TicksPerSecond
<1>1. /\ Freq \in Nat /\ TickMod \in Nat \ {0} /\ TicksPerSecond \in Nat \ {0}
      /\ LptimMax \in Nat
  BY ClockAssumption
<1>2. p \in Nat
  BY <1>1, TimesMonotone
<1> HIDE DEF p
<1>3. w \in Nat /\ w <= p
  <2>1. p \div TickMod \in Nat /\ w \in 0..(TickMod - 1) /\ p = (p \div TickMod) * TickMod + w
    BY <1>1, <1>2, DivMod
  <2>2. (p \div TickMod) * TickMod \in Nat
    BY <1>1, <2>1, TimesMonotone
  <2> HIDE DEF w
  <2>3. QED
    BY <1>1, <1>2, <2>1, <2>2
<1> HIDE DEF w
<1>4. t \in Nat /\ t * TicksPerSecond \in Nat /\ t * TicksPerSecond <= w
  <2>1. t \in Nat /\ w % TicksPerSecond \in 0..(TicksPerSecond - 1)
        /\ w = t * TicksPerSecond + (w % TicksPerSecond)
    BY <1>1, <1>3, DivMod
  <2>2. t * TicksPerSecond \in Nat
    BY <1>1, <2>1, TimesMonotone
  <2> HIDE DEF t
  <2>3. QED
    BY <1>1, <1>3, <2>1, <2>2
<1> HIDE DEF t
<1>5. pm_timer_start(d) = IF d = RT_TICK_MAX THEN Off ELSE IF t > LptimMax THEN LptimMax ELSE t
  BY DEF pm_timer_start, n32_pm_tick_from_os_tick, t, w, p
<1>6. LptimMax < t => LptimMax * TicksPerSecond <= t * TicksPerSecond
                       /\ LptimMax * TicksPerSecond \in Nat
  BY <1>1, <1>4, TimesMonotone
<1>7. p = d * Freq
  BY DEF p
<1>8. QED
  BY <1>1, <1>2, <1>3, <1>4, <1>5, <1>6, <1>7

\* n32_os_tick_from_pm_tick: the ticks given back are no more than the timeout
\* the LPTIM was started with, since the remainder is below one tick.
LEMMA CompensateBound ==
    ASSUME NEW c \in Nat, NEW r \in Nat, r < Freq
    PROVE  LET delta == (c * TicksPerSecond + r) \div Freq
               rest == (r + c * TicksPerSecond) % Freq
           IN  /\ delta \in Nat
               /\ rest \in Nat /\ rest < Freq
               /\ \A d \in Nat : c * TicksPerSecond <= d * Freq => delta <= d
<1> DEFINE p == c * TicksPerSecond
           delta == (p + r) \div Freq
           rest == (r + p) % Freq
<1>1. Freq \in Nat \ {0} /\ TicksPerSecond \in Nat
  BY ClockAssumption
<1>2. p \in Nat
  BY <1>1, TimesMonotone
<1> HIDE DEF p
<1>3. r + p = p + r /\ p + r \in Nat
  BY <1>2
<1>4. delta \in Nat /\ rest \in 0..(Freq - 1) /\ p + r = delta * Freq + rest
  BY <1>1, <1>3, DivMod
<1>5. delta * Freq \in Nat
  BY <1>1, <1>4, TimesMonotone
<1> HIDE DEF delta, rest
<1>6. \A d \in Nat : p <= d * Freq => delta <= d
  <2>1. SUFFICES ASSUME NEW d \in Nat, p <= d * Freq PROVE delta <= d
    OBVIOUS
  <2>2. d * Freq \in Nat /\ (d + 1) * Freq = d * Freq + Freq
    BY <1>1, TimesMonotone, Z3
  <2>3. delta * Freq < (d + 1) * Freq
    BY <1>1, <1>2, <1>4, <1>5, <2>1, <2>2
  <2>4. delta < d + 1
    BY <1>1, <1>4, <2>3, TimesCancel
  <2>5. QED
    BY <1>4, <2>4
<1>7. QED
  BY <1>1, <1>4, <1>6 DEF p, delta, rest

\* A step that leaves the clock and the timers alone, and does not start to sleep.
LEMMA QuietStep ==
    ASSUME TimeInv, UNCHANGED <<tick, remain, deadline, lptim>>, lsi' \in BOOLEAN,
           HasTimer(asleep') => HasTimer(asleep)
    PROVE  TimeInv' /\ OnTime
<1>1. UNCHANGED <<tick, remain, deadline, lptim>> /\ lsi' \in BOOLEAN
  OBVIOUS
<1>2. Ahead' /\ Reach'
  BY <1>1 DEF TimeInv, Ahead, Reach, Minus, Half, HasTimer
<1>3. QED
  BY <1>1, <1>2 DEF TimeInv, OnTime

\* The wake-up, with any count up to the LPTIM's end.
LEMMA WakeStep ==
    ASSUME TimeInv, NEW count \in Nat, WakeAt(count),
           \/ lptim = Off /\ count = 0
           \/ lptim # Off /\ count <= lptim
    PROVE  TimeInv' /\ OnTime
<1> DEFINE delta == (count * TicksPerSecond + remain) \div Freq
           rest == (remain + count * TicksPerSecond) % Freq
<1>1. /\ HasTimer(asleep)
      /\ IF delta = 0 THEN UNCHANGED <<tick, deadline, left>> ELSE TickIncrease(delta)
      /\ remain' = rest
      /\ lsi' = lsi
      /\ lptim' = Off /\ asleep' = NONE
  BY DEF WakeAt, n32_os_tick_from_pm_tick
<1>2. remain \in Nat /\ remain < Freq
  BY DEF TimeInv
<1>3. /\ delta \in Nat /\ rest \in Nat /\ rest < Freq
      /\ \A d \in Nat : count * TicksPerSecond <= d * Freq => delta <= d
  BY <1>2, CompensateBound
<1>4. ASSUME NEW t \in Timers, deadline[t] # Off
      PROVE  delta <= Minus(deadline[t], tick)
  <2>1. Minus(deadline[t], tick) \in Nat
    BY <1>4, TickRange DEF TimeInv, Ahead
  <2>2. count * TicksPerSecond <= Minus(deadline[t], tick) * Freq
    <3>1. CASE lptim = Off
      <4>1. count * TicksPerSecond = 0
        BY <3>1, ClockAssumption
      <4>2. Minus(deadline[t], tick) * Freq \in Nat
        BY <2>1, TimesMonotone, ClockAssumption
      <4>3. QED
        BY <4>1, <4>2
    <3>2. CASE lptim # Off
      <4>1. lptim \in Nat /\ count <= lptim
        BY <3>2 DEF TimeInv
      <4>2. /\ count * TicksPerSecond <= lptim * TicksPerSecond
            /\ count * TicksPerSecond \in Nat /\ lptim * TicksPerSecond \in Nat
        BY <4>1, TimesMonotone, ClockAssumption
      <4>3. lptim * TicksPerSecond <= Minus(deadline[t], tick) * Freq
        BY <1>1, <1>4, <3>2 DEF TimeInv, Reach
      <4>4. Minus(deadline[t], tick) * Freq \in Nat
        BY <2>1, TimesMonotone, ClockAssumption
      <4>5. QED
        BY <4>2, <4>3, <4>4
    <3>3. QED
      BY <3>1, <3>2
  <2>3. QED
    BY <1>3, <2>1, <2>2
<1>5. remain' \in Nat /\ remain' < Freq /\ lsi' \in BOOLEAN
  BY <1>1, <1>3 DEF TimeInv
<1>6. lptim' \in Nat \cup {Off} /\ Reach'
  BY <1>1 DEF Reach
<1>7. tick' \in Ticks /\ deadline' \in [Timers -> Ticks \cup {Off}] /\ Ahead' /\ OnTime
  <2>1. CASE delta = 0
    <3>1. UNCHANGED <<tick, deadline>>
      BY <1>1, <2>1
    <3>2. QED
      BY <3>1 DEF TimeInv, Ahead, OnTime, Minus, Half
  <2>2. CASE delta # 0
    <3>1. TickIncrease(delta)
      BY <1>1, <2>2
    <3> HIDE DEF delta
    <3>2. QED
      BY <1>3, <1>4, <3>1, IncreaseKeeps
  <2>3. QED
    BY <2>1, <2>2
<1>8. QED
  BY <1>5, <1>6, <1>7 DEF TimeInv

\* The start of a sleep: the LPTIM is set from the nearest timer.
LEMMA SleepStep ==
    ASSUME TimeInv, NEW selected \in SleepModes, Sleep(selected)
    PROVE  TimeInv' /\ OnTime
<1> DEFINE v == pm_timer_start(NextTimeout)
<1>1. UNCHANGED <<tick, remain, deadline, lsi>>
  BY DEF Sleep
<1>2. lptim' = v \/ lptim' = Off
  BY DEF Sleep
<1>3. NextTimeout \in Nat
  BY NextTimeoutIsNearest
<1>4. v \in Nat \cup {Off} /\ (v # Off => v * TicksPerSecond <= NextTimeout * Freq)
  BY <1>3, StartReach
<1> HIDE DEF v
<1>5. ASSUME NEW t \in Timers, deadline[t] # Off, v # Off
      PROVE  v * TicksPerSecond <= Minus(deadline[t], tick) * Freq
  <2>1. NextTimeout <= Minus(deadline[t], tick)
    BY <1>5, NextTimeoutIsNearest
  <2>2. Minus(deadline[t], tick) \in Nat
    BY <1>5, TickRange DEF TimeInv, Ahead
  <2>3. /\ NextTimeout * Freq <= Minus(deadline[t], tick) * Freq
        /\ NextTimeout * Freq \in Nat /\ Minus(deadline[t], tick) * Freq \in Nat
    BY <1>3, <2>1, <2>2, TimesMonotone, ClockAssumption
  <2>4. v * TicksPerSecond \in Nat
    BY <1>4, <1>5, TimesMonotone, ClockAssumption
  <2>5. QED
    BY <1>4, <1>5, <2>3, <2>4
<1>6. lptim' \in Nat \cup {Off}
  BY <1>2, <1>4
<1>7. Reach'
  BY <1>1, <1>2, <1>5 DEF Reach, Minus
<1>8. Ahead' /\ OnTime
  BY <1>1 DEF TimeInv, Ahead, OnTime, Minus, Half
<1>9. QED
  BY <1>1, <1>6, <1>7, <1>8 DEF TimeInv

\* A timer is started or stopped while the processor runs.
LEMMA TimerStep ==
    ASSUME TimeInv, NEW t \in Timers, rt_lptimer_start(t) \/ rt_lptimer_stop(t)
    PROVE  TimeInv' /\ OnTime
<1>1. /\ UNCHANGED <<tick, remain, asleep, lptim, lsi>>
      /\ asleep = NONE
  BY DEF rt_lptimer_start, rt_lptimer_stop, Running
<1>2. PICK d : /\ deadline' = [deadline EXCEPT ![t] = d]
               /\ d = Off \/ d = (tick + Period[t]) % TickMod
  BY DEF rt_lptimer_start, rt_lptimer_stop
<1>3. tick \in Ticks /\ deadline \in [Timers -> Ticks \cup {Off}] /\ Ahead
  BY DEF TimeInv
<1>4. d # Off => d \in Ticks /\ Minus(d, tick) \in 1..(Half - 1)
  BY <1>2, <1>3, StartAhead, TickRange
<1>5. deadline' \in [Timers -> Ticks \cup {Off}]
  BY <1>2, <1>3, <1>4
<1>6. Ahead'
  <2>1. SUFFICES ASSUME NEW s \in Timers, deadline'[s] # Off
                 PROVE  deadline'[s] \in Ticks /\ Minus(deadline'[s], tick) \in 1..(Half - 1)
    BY <1>1 DEF Ahead, Minus, Half
  <2>2. CASE s = t
    BY <1>2, <1>3, <1>4, <2>1, <2>2
  <2>3. CASE s # t
    BY <1>2, <1>3, <2>1, <2>3 DEF Ahead
  <2>4. QED
    BY <2>2, <2>3
<1>7. Reach' /\ OnTime
  BY <1>1 DEF TimeInv, Reach, OnTime, HasTimer, NONE, DEEP
<1>8. QED
  BY <1>1, <1>3, <1>5, <1>6, <1>7 DEF TimeInv

\* The tick interrupt.
LEMMA TickStep ==
    ASSUME TimeInv, SysTick
    PROVE  TimeInv' /\ OnTime
<1>1. /\ TickIncrease(1) /\ asleep = NONE
      /\ UNCHANGED <<remain, asleep, lptim, lsi>>
  BY DEF SysTick, Running
<1>2. \A t \in Timers : deadline[t] # Off => 1 <= Minus(deadline[t], tick)
  BY TickRange DEF TimeInv, Ahead
<1>3. tick' \in Ticks /\ deadline' \in [Timers -> Ticks \cup {Off}] /\ Ahead' /\ OnTime
  BY <1>1, <1>2, IncreaseKeeps
<1>4. Reach'
  BY <1>1 DEF TimeInv, Reach, HasTimer, NONE, DEEP
<1>5. QED
  BY <1>1, <1>3, <1>4 DEF TimeInv

-----------------------------------------------------------------------------
(* The delays of the modules. *)

BusyTypes ==
    /\ busy \in [Modules -> [on : BOOLEAN, timeout : Delays \cup {0}, start : Ticks]]
    /\ left \in [Modules -> Nat]

\* A delay in force is one that the difference of the wrapping ticks still
\* shows: the flag is set and the ticks passed and left make up the timeout.
Delayed ==
    \A i \in Modules : left[i] > 0 =>
        /\ busy[i].on
        /\ Minus(tick, busy[i].start) + left[i] = busy[i].timeout + 1

DelayInv ==
    /\ asleep \in SleepModes
    /\ lptim \in 0..LptimMax \cup {Off}
    /\ BusyTypes
    /\ Delayed
    /\ DelayHonoured

\* The ticks since an earlier one grow with the tick, short of a whole round.
LEMMA PassedGrows ==
    ASSUME NEW now \in Ticks, NEW start \in Ticks, NEW n \in Nat,
           Minus(now, start) + n < TickMod
    PROVE  (now + n) % TickMod \in Ticks /\ Minus((now + n) % TickMod, start) = Minus(now, start) + n
<1> DEFINE later == (now + n) % TickMod
<1>1. /\ Minus(now, start) = IF now >= start THEN now - start ELSE now + TickMod - start
      /\ Minus(now, start) \in Ticks
  BY MinusWraps
<1>2. n \in 0..(TickMod - 1) /\ TickMod \in Nat \ {0}
  BY <1>1, ClockAssumption DEF Ticks, RT_TICK_MAX
<1>3. later = IF now + n < TickMod THEN now + n ELSE now + n - TickMod
  BY <1>2, PlusWraps
<1> HIDE DEF later
<1>4. later \in Ticks
  BY <1>2, <1>3 DEF Ticks, RT_TICK_MAX
<1>5. Minus(later, start) = IF later >= start THEN later - start ELSE later + TickMod - start
  BY <1>4, MinusWraps
<1>6. Minus(later, start) = Minus(now, start) + n
  BY <1>1, <1>2, <1>3, <1>5 DEF Ticks, RT_TICK_MAX
<1>7. QED
  BY <1>4, <1>6 DEF later

\* The busy record of a module has the types of its fields.
LEMMA BusyFields ==
    ASSUME BusyTypes, NEW i \in Modules
    PROVE  /\ busy[i].timeout \in Ticks /\ busy[i].start \in Ticks
           /\ left[i] \in Nat
<1>1. Delays \cup {0} \subseteq Ticks
  BY ClockAssumption DEF Ticks, RT_TICK_MAX
<1>2. busy[i].timeout \in Delays \cup {0} /\ busy[i].start \in Ticks /\ left[i] \in Nat
  BY DEF BusyTypes
<1>3. QED
  BY <1>1, <1>2

\* A difference of ticks is a natural number.
LEMMA MinusIsNat == ASSUME NEW a \in Ticks, NEW b \in Ticks PROVE Minus(a, b) \in Nat
<1>1. Minus(a, b) \in Ticks
  BY MinusWraps
<1>2. Ticks \subseteq Nat
  BY ClockAssumption DEF Ticks, RT_TICK_MAX
<1>3. QED
  BY <1>1, <1>2

\* The tick passes: each delay has so many ticks less, also across the wrap.
LEMMA IncreaseDelays ==
    ASSUME TimeInv, DelayInv, NEW n \in Nat, TickIncrease(n), busy' = busy
    PROVE  BusyTypes' /\ Delayed'
<1>1. /\ tick \in Ticks /\ tick' = (tick + n) % TickMod
      /\ left' = [i \in Modules |-> IF left[i] > n THEN left[i] - n ELSE 0]
  BY DEF TimeInv, TickIncrease
<1>2. BusyTypes'
  BY <1>1 DEF DelayInv, BusyTypes
<1>3. Delayed'
  <2>1. SUFFICES ASSUME NEW i \in Modules, left'[i] > 0
                 PROVE  /\ busy[i].on
                        /\ Minus(tick', busy[i].start) + left'[i] = busy[i].timeout + 1
    BY DEF Delayed, Minus
  <2>2. busy[i].timeout \in Ticks /\ busy[i].start \in Ticks /\ left[i] \in Nat
    BY BusyFields DEF DelayInv
  <2>3. left[i] > n /\ left'[i] = left[i] - n
    BY <1>1, <2>1, <2>2
  <2>4. busy[i].on /\ Minus(tick, busy[i].start) + left[i] = busy[i].timeout + 1
    BY <2>2, <2>3 DEF DelayInv, Delayed
  <2>5. Minus(tick, busy[i].start) \in Nat
    BY <1>1, <2>2, MinusIsNat
  <2>6. Minus(tick, busy[i].start) + n < TickMod
    BY <2>2, <2>3, <2>4, <2>5, ClockAssumption DEF Ticks, RT_TICK_MAX
  <2>7. Minus(tick', busy[i].start) = Minus(tick, busy[i].start) + n
    BY <1>1, <2>2, <2>6, PassedGrows
  <2>8. QED
    BY <2>2, <2>3, <2>4, <2>5, <2>7
<1>4. QED
  BY <1>2, <1>3

\* _pm_device_check_idle: a delay in force is not expired, so it caps the mode
\* and keeps its flag.
LEMMA SleepDelays ==
    ASSUME TimeInv, DelayInv, NEW selected \in SleepModes, Sleep(selected)
    PROVE  DelayInv'
<1> DEFINE capped == IF StillBusy # {} /\ IDLE < selected THEN IDLE ELSE selected
<1>1. /\ asleep' = IF HasTimer(capped) THEN ThresholdMode(NextTimeout) ELSE capped
      /\ UNCHANGED <<tick, left>>
  BY DEF Sleep
<1>2. busy' = [i \in Modules |-> IF \A j \in StillBusy : i < j THEN NotBusy ELSE busy[i]]
  BY DEF Sleep, CheckIdle
<1>3. \A i \in Modules : left[i] > 0 => i \in StillBusy /\ i \in Int
  <2>1. SUFFICES ASSUME NEW i \in Modules, left[i] > 0 PROVE i \in StillBusy /\ i \in Int
    OBVIOUS
  <2>2. busy[i].timeout \in Ticks /\ busy[i].start \in Ticks /\ left[i] \in Nat
    BY BusyFields DEF DelayInv
  <2>3. Minus(tick, busy[i].start) \in Nat
    BY <2>2, MinusIsNat DEF TimeInv
  <2>4. busy[i].on /\ Minus(tick, busy[i].start) + left[i] = busy[i].timeout + 1
    BY <2>1 DEF DelayInv, Delayed
  <2>5. ~Expired(i)
    BY <2>1, <2>2, <2>3, <2>4 DEF Expired, Ticks
  <2>6. QED
    BY <2>4, <2>5 DEF StillBusy, Modules
<1>4. BusyTypes'
  <2>1. NotBusy \in [on : BOOLEAN, timeout : Delays \cup {0}, start : Ticks]
    BY ClockAssumption DEF NotBusy, Ticks, RT_TICK_MAX
  <2>2. QED
    BY <1>1, <1>2, <2>1 DEF DelayInv, BusyTypes
<1>5. Delayed'
  <2>1. SUFFICES ASSUME NEW i \in Modules, left[i] > 0
                 PROVE  /\ busy'[i].on
                        /\ Minus(tick, busy'[i].start) + left[i] = busy'[i].timeout + 1
    BY <1>1 DEF Delayed, Minus
  <2>2. ~(\A j \in StillBusy : i < j)
    BY <1>3, <2>1
  <2>3. busy'[i] = busy[i]
    BY <1>2, <2>2
  <2>4. QED
    BY <2>1, <2>3 DEF DelayInv, Delayed
<1>6. asleep' \in SleepModes
  BY <1>1 DEF SleepModes, ThresholdMode, IDLE, LIGHT, DEEP
<1>7. DelayHonoured'
  <2>1. SUFFICES ASSUME NEW i \in Modules, left[i] # 0 PROVE ~(asleep' > IDLE)
    BY <1>1 DEF DelayHonoured
  <2>2. left[i] > 0
    BY <2>1, BusyFields DEF DelayInv
  <2>3. StillBusy # {}
    BY <1>3, <2>2
  <2>4. capped \in SleepModes /\ capped <= IDLE
    BY <2>3 DEF SleepModes, IDLE
  <2>5. ~HasTimer(capped)
    BY <2>4 DEF HasTimer, DEEP, IDLE, SleepModes
  <2> HIDE DEF capped
  <2>6. QED
    BY <1>1, <2>4, <2>5 DEF IDLE, SleepModes
<1>8. lptim' \in 0..LptimMax \cup {Off}
  <2>1. NextTimeout \in Nat
    BY NextTimeoutIsNearest
  <2>2. pm_timer_start(NextTimeout) \in 0..LptimMax \cup {Off}
    <3> DEFINE v == n32_pm_tick_from_os_tick(NextTimeout)
    <3>1. pm_timer_start(NextTimeout) \in Nat \cup {Off}
      BY <2>1, StartReach
    <3>2. pm_timer_start(NextTimeout) = IF NextTimeout = RT_TICK_MAX THEN Off
                                        ELSE IF v > LptimMax THEN LptimMax ELSE v
      BY DEF pm_timer_start
    <3> HIDE DEF v
    <3>3. QED
      BY <3>1, <3>2, ClockAssumption
  <2>3. QED
    BY <2>2 DEF Sleep
<1>9. QED
  BY <1>4, <1>5, <1>6, <1>7, <1>8 DEF DelayInv

\* The wake-up gives the ticks of the sleep back, to the delays too.
LEMMA WakeDelays ==
    ASSUME TimeInv, DelayInv, NEW count \in Nat, WakeAt(count)
    PROVE  DelayInv'
<1> DEFINE delta == (count * TicksPerSecond + remain) \div Freq
<1>1. /\ IF delta = 0 THEN UNCHANGED <<tick, deadline, left>> ELSE TickIncrease(delta)
      /\ lptim' = Off /\ asleep' = NONE /\ busy' = busy
  BY DEF WakeAt, n32_os_tick_from_pm_tick
<1>2. delta \in Nat
  <2>1. remain \in Nat /\ remain < Freq
    BY DEF TimeInv
  <2>2. QED
    BY <2>1, CompensateBound
<1>3. BusyTypes' /\ Delayed'
  <2>1. CASE delta = 0
    <3>1. UNCHANGED <<tick, left, busy>>
      BY <1>1, <2>1
    <3>2. QED
      BY <3>1 DEF DelayInv, BusyTypes, Delayed, Minus
  <2>2. CASE delta # 0
    <3>1. TickIncrease(delta) /\ busy' = busy
      BY <1>1, <2>2
    <3> HIDE DEF delta
    <3>2. QED
      BY <1>2, <3>1, IncreaseDelays
  <2>3. QED
    BY <2>1, <2>2
<1>4. QED
  BY <1>1, <1>3 DEF DelayInv, DelayHonoured, SleepModes, NONE, IDLE

\* No module has asked for a delay yet.
LEMMA InitDelays == Init => DelayInv
BY ClockAssumption DEF Init, DelayInv, BusyTypes, Delayed, DelayHonoured, NotBusy,
                       Ticks, RT_TICK_MAX, SleepModes, NONE, IDLE

\* Every step keeps the delays in force.
LEMMA NextDelays == ASSUME TimeInv, DelayInv, [Next]_vars PROVE DelayInv'
<1>1. ASSUME UNCHANGED <<tick, busy, left, lptim>>,
             asleep' = asleep \/ asleep' = NONE
      PROVE  DelayInv'
  BY <1>1 DEF DelayInv, BusyTypes, Delayed, DelayHonoured, Minus, SleepModes, NONE, IDLE
<1>2. CASE \E t \in Timers : rt_lptimer_start(t) \/ rt_lptimer_stop(t)
  BY <1>1, <1>2 DEF rt_lptimer_start, rt_lptimer_stop
<1>3. ASSUME NEW i \in Modules, NEW timeout \in Delays, rt_pm_module_delay_sleep(i, timeout)
      PROVE  DelayInv'
  <2> DEFINE rec == [on |-> TRUE, timeout |-> timeout, start |-> tick]
  <2>1. /\ asleep = NONE /\ UNCHANGED <<tick, asleep, lptim>>
        /\ busy' = [busy EXCEPT ![i] = rec]
        /\ left' = [left EXCEPT ![i] = timeout + 1]
    BY <1>3 DEF rt_pm_module_delay_sleep, Running
  <2>2. /\ tick \in Ticks /\ timeout \in Nat
        /\ rec \in [on : BOOLEAN, timeout : Delays \cup {0}, start : Ticks]
    BY ClockAssumption DEF TimeInv, Ticks, RT_TICK_MAX
  <2>3. rec.on /\ rec.timeout = timeout /\ rec.start = tick
    OBVIOUS
  <2> HIDE DEF rec
  <2>4. BusyTypes'
    BY <2>1, <2>2 DEF DelayInv, BusyTypes
  <2>5. Minus(tick, tick) = 0
    BY <2>2, MinusWraps DEF Ticks
  <2>6. Delayed'
    <3>1. SUFFICES ASSUME NEW j \in Modules, left'[j] > 0
                   PROVE  /\ busy'[j].on
                          /\ Minus(tick, busy'[j].start) + left'[j] = busy'[j].timeout + 1
      BY <2>1 DEF Delayed, Minus
    <3>2. CASE j = i
      <4>1. busy'[j] = rec /\ left'[j] = timeout + 1
        BY <2>1, <3>2 DEF DelayInv, BusyTypes
      <4>2. QED
        BY <2>2, <2>3, <2>5, <4>1
    <3>3. CASE j # i
      <4>1. busy'[j] = busy[j] /\ left'[j] = left[j]
        BY <2>1, <3>3 DEF DelayInv, BusyTypes
      <4>2. QED
        BY <3>1, <4>1 DEF DelayInv, Delayed
    <3>4. QED
      BY <3>2, <3>3
  <2>7. QED
    BY <2>1, <2>4, <2>6 DEF DelayInv, DelayHonoured, NONE, IDLE
<1>4. CASE SysTick
  <2>1. TickIncrease(1) /\ busy' = busy /\ asleep = NONE /\ UNCHANGED <<asleep, lptim>>
    BY <1>4 DEF SysTick, Running
  <2>2. BusyTypes' /\ Delayed'
    BY <2>1, IncreaseDelays
  <2>3. QED
    BY <2>1, <2>2 DEF DelayInv, DelayHonoured, NONE, IDLE
<1>5. CASE \E selected \in SleepModes : Sleep(selected)
  BY <1>5, SleepDelays
<1>6. CASE Wake
  BY <1>1, <1>6 DEF Wake
<1>7. CASE LptimWake
  <2>1. PICK count \in 0..lptim : WakeAt(count)
    BY <1>7 DEF LptimWake
  <2>2. count \in Nat
    BY <1>7, <2>1 DEF LptimWake, TimeInv
  <2>3. QED
    BY <2>1, <2>2, WakeDelays
<1>8. CASE OtherWake
  <2>1. PICK count \in 0..(IF lptim = Off \/ ~lsi THEN 0 ELSE lptim) : WakeAt(count)
    BY <1>8 DEF OtherWake
  <2>2. count \in Nat
    BY <2>1 DEF TimeInv
  <2>3. QED
    BY <2>1, <2>2, WakeDelays
<1>9. CASE UNCHANGED vars
  BY <1>1, <1>9 DEF vars
<1>10. CASE \E on \in BOOLEAN : RCC_EnableLsi(on)
  BY <1>1, <1>10 DEF RCC_EnableLsi
<1>11. QED
  BY <1>2, <1>3, <1>4, <1>5, <1>6, <1>7, <1>8, <1>9, <1>10 DEF Next

-----------------------------------------------------------------------------
(* The theorems. *)

\* At power-on no timer is active and nothing is owed to the clock.
LEMMA InitTime == Init => TimeInv
BY ClockAssumption DEF Init, TimeInv, Ahead, Reach, Ticks, RT_TICK_MAX, HasTimer, NONE, DEEP

\* Every step keeps the invariant and lets the timers run on time.
LEMMA NextTime == ASSUME TimeInv, [Next]_vars PROVE TimeInv' /\ OnTime
<1>1. ASSUME NEW t \in Timers, rt_lptimer_start(t) \/ rt_lptimer_stop(t)
      PROVE  TimeInv' /\ OnTime
  BY <1>1, TimerStep
<1>2. ASSUME NEW i \in Modules, NEW timeout \in Delays, rt_pm_module_delay_sleep(i, timeout)
      PROVE  TimeInv' /\ OnTime
  BY <1>2, QuietStep DEF rt_pm_module_delay_sleep, TimeInv
<1>3. CASE SysTick
  BY <1>3, TickStep
<1>4. ASSUME NEW selected \in SleepModes, Sleep(selected)
      PROVE  TimeInv' /\ OnTime
  BY <1>4, SleepStep
<1>5. CASE Wake
  BY <1>5, QuietStep DEF Wake, HasTimer, NONE, DEEP, TimeInv
<1>6. CASE LptimWake
  <2>1. PICK count \in 0..lptim : WakeAt(count)
    BY <1>6 DEF LptimWake
  <2>2. count \in Nat /\ lptim # Off /\ count <= lptim
    BY <1>6, <2>1 DEF LptimWake, TimeInv
  <2>3. QED
    BY <2>1, <2>2, WakeStep
<1>7. CASE OtherWake
  <2>1. PICK count \in 0..(IF lptim = Off \/ ~lsi THEN 0 ELSE lptim) : WakeAt(count)
    BY <1>7 DEF OtherWake
  <2>2. count \in Nat /\ ((lptim = Off /\ count = 0) \/ (lptim # Off /\ count <= lptim))
    BY <2>1 DEF TimeInv
  <2>3. QED
    BY <2>1, <2>2, WakeStep
<1>8. CASE UNCHANGED vars
  BY <1>8, QuietStep DEF vars, TimeInv
<1>9. CASE \E on \in BOOLEAN : RCC_EnableLsi(on)
  BY <1>9, QuietStep DEF RCC_EnableLsi
<1>10. QED
  BY <1>1, <1>2, <1>3, <1>4, <1>5, <1>6, <1>7, <1>8, <1>9 DEF Next

\* No low-power timer is late because the system slept.
THEOREM TimersOnTime == Spec => LptimerOnTime
<1>1. Init => TimeInv
  BY InitTime
<1>2. TimeInv /\ [Next]_vars => TimeInv'
  BY NextTime
<1>3. TimeInv /\ [Next]_vars => [OnTime]_vars
  BY NextTime
<1>4. [OnTime]_vars <=> [\A t \in Timers :
        (tick' # tick /\ deadline[t] # Off) =>
            IF tick' = deadline[t] THEN deadline'[t] # deadline[t]
            ELSE /\ deadline'[t] = deadline[t]
                 /\ Minus(tick', tick) < Minus(deadline[t], tick)]_vars
  BY DEF OnTime
<1>5. QED
  BY <1>1, <1>2, <1>3, <1>4, PTL DEF Spec, LptimerOnTime

\* No module that asked for a delay is put in a sleep deeper than IDLE before
\* its ticks have passed, wherever the tick wraps.
THEOREM DelaysAreHonoured == Spec => []DelayHonoured
<1>1. Init => TimeInv /\ DelayInv
  BY InitTime, InitDelays
<1>2. TimeInv /\ DelayInv /\ [Next]_vars => TimeInv' /\ DelayInv'
  BY NextTime, NextDelays
<1>3. DelayInv => DelayHonoured
  BY DEF DelayInv
<1>4. QED
  BY <1>1, <1>2, <1>3, PTL DEF Spec

\* Every variable has its type: the autoreload value stays within the LPTIM's
\* register, the remainder below the frequency.
THEOREM TypeCorrect == Spec => []TypeOK
<1>1. Init => TimeInv /\ DelayInv
  BY InitTime, InitDelays
<1>2. TimeInv /\ DelayInv /\ [Next]_vars => TimeInv' /\ DelayInv'
  BY NextTime, NextDelays
<1>3. TimeInv /\ DelayInv => TypeOK
  BY ClockAssumption DEF TimeInv, DelayInv, BusyTypes, TypeOK
<1>4. QED
  BY <1>1, <1>2, <1>3, PTL DEF Spec
=============================================================================
