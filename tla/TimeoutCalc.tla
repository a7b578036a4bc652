----------------------------- MODULE TimeoutCalc -----------------------------
(***************************************************************************)
(* timeout_calc of hwtimer.c and the conversion of rt_hwtimer_read, in the *)
(* single-precision arithmetic they are written in.                        *)
(*                                                                         *)
(* A number is a fraction [num, den], den > 0.  Fl rounds it to the        *)
(* nearest number with a significand of FloatBits bits, a tie to the even  *)
(* one, as the FPU does after every operation; exponents have no limit     *)
(* here, since none of these numbers comes near one.  The build lets the   *)
(* compiler fuse a product into the sum it is used in (gnu11, -Os, an FPU  *)
(* with VFMA), which leaves out one rounding: `fused' says if it does.     *)
(***************************************************************************)
EXTENDS Integers, FiniteSetsExt

CONSTANTS
    FloatBits,   \* bits of a significand: 24
    MaxCnt,      \* info->maxcnt: 0xFFFF
    UsecPerSec,  \* 1000000
    UintMax      \* 2^32 - 1

Number(n) == [num |-> n, den |-> 1]
One == Number(1)

\* Exact operations and comparison.
Times(a, b) == [num |-> a.num * b.num, den |-> a.den * b.den]
Over(a, b)  == [num |-> a.num * b.den, den |-> a.den * b.num]   \* b > 0
Plus(a, b) ==
    LET den == Max({a.den, b.den})   \* both are powers of two
    IN  [num |-> a.num * (den \div a.den) + b.num * (den \div b.den), den |-> den]
Less(a, b) == a.num * b.den < b.num * a.den
Floor(a) == a.num \div a.den

\* The number of places by which n / d is moved to the left to lie between
\* 2^(FloatBits - 1) and 2^FloatBits.
Shift(n, d) ==
    IF n < d
    THEN FloatBits - 1 + CHOOSE s \in 1..30 : n * 2^s >= d /\ n * 2^(s - 1) < d
    ELSE FloatBits - CHOOSE s \in 1..30 : n \div d < 2^s /\ n \div d >= 2^(s - 1)

\* n / d to the nearest integer.
Nearest(n, d) ==
    LET q == n \div d
        r == n % d
    IN  IF 2 * r > d \/ (2 * r = d /\ q % 2 = 1) THEN q + 1 ELSE q

\* a > 0, moved by k places to be rounded, and back.
FlShifted(a, k) ==
    LET up == 2^Max({k, 0})
        down == 2^Max({-k, 0})
    IN  [num |-> Nearest(a.num * up, a.den * down) * down, den |-> up]

Scaled(n, a) == [num |-> n * a.num, den |-> a.den]
FlSigned(sign, a) == Scaled(sign, FlShifted(a, Shift(a.num, a.den)))

Fl(a) ==
    LET sign == IF a.num < 0 THEN -1 ELSE 1
    IN  IF a.num = 0 THEN Number(0) ELSE FlSigned(sign, Scaled(sign, a))

FromInt(n) == Fl(Number(n))
Quotient(a, b) == Fl(Over(a, b))
Sum(a, b) == Fl(Plus(a, b))
\* a + b * c
SumOfProduct(a, b, c, fused) == Sum(a, IF fused THEN Times(b, c) ELSE Fl(Times(b, c)))

-----------------------------------------------------------------------------
(* timeout_calc for T microseconds, which are t = tv_sec(T) seconds in floating *)
(* point, and the frequency f.                                                 *)

tv_sec(T) ==
    Sum(FromInt(T \div UsecPerSec), Quotient(FromInt(T % UsecPerSec), FromInt(UsecPerSec)))
OneTick(f) == Quotient(One, FromInt(f))
Overflow(f) == Quotient(FromInt(MaxCnt), FromInt(f))

\* (rt_uint32_t)(timeout * timer->freq)
InTicks(timeout, f) == Floor(Fl(Times(timeout, FromInt(f))))

\* The timeout split into i cycles, and the time it then misses.
timeout(t, i) == Quotient(t, FromInt(i))
counter(t, f, i) == InTicks(timeout(t, i), f)
devi(t, f, i, fused) ==
    SumOfProduct(t, Quotient(FromInt(counter(t, f, i)), FromInt(f)), FromInt(-i), fused)

\* The loop never gets further: from here on counter is 0, which misses most.
Rounds(T, f) == 1..((T * f) \div UsecPerSec + 2)

\* Mutant: no comparison with the counter's range.
FitsAnyway(T, t, f) == Rounds(T, f)

\* The numbers of cycles the loop looks at, in their order.
Fits(T, t, f) == {i \in Rounds(T, f) : ~Less(Overflow(f), timeout(t, i))}
Tries(T, t, f, fused) == {[i |-> i, devi |-> devi(t, f, i, fused)] : i \in Fits(T, t, f)}

\* Where the loop ends: at some try devi is above devi_min, the least one before
\* it or 1, or is 0.
Before(tries, try) == {s \in tries : s.i < try.i}
Worse(before, try) == Less(One, try.devi) \/ \E s \in before : Less(s.devi, try.devi)
Stops(tries, try) == Worse(Before(tries, try), try) \/ try.devi.num = 0
Last(tries) ==
    LET stops == {try \in tries : Stops(tries, try)}
    IN  CHOOSE try \in stops : \A s \in stops : try.i <= s.i

\* index: the first of the tries that had the least devi below 1, or 0.
Index(before) ==
    LET least == {s \in before : Less(s.devi, One) /\ \A r \in before : ~Less(r.devi, s.devi)}
    IN  IF least = {} THEN 0 ELSE Min({s.i : s \in least})

SplitAt(tries, last) ==
    LET before == Before(tries, last)
    IN  IF Worse(before, last) THEN Index(before) ELSE last.i
Split(tries) == SplitAt(tries, Last(tries))

\* With i still 0 the timeout is divided by 0, and the conversion of infinity
\* (undefined in C) saturates on this processor.
Programmed(t, f, i) ==
    IF i = 0 THEN [cycles |-> 0, counter |-> UintMax, period |-> Number(0)]
    ELSE [cycles |-> i, counter |-> counter(t, f, i), period |-> timeout(t, i)]

\* A timeout below one tick is a "little timeout".
timeout_calc(T, f, fused) ==
    LET t == tv_sec(T)
    IN  IF Less(t, OneTick(f))
        THEN [cycles |-> 0, counter |-> InTicks(OneTick(f), f), period |-> OneTick(f)]
        ELSE Programmed(t, f, Split(Tries(T, t, f, fused)))

-----------------------------------------------------------------------------
(* rt_hwtimer_read, in microseconds. *)

\* Mutant: the whole of t, with its seconds.
UsecWithSec(t, sec) == Floor(Fl(Times(t, FromInt(UsecPerSec))))
Usec(t, sec) == Floor(Fl(Times(Sum(t, FromInt(-sec)), FromInt(UsecPerSec))))

ReadTime(overflows, count, period, f, fused) ==
    LET t == SumOfProduct(Quotient(FromInt(count), FromInt(f)), FromInt(overflows), period, fused)
    IN  Floor(t) * UsecPerSec + Usec(t, Floor(t))
=============================================================================
