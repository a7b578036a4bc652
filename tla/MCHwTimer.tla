------------------------------ MODULE MCHwTimer ------------------------------
(***************************************************************************)
(* HwTimer with the arithmetic of TimeoutCalc, and what that arithmetic    *)
(* promises, over bounded inputs.                                          *)
(***************************************************************************)
EXTENDS HwTimer

CONSTANTS FloatBits, UsecPerSec, UintMax

Calc == INSTANCE TimeoutCalc

CalcSplits ==
    {LET s == Calc!timeout_calc(x[1], x[2], x[3])
     IN  [timeout |-> x[1], freq |-> x[2], cycles |-> s.cycles, counter |-> s.counter]
        : x \in Timeouts \X Freqs \X BOOLEAN}
MCSplits == CalcSplits

\* Timeouts and frequencies: up to some 40 ticks, and up to six seconds of a
\* slow timer.
Inputs == ((0..40) \X {UsecPerSec, 26, 23}) \cup ((0..6 * UsecPerSec) \X {2})

\* What the roundings of a number n may add up to: four of them, each of half
\* a unit in the last place.  In units of 2^-FloatBits.
Roundings(n) == 4 * n

\* The split s of the timeout T fits the counter and lasts about as long as T.
CloseSplit(T, f, s) ==
    LET asked == T * f   \* in ticks, times UsecPerSec
        short == asked - s.cycles * s.counter * UsecPerSec
    IN  IF s.cycles = 0
        THEN asked < UsecPerSec \/ T > MaxCnt * UsecPerSec
        ELSE /\ s.counter \in 0..MaxCnt
             /\ short * 2^FloatBits >= -Roundings(asked)
             /\ (short - s.cycles * UsecPerSec) * 2^FloatBits < Roundings(asked)

\* Reading after n overflows and c counts.
CloseRead(f, s, n, c, fused) ==
    LET read == Calc!ReadTime(n, c, s.period, f, fused) * f
        true == (n * s.counter + c) * UsecPerSec
        most == true + n * UsecPerSec
    IN  /\ (read - most) * 2^FloatBits <= Roundings(most)
        /\ (true - read - f) * 2^FloatBits < Roundings(true)

\* Facts about constants: TLC evaluates each of these once.
SplitsClose ==
    \A x \in Inputs, fused \in BOOLEAN :
        CloseSplit(x[1], x[2], Calc!timeout_calc(x[1], x[2], fused))
ReadsClose ==
    \A x \in Inputs, fused \in BOOLEAN :
        LET s == Calc!timeout_calc(x[1], x[2], fused)
        IN  s.cycles # 0 => \A n \in 0..3, c \in 0..(s.counter - 1) :
                                CloseRead(x[2], s, n, c, fused)

\* What a write of an open timer gets from timeout_calc (hwtimer.c:38-91), at any
\* frequency and for any timeout of Inputs: the cycles fit the counter, and together
\* they last as long as the timeout, less the part of a tick that each of them
\* drops, but for the roundings of single precision; only a timeout below a
\* tick and one of more seconds than the counter has values is not split.
TimeoutClose == opened => SplitsClose

\* What rt_hwtimer_read (hwtimer.c:164-191) makes of the overflows and the counter
\* of an open timer: the time it tells is ahead of the ticks
\* counted by less than a tick for every overflow, since it takes the period
\* before it was cut to ticks, and behind by less than a microsecond, but for
\* the roundings of single precision.
ReadClose == opened => ReadsClose
=============================================================================
