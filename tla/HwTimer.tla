------------------------------ MODULE HwTimer ------------------------------
(***************************************************************************)
(* A hardware timer as a device: hwtimer.c, which turns a timeout into     *)
(* some number of cycles of a 16-bit counter and counts them in the        *)
(* interrupt, and drv_hwtimer.c, which programs the TIM peripheral.        *)
(*                                                                         *)
(* What timeout_calc makes of a timeout is a parameter, Splits: the        *)
(* specification holds for any arithmetic, and TimeoutCalc has the one the *)
(* code is written in.                                                     *)
(*                                                                         *)
(* Time is counted in ticks of the counter.  A write is one step: its      *)
(* first act (stop) shuts the interrupt out, its last lets it in again.    *)
(* The interrupt handler is one step, too.  While an update waits for the  *)
(* handler the counter goes on, and may overflow again: the peripheral has *)
(* one flag, so that update is lost.                                       *)
(*                                                                         *)
(* The driver never clears the update flag but in the handler and when the *)
(* device is opened for use, and opening it ends with FREQ_SET, whose      *)
(* software update sets the flag again.  A start that finds the flag set   *)
(* is interrupted at once, by an update that is not its own: the first     *)
(* start after every open, and one after a stop that came between the      *)
(* counter's overflow and the handler.                                     *)
(***************************************************************************)
EXTENDS Integers

CONSTANTS
    MaxCnt,      \* info->maxcnt: 0xFFFF, the greatest value of the counter
    Freqs,       \* frequencies from info->minfreq to info->maxfreq
    DefFreq,     \* 1000000
    Timeouts,    \* the timeouts the application asks for
    Splits,      \* what timeout_calc may make of a timeout and a frequency
    MaxWrites,   \* bound: writes in one behaviour
    MaxExtra,    \* bound: where `extra' stops
    MaxTicks     \* bound: where the other counts of ticks and events stop

ASSUME CountAssumption ==
    /\ MaxCnt \in Nat \ {0} /\ DefFreq \in Freqs
    /\ MaxWrites \in Nat /\ MaxExtra \in Nat \ {0} /\ MaxTicks \in Nat
    /\ Splits \subseteq [timeout : Timeouts, freq : Freqs, cycles : Nat, counter : Nat]

VARIABLES
    opened,     \* the device is open (STANDALONE: by one user)
    freq,       \* timer->freq
    mode,       \* timer->mode
    cycles,     \* timer->cycles: overflows until the timeout
    reload,     \* timer->reload: what cycles starts from
    overflow,   \* timer->overflow
    cen,        \* the counter is enabled
    cnt,        \* the counter
    arr,        \* its auto-reload value
    single,     \* one-pulse mode: an update stops the counter
    uie,        \* the update interrupt is enabled in the TIM
    uif,        \* the update flag
    nvic,       \* the interrupt is enabled in the NVIC
    \* History, since the last write or open.
    elapsed,    \* ticks
    fired,      \* timeouts indicated
    shot,       \* one of them in ONESHOT mode
    extra,      \* updates that set the flag and were no overflow
    restarted,  \* FREQ_SET has restarted the counter
    lost,       \* an overflow found the flag set
    writes      \* number of writes

device == <<opened, freq, mode, cycles, reload, overflow>>
tim    == <<cen, cnt, arr, single, uie, uif, nvic>>
past   == <<elapsed, fired, shot, extra, restarted, lost, writes>>
vars   == <<device, tim, past>>

Modes == {"oneshot", "period"}

(* One more, up to the bound. *)
Inc(n) == IF n < MaxTicks THEN n + 1 ELSE n

-----------------------------------------------------------------------------
(* Registered, not yet opened. *)
Init ==
    /\ opened = FALSE /\ freq = DefFreq /\ mode = "oneshot"
    /\ cycles = 0 /\ reload = 0 /\ overflow = 0
    /\ cen = FALSE /\ cnt = 0 /\ arr = MaxCnt /\ single = FALSE
    /\ uie = FALSE /\ uif = FALSE /\ nvic = FALSE
    /\ elapsed = 0 /\ fired = 0 /\ extra = 0 /\ writes = 0
    /\ shot = FALSE /\ restarted = FALSE /\ lost = FALSE

(* rt_device_open: rt_hwtimer_init (close takes the ACTIVATED flag away),   *)
(* which resets the peripheral and clears the update flag, then             *)
(* rt_hwtimer_open, whose FREQ_SET sets it.  The period it programs is      *)
(* replaced by the first start, before the counter ever runs.               *)
Open ==
    /\ ~opened
    /\ opened' = TRUE
    /\ freq' = DefFreq /\ mode' = "oneshot" /\ cycles' = 0 /\ overflow' = 0
    /\ cen' = FALSE /\ cnt' = 0 /\ arr' = MaxCnt /\ single' = FALSE
    /\ uie' = FALSE /\ uif' = TRUE /\ nvic' = TRUE
    /\ elapsed' = 0 /\ fired' = 0 /\ extra' = 1
    /\ shot' = FALSE /\ restarted' = FALSE /\ lost' = FALSE
    /\ UNCHANGED <<reload, writes>>

(* rt_hwtimer_close, n32_hwtimer_init(timer, 0): the update interrupt is    *)
(* left enabled in the TIM, and disabled in the NVIC.                       *)
Close ==
    /\ opened
    /\ opened' = FALSE
    /\ cen' = FALSE /\ uie' = TRUE /\ nvic' = FALSE
    /\ UNCHANGED <<freq, mode, cycles, reload, overflow, cnt, arr, single, uif, past>>

(* n32_hwtimer_start: the register takes 16 bits of counter - 1, and the    *)
(* update flag is left as it is.                                            *)
StartBy(counter, one, enable) ==
    /\ cnt' = 0
    /\ arr' = (counter - 1) % (MaxCnt + 1)
    /\ single' = one
    /\ uie' = (enable \/ uie)
    /\ cen' = TRUE
    /\ nvic' = TRUE
    /\ UNCHANGED uif

StartUnheard(counter, one) == StartBy(counter, one, FALSE)
Start(counter, one) == StartBy(counter, one, TRUE)

(* rt_hwtimer_write: stop, forget the overflows, compute the cycles, start; *)
(* one-pulse mode only when one cycle is enough.                            *)
WriteBy(T, over) ==
    /\ opened
    /\ writes < MaxWrites
    /\ overflow' = over
    /\ \E s \in Splits :
        /\ s.timeout = T /\ s.freq = freq
        /\ cycles' = s.cycles /\ reload' = s.cycles
        /\ Start(s.counter, s.cycles <= 1 /\ mode = "oneshot")
    /\ elapsed' = 0 /\ fired' = 0 /\ shot' = FALSE
    /\ extra' = (IF uif THEN 1 ELSE 0) /\ restarted' = FALSE /\ lost' = FALSE
    /\ writes' = writes + 1
    /\ UNCHANGED <<opened, freq, mode>>

WriteGoesOn(T) == WriteBy(T, overflow)
Write(T) == WriteBy(T, 0)

(* HWTIMER_CTRL_STOP *)
Stop ==
    /\ cen' = FALSE /\ nvic' = FALSE
    /\ UNCHANGED <<device, cnt, arr, single, uie, uif, past>>

(* HWTIMER_CTRL_MODE_SET *)
SetMode(m) ==
    /\ mode' = m
    /\ UNCHANGED <<opened, freq, cycles, reload, overflow, tim, past>>

(* HWTIMER_CTRL_FREQ_SET: the update it generates restarts the counter and  *)
(* sets the flag.                                                           *)
FreqSet(f) ==
    /\ uif \/ extra < MaxExtra
    /\ freq' = f
    /\ cnt' = 0 /\ uif' = TRUE
    /\ extra' = (IF uif THEN extra ELSE extra + 1) /\ restarted' = TRUE
    /\ UNCHANGED <<opened, mode, cycles, reload, overflow, cen, arr, single, uie, nvic,
                   elapsed, fired, shot, lost, writes>>

(* The counter, which does not run with an auto-reload value of 0. *)
Tick ==
    /\ cen /\ arr > 0
    /\ elapsed' = Inc(elapsed)
    /\ IF cnt < arr
       THEN /\ cnt' = cnt + 1
            /\ UNCHANGED <<cen, uif, lost>>
       ELSE /\ cnt' = 0
            /\ uif' = TRUE
            /\ lost' = (lost \/ uif)
            /\ cen' = ~single
    /\ UNCHANGED <<device, arr, single, uie, nvic, fired, shot, extra, restarted, writes>>

(* TIMx_IRQHandler and rt_device_hwtimer_isr: clears the flag, counts the   *)
(* overflow and, when cycles is used up, indicates the timeout; in ONESHOT  *)
(* mode the timer is stopped first.                                         *)
IsrBy(left, last, halt) ==
    /\ uif /\ uie /\ nvic
    /\ uif' = FALSE
    /\ overflow' = Inc(overflow)
    /\ IF last
       THEN /\ cycles' = reload
            /\ fired' = Inc(fired)
            /\ shot' = (shot \/ mode = "oneshot")
            /\ IF halt THEN cen' = FALSE /\ nvic' = FALSE
                       ELSE UNCHANGED <<cen, nvic>>
       ELSE /\ cycles' = left
            /\ UNCHANGED <<fired, shot, cen, nvic>>
    /\ UNCHANGED <<opened, freq, mode, reload, cnt, arr, single, uie, elapsed,
                   extra, restarted, lost, writes>>

LeftUnchecked == cycles - 1
LeftAfter == IF cycles = 0 THEN 0 ELSE cycles - 1
IsrFirst == IsrBy(LeftAfter, TRUE, mode = "oneshot")
IsrRunsOn == IsrBy(LeftAfter, LeftAfter = 0, single)
Isr == IsrBy(LeftAfter, LeftAfter = 0, mode = "oneshot")

Next ==
    \/ Open
    \/ Close
    \/ \E T \in Timeouts : Write(T)
    \/ Stop
    \/ \E m \in Modes : SetMode(m)
    \/ \E f \in Freqs : FreqSet(f)
    \/ Tick
    \/ Isr

(* The clock runs and pending interrupts are taken. *)
Spec == Init /\ [][Next]_vars /\ WF_vars(Tick) /\ WF_vars(Isr)

-----------------------------------------------------------------------------
(* Every variable has its type. *)
TypeOK ==
    /\ opened \in BOOLEAN /\ freq \in Freqs /\ mode \in Modes
    /\ reload \in Nat /\ cycles \in 0 .. reload
    /\ overflow \in 0 .. MaxTicks
    /\ cen \in BOOLEAN /\ arr \in 0 .. MaxCnt /\ cnt \in 0 .. arr
    /\ {single, uie, uif, nvic, shot, restarted, lost} \subseteq BOOLEAN
    /\ elapsed \in 0 .. MaxTicks /\ fired \in 0 .. MaxTicks
    /\ extra \in 0 .. MaxExtra /\ writes \in 0 .. MaxWrites

(* A timeout below one tick, and one too long, has no cycles, and ends with *)
(* the first.                                                               *)
Parts == IF reload = 0 THEN 1 ELSE reload

(* No timeout is indicated before all the cycles it was split into have     *)
(* run, however interrupts, stops, mode and frequency changes interleave:   *)
(* k timeouts take k times their cycles.  Each update that was no overflow  *)
(* (the one that an open leaves for the first start, a FREQ_SET) makes up   *)
(* for one cycle, and for no more.                                          *)
NotEarly ==
    elapsed < MaxTicks => elapsed >= (fired * Parts - extra) * (arr + 1)

(* A ONESHOT timeout is the last: the timer rests, whatever its mode is set *)
(* to, until it is written to or opened again, also when the timeout took   *)
(* several cycles and the counter was in repeat mode.                       *)
OneShotRests == shot => ~cen /\ ~nvic

(* What rt_hwtimer_read reads, in ticks. *)
ReadTicks == (IF mode = "oneshot" THEN 0 ELSE overflow) * (arr + 1) + cnt

(* In PERIOD mode the overflows the interrupt counted and the counter       *)
(* account for every tick since the start, with no overflow counted twice   *)
(* or missing, unless an update is pending (which the read does not look    *)
(* at) or was lost, or the counter was restarted.  A start that found the   *)
(* flag set is ahead by one cycle for good.                                 *)
ReadIsElapsed ==
    nvic /\ uie /\ mode = "period" /\ ~uif /\ ~restarted /\ ~lost
        /\ elapsed < MaxTicks /\ overflow < MaxTicks
            => ReadTicks = elapsed + extra * (arr + 1)

(* A timer that was started indicates its timeout, unless it is stopped,    *)
(* closed or started anew, and unless its cycle is a single tick, with      *)
(* which the counter does not run.                                          *)
TimeoutComes ==
    \A w \in 1 .. MaxWrites :
        (writes = w /\ cen /\ nvic /\ arr > 0 /\ fired = 0)
            ~> (fired > 0 \/ ~nvic \/ writes # w)
=============================================================================
