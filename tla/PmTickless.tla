----------------------------- MODULE PmTickless -----------------------------
(***************************************************************************)
(* Time across sleep: drivers/drv_pm.c (the LPTIM wake-up timer and the    *)
(* tick conversions) under _pm_change_sleep_mode of pm.c, the low-power    *)
(* timers of lptimer.c and the busy delays of the modules.                 *)
(*                                                                         *)
(* The idle thread runs _pm_change_sleep_mode with interrupts disabled, so *)
(* what it does before the processor sleeps is one action and what it does *)
(* after it wakes is another.  The mode the requests select is an input:   *)
(* PmModes models how it is chosen.  Ticks are kept modulo TickMod, as     *)
(* rt_tick_t keeps them modulo 2^32.                                       *)
(*                                                                         *)
(* The driver converts with a rate of 1000 counts a second, while the      *)
(* LPTIM counts the LSI undivided, at some 40 kHz.  So a count is no       *)
(* measure of time here: everything is said in ticks and counts, and       *)
(* nothing about how long a sleep lasts.                                   *)
(***************************************************************************)
EXTENDS Integers, FiniteSetsExt

CONSTANTS
    TickMod,         \* 2^32, RT_TICK_MAX + 1
    Freq,            \* freq of drv_pm.c: 1000, which is not the rate of the LSI
    TicksPerSecond,  \* RT_TICK_PER_SECOND
    LptimMax,        \* LPTIM_REG_MAX_VALUE
    LightTime,       \* PM_LIGHT_THRESHOLD_TIME
    DeepTime,        \* PM_DEEP_THRESHOLD_TIME
    Timers,          \* low-power timers
    Period,          \* init_tick of each timer
    Periodic,        \* timers with RT_TIMER_FLAG_PERIODIC
    MaxModule,       \* PM_MODULE_MAX_ID - 1
    Delays,          \* timeouts passed to rt_pm_module_delay_sleep
    Off              \* a stopped timer, an LPTIM that does not run

RT_TICK_MAX == TickMod - 1
Ticks == 0..RT_TICK_MAX
Modules == 0..MaxModule

ASSUME ClockAssumption ==
    /\ TickMod \in Nat \ {0}
    /\ Freq \in Nat \ {0}
    /\ TicksPerSecond \in Nat \ {0}
    /\ LptimMax \in Nat
    /\ LightTime \in Nat /\ DeepTime \in Nat
    /\ MaxModule \in Nat
    /\ Delays \subseteq Ticks
    /\ Off \notin Int
\* The upper bound is RT_ASSERT(time < RT_TICK_MAX / 2) of rt_timer_init, the
\* lower one is an assumption on the callers: a timer of period 0 is due at once.
ASSUME PeriodAssumption == Period \in [Timers -> 1..(RT_TICK_MAX \div 2 - 1)]

\* Sleep modes.
NONE == 0
IDLE == 1
LIGHT == 2
DEEP == 3
SleepModes == 0..5   \* with STANDBY and SHUTDOWN
HasTimer(mode) == mode = DEEP   \* timer_mask of rt_pm_hw_init

VARIABLES
    tick,      \* rt_tick
    remain,    \* os_tick_remain
    deadline,  \* timeout_tick of the activated low-power timers
    busy,      \* module_status: busy_flag, timeout and start_time
    asleep,    \* mode the processor sleeps in, NONE while it runs
    lptim,     \* autoreload value of the running LPTIM
    lsi,       \* the LSI, which clocks the LPTIM, is on
    \* History variable, read by the properties only.
    left       \* ticks for which each module's delay is still in force

vars == <<tick, remain, deadline, busy, asleep, lptim, lsi, left>>

NotBusy == [on |-> FALSE, timeout |-> 0, start |-> 0]

TypeOK ==
    /\ tick \in Ticks
    /\ remain \in 0..(Freq - 1)
    /\ deadline \in [Timers -> Ticks \cup {Off}]
    /\ busy \in [Modules -> [on : BOOLEAN, timeout : Delays \cup {0}, start : Ticks]]
    /\ asleep \in SleepModes
    /\ lptim \in 0..LptimMax \cup {Off}
    /\ lsi \in BOOLEAN
    /\ left \in [Modules -> Nat]

Init ==
    /\ tick = 0
    /\ remain = 0
    /\ deadline = [t \in Timers |-> Off]
    /\ busy = [i \in Modules |-> NotBusy]
    /\ asleep = NONE
    /\ lptim = Off
    /\ lsi = TRUE   \* rt_pm_hw_init
    /\ left = [i \in Modules |-> 0]

\* a - b in rt_tick_t
Minus(a, b) == (a + TickMod - b) % TickMod

-----------------------------------------------------------------------------
(* Calls of the threads, and the tick interrupt. *)

Running == asleep = NONE

rt_lptimer_start(t) ==
    /\ Running
    /\ deadline' = [deadline EXCEPT ![t] = (tick + Period[t]) % TickMod]
    /\ UNCHANGED <<tick, remain, busy, asleep, lptim, lsi, left>>

rt_lptimer_stop(t) ==
    /\ Running
    /\ deadline' = [deadline EXCEPT ![t] = Off]
    /\ UNCHANGED <<tick, remain, busy, asleep, lptim, lsi, left>>

rt_pm_module_delay_sleep(i, timeout) ==
    /\ Running
    /\ busy' = [busy EXCEPT ![i] = [on |-> TRUE, timeout |-> timeout, start |-> tick]]
    /\ left' = [left EXCEPT ![i] = timeout + 1]
    /\ UNCHANGED <<tick, remain, deadline, asleep, lptim, lsi>>

\* _timer_check at tick `now': the timers that are due run, and the periodic
\* ones start again.
TimerCheck(now) ==
    deadline' = [t \in Timers |->
        IF deadline[t] # Off /\ Minus(now, deadline[t]) < RT_TICK_MAX \div 2
        THEN IF t \in Periodic THEN (now + Period[t]) % TickMod ELSE Off
        ELSE deadline[t]]

\* rt_tick_increase_tick(n)
TickIncrease(n) ==
    /\ tick' = (tick + n) % TickMod
    /\ TimerCheck((tick + n) % TickMod)
    /\ left' = [i \in Modules |-> IF left[i] > n THEN left[i] - n ELSE 0]

SysTick ==
    /\ Running
    /\ TickIncrease(1)
    /\ UNCHANGED <<remain, busy, asleep, lptim, lsi>>

\* The watchdog and the RTC switch the LSI, whoever else uses it.
RCC_EnableLsi(on) ==
    /\ Running
    /\ lsi' = on
    /\ UNCHANGED <<tick, remain, deadline, busy, asleep, lptim, left>>

-----------------------------------------------------------------------------
(* _pm_change_sleep_mode until the processor sleeps. *)

\* Mutant: the end of the delay compared as a number.
ExpiredBySum(i) == tick > (busy[i].start + busy[i].timeout) % TickMod

\* The delay of a module is over.
Expired(i) == Minus(tick, busy[i].start) > busy[i].timeout

StillBusy == {i \in Modules : busy[i].on /\ ~Expired(i)}

\* _pm_device_check_idle clears the expired flags up to the first busy module.
CheckIdle ==
    busy' = [i \in Modules |-> IF \A j \in StillBusy : i < j THEN NotBusy ELSE busy[i]]

\* rt_lptimer_next_timeout_tick, as a distance from now.
NextTimeout ==
    LET active == {t \in Timers : deadline[t] # Off}
    IN  IF active = {} THEN Minus(RT_TICK_MAX, tick)
        ELSE Min({Minus(deadline[t], tick) : t \in active})

\* pm_get_sleep_threshold_mode for the one mode that has a timer.
ThresholdMode(timeout) ==
    IF timeout < LightTime THEN IDLE ELSE IF timeout < DeepTime THEN LIGHT ELSE DEEP

\* Mutant: rounded up.
PmTickRoundedUp(t) == (((t * Freq) % TickMod) + TicksPerSecond - 1) \div TicksPerSecond

\* The product wraps.
n32_pm_tick_from_os_tick(t) == ((t * Freq) % TickMod) \div TicksPerSecond

\* Mutants: a timeout beyond the register does not start the timer; it is not
\* brought within the register.
StartInRange(timeout) ==
    LET t == n32_pm_tick_from_os_tick(timeout)
    IN  IF timeout = RT_TICK_MAX \/ t > LptimMax THEN Off ELSE t
StartUnclamped(timeout) ==
    IF timeout = RT_TICK_MAX THEN Off ELSE n32_pm_tick_from_os_tick(timeout)

\* pm_timer_start: the autoreload value, or Off.
pm_timer_start(timeout) ==
    LET t == n32_pm_tick_from_os_tick(timeout)
    IN  IF timeout = RT_TICK_MAX THEN Off ELSE IF t > LptimMax THEN LptimMax ELSE t

Sleep(selected) ==
    LET capped == IF StillBusy # {} /\ IDLE < selected THEN IDLE ELSE selected
        mode == IF HasTimer(capped) THEN ThresholdMode(NextTimeout) ELSE capped
    IN  /\ Running
        /\ CheckIdle
        /\ asleep' = mode
        /\ lptim' = IF HasTimer(mode) THEN pm_timer_start(NextTimeout) ELSE Off
        /\ UNCHANGED <<tick, remain, deadline, lsi, left>>

-----------------------------------------------------------------------------
(* _pm_change_sleep_mode after the processor wakes. *)

\* Any interrupt ends the sleep of a mode without timer.
Wake ==
    /\ asleep # NONE /\ ~HasTimer(asleep)
    /\ asleep' = NONE
    /\ UNCHANGED <<tick, remain, deadline, busy, lptim, lsi, left>>

\* The ticks n32_os_tick_from_pm_tick returns.
n32_os_tick_from_pm_tick(count) == (count * TicksPerSecond + remain) \div Freq

\* pm_timer_get_tick and pm_timer_stop: `count' is read from the LPTIM; the ticks
\* are given back by rt_tick_increase_tick, when there are any, and the remainder
\* of all sleeps so far is left in os_tick_remain.
WakeAt(count) ==
    LET delta == n32_os_tick_from_pm_tick(count)
    IN  /\ HasTimer(asleep)
        /\ IF delta = 0 THEN UNCHANGED <<tick, deadline, left>> ELSE TickIncrease(delta)
        /\ remain' = (remain + count * TicksPerSecond) % Freq
        /\ lptim' = Off
        /\ asleep' = NONE
        /\ UNCHANGED <<busy, lsi>>

\* LPTIM_WKUP_IRQHandler's interrupt, the compare match with 0.  The library does
\* not say at which count it comes, and asks for an autoreload value above 0.
LptimWake ==
    /\ lptim # Off /\ lptim # 0 /\ lsi
    /\ \E count \in 0..lptim : WakeAt(count)

\* Another interrupt: the LPTIM has counted as far as it has, not at all if it was
\* not started or has no clock.
OtherWake == \E count \in 0..(IF lptim = Off \/ ~lsi THEN 0 ELSE lptim) : WakeAt(count)

-----------------------------------------------------------------------------
Next ==
    \/ \E t \in Timers : rt_lptimer_start(t) \/ rt_lptimer_stop(t)
    \/ \E i \in Modules, timeout \in Delays : rt_pm_module_delay_sleep(i, timeout)
    \/ SysTick
    \/ \E on \in BOOLEAN : RCC_EnableLsi(on)
    \/ \E selected \in SleepModes : Sleep(selected)
    \/ Wake
    \/ LptimWake
    \/ OtherWake

(***************************************************************************)
(* An LPTIM that was started with an autoreload value the library allows   *)
(* and has its clock interrupts some time: LptimWake asks for both.        *)
(* Nothing promises another interrupt.                                     *)
(***************************************************************************)
Spec == Init /\ [][Next]_vars /\ WF_vars(LptimWake)

-----------------------------------------------------------------------------
(* Properties. *)

\* A low-power timer is never late because of a sleep: it runs at its timeout
\* tick, and the tick never passes it, however the timers, the sleeps cut short
\* by other interrupts and the wrapping of the tick interleave (lptimer.c:105,
\* pm.c:424-452, drv_pm.c:222-286).
LptimerOnTime ==
    [][\A t \in Timers :
        (tick' # tick /\ deadline[t] # Off) =>
            IF tick' = deadline[t] THEN deadline'[t] # deadline[t]
            ELSE /\ deadline'[t] = deadline[t]
                 /\ Minus(tick', tick) < Minus(deadline[t], tick)]_vars

\* A module that asked to delay the sleep by some ticks is not put in a sleep
\* deeper than IDLE before they have passed, wherever the tick wraps and
\* whatever the other modules ask (pm.c:244-291, 381-388).
DelayHonoured == asleep > IDLE => \A i \in Modules : left[i] = 0

\* A deep sleep with a low-power timer active ends even if no other interrupt
\* comes: the LPTIM is running, also when the timeout is beyond its register
\* (drv_pm.c:260-286).  Excepted are a sleep entered with the LSI switched off
\* and one whose wrapped product is below one count, which programs an
\* autoreload value of 0.
TimedSleepEnds ==
    (asleep = DEEP /\ lsi /\ lptim # 0 /\ \E t \in Timers : deadline[t] # Off)
        ~> asleep = NONE

\* n32l43x_lptim.c: "autoreload value be strictly greater than the compare
\* value", which pm_timer_start sets to 0.
AutoreloadAboveCompare == lptim # Off => lptim > 0
=============================================================================
