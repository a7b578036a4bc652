# A TLA+ verification project for the N32L43x board support package

The repository is the board support package of the Nations N32L43x
microcontroller under RT-Thread 5: the project's own drivers (`drivers/`), a
small application (`applications/main.c`), the vendored kernel with its device
framework (`rtos/rt-thread/`) and the vendored register library (`firmware/`).
The meson build compiles four of the drivers: `board.c`, `drv_gpio.c`,
`drv_pm.c` and `drv_usart.c`. They are the core of this project, together with
the framework code that drives them (`dev_pin.c`, `dev_serial.c`, `device.c`,
`shell.c`, `pm.c`, `lptimer.c`), because the behaviour that is hard to get right
lies between the two: an interrupt routine of the driver calls the framework,
the framework calls back into the driver from threads. Around the core are two
drivers that are compiled when an application configures them, CAN and the
hardware timers, each again with its framework, and the kernel mutex that the
bus drivers and the framework lock with.

The system has one processor. Concurrency is threads that preempt each other
and interrupts that preempt threads; a piece of code is atomic exactly where it
runs with interrupts disabled, and that is where the modules draw the line
between one action and the next.

## Inventory

| Component | State | Operations | Interacts with | Hard behaviour |
|---|---|---|---|---|
| Pin interrupts, `drv_gpio.c` | callback table, enable mask, EXTI and NVIC registers | attach, detach, enable, disable, five vectors | threads and callbacks call it; edges at any time | 16 lines shared by all ports, vectors shared by lines, edges during callbacks |
| Receive ring, `dev_serial.c` | buffer, two indices, full flag | push (interrupt), pop (thread) | service routine and readers | wrap, overwrite at the limit |
| Serial devices, `dev_serial.c`, `device.c`, `drv_usart.c` | ring pointer, open flags, reference count, interrupt enable | init, open, close, read, service routine | shell, console, application, USART | order of enable and allocate, re-open with other flags, wake-up of the reader |
| Shell input and console, `shell.c`, `kservice.c` | input device, semaphore, console device | `finsh_set_device`, `finsh_getchar`, `finsh_rx_ind`, `rt_console_set_device` | serial devices | sleeping on a byte that is there, switching devices |
| Power manager, `pm.c` | request counts, module table, busy flags, run mode, device list, notify | request/release in four flavours, run mode, register, idle pass | threads and interrupts request, idle thread decides, devices and application are told | requests between the idle thread's steps, saturation, partial failure |
| Tickless sleep, `drv_pm.c`, `lptimer.c`, `pm.c` | tick, remainder, timers, LPTIM, busy delays | timer start/stop, sleep, wake-up, tick compensation | kernel timers, LPTIM | wrap of the tick, 32-bit products, early wake-up, rounding |
| CAN, `drv_can.c`, `dev_can.c` | send boxes, their semaphore and completions, three mailboxes, error state | send, receive, control, four interrupts | writing threads, the bus | completion before the wait, box given back while its frame is retransmitted, error attributed to a mailbox |
| Hardware timers, `drv_hwtimer.c`, `hwtimer.c` | mode, cycles, overflow count, TIM registers | open, close, write, read, stop, mode, frequency, interrupt | application, TIM | timeouts of several cycles split in floating point, flags left over, overflow that races a read |
| Kernel mutex, `ipc.c`, `thread.c` | owner, hold count, waiting list, inherited priority, ceiling | take, release, set ceiling, timeout, exit, detach | all threads, the scheduler, the tick | chains of owners, timeout between leaving the list and running, death of owners and waiters |
| I2C, SPI, RTC, LPUART, ADC, DAC, watchdog | little or none | polled transfers | device framework | not compiled |
| Rest of the kernel, register library | – | – | everything | vendored; modelled where the drivers meet it |

What makes each modelled component correct:

* pins: a client's callback runs for its own pin's edges, once per edge, is not
  silenced by what other clients do, and a latched edge is served;
* ring: bytes come out in order, once, and only the oldest are lost;
* serial devices: the service routine never runs without a ring; users are
  counted; the receive path is whole or absent; the reader is woken;
* power manager: no sleep is deeper than a request allows; whoever was told of a
  sleep is told of its end; a change of the run mode is applied;
* tickless sleep: no sleep carries the tick past a timer, delays hold, a sleep with a
  timer ends;
* CAN transmission: a send box has one user, a frame reported sent was sent, the
  interrupts stay within the boxes, every write returns;
* hardware timers: the cycles programmed last about as long as the timeout asked for,
  no timeout comes before they have run, none is missing, a one-shot timer rests
  afterwards, a read tells the time;
* mutex: no thread waits behind one of lower priority than its own, what was
  inherited is given back, and the mutex goes to the highest waiter.

`PROJECT.json` lists the hazards, each at its line, with the properties that
would catch it.

## Modules

| Module | Models |
|---|---|
| `PinIrq` | `drv_gpio.c`, interrupts only |
| `MCPinIrq` | the pins of its TLC instance |
| `PinIrqProofs` | theorems about `PinIrq` |
| `RxFifo` | `struct rt_serial_rx_fifo` and its operations, as operators |
| `LossyQueue` | abstract: a queue that loses its oldest element |
| `SerialRx` | the ring between service routine and reader; refines `LossyQueue` |
| `SerialRxProofs` | theorems about `SerialRx` |
| `SerialConsole` | serial devices, shell, console and an application; its ring is the length of `LossyQueue` |
| `SerialConsoleProofs` | theorems about `SerialConsole` |
| `PmModes` | `pm.c`: requests, selection of the mode, devices, run mode |
| `PmModesProofs` | theorems about `PmModes` |
| `PmTickless` | time across sleep: `drv_pm.c`, `lptimer.c`, the tick |
| `MCPmTickless` | the periods of its TLC instance |
| `PmTicklessProofs` | theorems about `PmTickless` |
| `CanTx` | sending: `_can_int_tx`, semaphore, completion, `sendmsg`, two interrupts |
| `CanTxProofs` | theorems about `CanTx` |
| `HwTimer` | `hwtimer.c` over `drv_hwtimer.c` and the TIM, for any split of a timeout |
| `TimeoutCalc` | `timeout_calc` and the conversion of `rt_hwtimer_read`, in floating point |
| `MCHwTimer` | `HwTimer` with the splits of `TimeoutCalc`, and what those promise |
| `HwTimerProofs` | theorems about `HwTimer` |
| `Mutex` | the mutex of `ipc.c`, and `thread.c` where it touches mutexes |
| `MCMutex` | the priorities of its TLC instance |
| `MutexProofs` | theorems about `Mutex` |

In the modules that are mutated a definition such as `Enable` is an instance of
a parametric one (`EnableLine`), and the lines above it define its mutants:
the same operation with a plausible mistake. They are used by nothing else.

### PinIrq

`hdrTab` is `pin_irq_hdr_tab`, `enableMask` is `pin_irq_enable_mask`; `nvicEn`
and the four `exti...` variables are the register bits the driver sets. A driver
call runs with interrupts disabled and is one action. A service routine
(`IsrEnter`, `IsrScan`, `IsrReturn`) takes its lines one by one; edges arrive
between its steps and while a callback runs, and a callback may call the driver.
`EnableUnknownMode` is the early return that leaves interrupts disabled
(`primask`). Three history variables serve the properties: the pin whose edge is
latched, the lines with an edge since their last callback, and the lines on which
a client broke the protocol (calling for a pin other than the one attached,
enabling an enabled line, detaching one that is enabled). The hardware (edges,
`EXTI_GetITStatus`) is marked external.

### RxFifo, SerialRx, LossyQueue

A byte is its number in the order of arrival, so "in order, none twice" is
visible in the numbers. The refinement maps the ring to the interval of numbers it
holds. `BufSz` is at least 2: with one slot `rx_length` is always 0.

### SerialConsole

`rx`, `openFlag`, `ref`, `active` are the fields of the device; `ie` stands for
`RXDNEIEN` together with the NVIC channel; `dr` is the receiver's one-byte
register. `rt_device_open` and `rt_device_close` are `op`, a call in progress with
its program counter, so that interrupts fall between creating the ring and
enabling the interrupt (`OpenDev`, `OpenInt`) and between disabling it and
freeing the ring (`CloseClrInt`, `CloseFree`). `set` is a call of
`finsh_set_device` in progress: by the shell thread (at boot, for the console's
device at that time, or from a command) or by any other thread at any time, the
wait in `finsh_getchar` included. Its steps are those of the code: open the new
device, close the old one, take `rx_indicate` from it, change `shell->device`,
give `rx_indicate` to the new one. The shell's program counter follows
`finsh_getchar`, which looks up the device again after every wait; the semaphore
is a bounded number.

A ring is the number of bytes it holds, at most `Cap` (one below its size): that is
`LossyQueue`, which `SerialRx` implements, without the content of the bytes. Bytes
may be overrun in `dr`. Opens and closes of different threads do not overlap, nor
do two calls of `finsh_set_device`, and a read does not overlap a close: the code
takes no lock in any of them, so it makes the same assumption.

### PmModes

One action for each call of `pm.c`, and three steps for the idle thread: frequency
scaling, everything `_pm_change_sleep_mode` does up to the sleep, and everything
after it. The last two are atomic because interrupts are disabled. Which busy delays have expired, how near the
next timeout is and which devices refuse to suspend are inputs. The device list
counts the entries of each device: `rt_pm_device_register` appends without looking,
and `rt_pm_device_unregister` removes one. These two and `rt_pm_notify_set` do not
disable interrupts; two of them at once are left out. `owed` and
`saturated` are history: the requests not yet released, and the modes whose 8-bit
count has left one out. `rt_pm_run_enter` accepts `PM_RUN_MODE_MAX`, as the code
does.

### PmTickless

`tick` wraps at `TickMod` (2^32 in the code), `remain` is `os_tick_remain`,
`lptim` the autoreload value the LPTIM was started with. The selected mode is an
input of `Sleep`; the cap of a busy module, the threshold, the nearest timer, the
wrapping product, the division and the clamp are the code's. A wake-up reads some
count of the LPTIM and gives it back to the tick.

`Freq` is the driver's `freq = 1000`, and not the rate of the LPTIM, which counts
the LSI undivided: 40000 Hz by `drv_wdt.c:19`, 41828 Hz by `drv_rtc.c:186`. A count
is therefore no measure of time, and the model says nothing about how long a sleep
lasts or how the tick compares with real time: on the board a sleep is some forty
times shorter than its timeout. What it does say, that no sleep carries the tick
past a timer, is about the numbers the code computes and holds for any rate.

`lsi` is the oscillator. `rt_pm_hw_init` switches it on, and the watchdog and the RTC
driver switch it on and off without regard for the LPTIM (`RCC_EnableLsi`; neither
driver is in the default build). Without it, or with an autoreload value of 0, which
the register library forbids and the wrapping product can produce, no wake-up by the
LPTIM is assumed. The interrupt is the compare match with 0; at which count it comes
the library does not say, so `LptimWake` may read any.

### CanTx

A thread's program counter follows `_can_int_tx`: token of the semaphore, box
from the free list, `rt_completion_init`, `sendmsg`, `rt_completion_wait`, result
and box back, token back. A step ends where interrupts are enabled again, so both
interrupt routines fall between any two. `comp` is the word `susp_thread_n_flag`:
empty, done, or the thread that waits. A frame is known by its sender; the
controller (`Transmit`, `AckError`, external) sends in the order of the requests,
as `TXFP = ENABLE` has it, and keeps a frame nobody acknowledged. A write of
several frames is several writes here: the loop has no state between them. The
exception that `OkMeansSent` makes is a fact of the code: the error interrupt ends
the wait although `NART = DISABLE` makes the controller try again, so the box goes
back with a frame in its mailbox. Its next user is refused, or takes the old
frame's end for its own; `tainted` marks those users.

### HwTimer, TimeoutCalc

Time is counted in ticks of the counter. `freq`, `cycles`, `reload`, `overflow` and
`mode` are the fields of `struct rt_hwtimer_device`; `cen` to `nvic` are register
bits. A write is one step, because its first act disables the interrupt and its last
enables it. What `timeout_calc` makes of a timeout and a frequency is the parameter
`Splits`: `HwTimer` and its theorems hold for any arithmetic. Histories: ticks and
timeouts since the write; `extra`, the updates that set the flag and were no overflow
of this start (the `FREQ_SET` at the end of `rt_hwtimer_open`, later ones, or an
overflow before the write; `n32_hwtimer_start` does not clear the flag); `restarted`,
a `FREQ_SET` since the write; `lost`, the counter overflowed while the flag was set;
`shot`, a timeout was indicated in one-shot mode. An auto-reload value of 0, which a
timeout of one tick or less leads to, keeps the counter from running.

`TimeoutCalc` computes as the code does, in binary floating point: every operation
rounds to the nearest number of `FloatBits` bits, ties to even, and a product inside a
sum may be fused with it, as the compiler is free to do. `Split` says what the loop
of `timeout_calc` ends with, from the rounded deviations: the first number of cycles
without one, or the best before the first that is worse; a timeout of more seconds than
the counter has values leaves `index` at 0, and the division by 0 saturates the
conversion. With 24 bits TLC's integers are too small for the products, so the run has
a format of 6 bits, where the effects are more frequent; the code's cases (251 us at
1 MHz give 250 ticks in one cycle, 255 us three cycles of 85) come from the same steps.

### Mutex

`curr`, `stat`, `pending` are fields of a thread, `owner`, `hold`, `prio`,
`ceiling`, `susp` those of a mutex. Only a ready thread of the highest priority
takes a step (`Runs`), which is what makes a timed wait interesting: the tick
takes the waiter off the list at once (`Timeout`), but its priority is withdrawn
only when it runs again (`TakeTimedOut`). `Round` is one turn of the loop of
`_thread_update_priority` and `UpdatePriority` iterates it, `Turns` times: the code's
loop has no bound, and `LoopEnds` shows that it never needs more. `leaked` marks an owner
that keeps an inherited priority because the waiter that withdraws has meanwhile
another one and the code compares the two; the priority is right again with the
next change. `Detach` (also `rt_thread_delete`) of an owner by another thread
leaves the mutex with the dead thread, as the code does: `rt_mutex_release`
refuses a caller that is not the owner. `InOrder` is the application's side: takes
without a timeout are in the order of the mutexes' numbers, takes with one are not,
so that cycles of owners do arise and `_thread_update_priority` has to end on them.

## Runs

| Run | Instance | Result |
|---|---|---|
| `pin_irq` | pins A5, B5, A6; three modes | passes |
| `pin_disable` | the same, rising edges | `DisabledPinSilent` violated |
| `rx_fifo` | ring of 5, 24 bytes | passes |
| `console` | two devices, rings of two bytes, one console switch | passes |
| `console_switch` | rings of one byte, up to four switches | `IsrAssertion` violated |
| `pm_modes` | modes NONE and LIGHT requested, counts saturate at 2 | passes |
| `pm_default` | with IDLE requested too | `DefaultWhenNoRequest` violated |
| `pm_tickless` | tick wraps at 14, 3 counts against 2 ticks a second | passes |
| `pm_autoreload` | equal rates, as in the code | `AutoreloadAboveCompare` violated |
| `mutex` | three threads, two mutexes, a ceiling above all | passes |
| `can_tx` | three threads, two boxes, three mailboxes | passes |
| `hwtimer` | counter up to 3, floats of 6 bits, two frequencies | passes |

Properties of the passing runs:

* `pin_irq`: `VectorFollowsMask` (disabling one line of a shared vector silences
  no other, the last one turns it off), `EnabledCallbackForOwnPin` (no callback for
  an edge latched for another port), `OneCallPerEdge`, `EdgeServed` (liveness).
* `rx_fifo`: `Content` (the ring holds the newest bytes in order), `ImplementsQueue`
  (refinement of `LossyQueue`).
* `console`: `IsrHasFifo` (the service routine's assertion), `RefsAreUsers`,
  `RxPathWhole` (interrupt, ring and flag together), `NoLostWakeup` (liveness: a
  byte received while the shell's `rx_indicate` is set is followed by a read, or its
  device is changed). All
  but `RefsAreUsers` except devices that were opened without `INT_RX` while they had
  a ring (`bare`): `console_switch` shows why.
  `NoLostWakeup` leaves out one more case, in which the code does lose the wake-up: a
  byte that arrives after `finsh_set_device` of another thread has opened the device
  and before it has set `rx_indicate` lies in the ring until the next one.
* `pm_modes`: `SleepHonoursRequests`, `AwakeTogether`, `RunModePending`,
  `RunModeApplied` (liveness).
* `pm_tickless`: `LptimerOnTime`, `DelayHonoured`, `TimedSleepEnds` (liveness; sleeps
  without the LSI or with autoreload 0 excepted).
* `mutex`: `Inheritance` (an owner runs at least at the priority of each waiter),
  `PriorityRestored` (a thread that holds nothing has its own priority, `leaked`
  excepted), `HandOffToHighest` (an action property).
* `can_tx`: `BoxesNotShared` (the assertion of `completion_up.c` that only one thread
  waits is part of it), `OkMeansSent`, `FailIndexInRange` (the unchecked index into
  `tx_fifo->buffer`), `SenderReturns` (liveness).
* `hwtimer`: `NotEarly` (k timeouts take k times the cycles programmed, less one cycle
  for each update that was no overflow), `OneShotRests`, `ReadIsElapsed` (in ticks of the
  period programmed), `TimeoutComes` (liveness); and of the arithmetic, over all inputs
  of a bounded range, `TimeoutClose` (the cycles fit the counter and last as long as
  the timeout but for the ticks cut off and the roundings) and `ReadClose` (so does
  the time a read tells).

Each has a mutant in `PROJECT.json` that violates it.

What the four violations show:

* `pin_disable`: after `PIN_IRQ_DISABLE` on one line of a shared vector the callback
  of that line keeps running while a sibling is enabled.
* `console_switch`: a console switched to the shell's device and away again leaves
  the receive interrupt enabled with no ring; the next byte hits
  `RT_ASSERT(rx_fifo != RT_NULL)`.
* `pm_default`: `rt_pm_default_set` does not set the mode used when there is no
  request.
* `pm_autoreload`: for a timeout whose product with `freq` wraps to a small number
  the LPTIM is started with autoreload 0, not above the compare value. The wake-up
  is early, never late: `TimersOnTime` is proved with the wrap in it.

### Bounds

* Pins: three pins suffice for a line contested by two ports and a vector with two
  lines; vectors do not interact otherwise. `HIGH_LEVEL` stands for both level modes,
  one handler for all (a callback is told apart by its table entry). The theorems
  hold for all pins.
* Ring: five slots, 24 bytes: every combination of indices, with wraps of both
  and discards. The theorems hold for every size.
* Console: `SemMax = 1` so that the semaphore's limit is met, `Cap = 2` so that the
  ring's is; `MaxSwitch` bounds the calls of `rt_console_set_device`; those of
  `finsh_set_device` have no bound.
* `CountMax = 2` puts the saturation of the counts within reach, `MaxOwed = 3` one
  request beyond it; `MaxListed = 2` lets a device be registered twice.
* `TickMod = 14` with periods 4 and 5 wraps the tick in every position; `LptimMax = 5`
  is below the longest timeout in LPTIM ticks, as 65535 is in the code; 3 against 2
  makes remainders non-trivial; thresholds 2 and 3 let all three outcomes happen.
* Mutex: three threads and two mutexes are the smallest instance with a chain of
  two owners, two waiters on one mutex and a timeout between them; `HoldMax = 2`
  reaches nested takes.
* CAN: more threads than boxes, so that the semaphore is waited for; fewer boxes than
  mailboxes, so that an index out of range exists. A configuration with as many
  boxes as mailboxes has fewer cases.
* Hardware timer: with the counter up to 3 the timeouts 6 and 7 take several cycles
  with a remainder, 3 takes one, 0 is below a tick and 160 too long. Two writes let the
  second meet what the first left, two frequencies give them different splits.
  `MaxTicks = 13` is where the counts of ticks, overflows and timeouts stop; the
  properties about them are claimed below it. `MaxExtra = 2` bounds the `FREQ_SET`s that
  set the flag. `TimeoutClose` and `ReadClose` take all timeouts up to 40 units
  at three frequencies and up to six seconds of a slow timer, both ways of fusing, and
  reads after up to three overflows.

### Fairness

* `PinIrq`: a pending enabled interrupt is taken, the routine runs, a callback
  returns. No fairness for clients and edges.
* `SerialConsole`: interrupts are taken (weak); the routine leaves its loop, since a
  byte takes longer on the line than a turn of the loop; the shell thread gets the
  processor again and again, because the application's threads block between their
  calls and interrupts are short. The last two are strong fairness, as interrupts and
  other threads disable those steps again and again. None for bytes, or for a call of
  open, close or `finsh_set_device` in progress.
* `PmModes`: the idle thread runs whenever the others block, and every sleep ends
  (the tick in IDLE and LIGHT, the LPTIM in DEEP).
* `PmTickless`: an LPTIM started with an autoreload value above 0 interrupts while the
  LSI runs. That is the hardware's part, taken from the library's documentation. No
  other interrupt is promised.
* `CanTx`: threads inside a write run, a frame that is retransmitted is acknowledged
  in the end, the transmit interrupt is taken. None for new writes, for errors of the
  bus, or for the error interrupt.
* `HwTimer`: the clock ticks and a pending enabled interrupt is taken.
* `Mutex`: none; its properties are safety properties.

## Proofs

All proofs are checked by TLAPS with Z3, Zenon and, for the temporal steps, LS4.
Each theorem holds for every value of the constants that satisfies the
assumptions named in the modules, which TLC evaluates on its runs. The
assumptions are ranges (a counter is at least 1, a bound is a number), the code's
own assertions (the upper bound of `PeriodAssumption` is the one of `rt_timer_init`,
`timer.c:277`; that a period is at least one tick is ours) and that the
values standing for "no object" are none of the objects (`NoneAssumption`,
`ThreadsAssumption`). TLC has checked every inductive invariant below before it
was proved.

* `PinIrqProofs`: `VectorsFollowClients`, `CallbackForOwnPin`, `NoSecondCall`,
  `TypeCorrect`. `EnabledCallbackForOwnPin` is an action property and needs the
  invariant `IInv`: the types; every entry of the table is for a pin of its line; and
  for a line enabled and not misused the port selected, the trigger and the pin
  latched are those of the table (`Selected`). The first keeps the others meaningful,
  the last is what the enable establishes by clearing the pending bit. `NoSecondCall`
  needs a second one: a line pending outside its own callback has a fresh edge.
* `SerialRxProofs`: `RingInvariant` (`Spec => [](TypeOK /\ Content)`), `TypeCorrect`
  and `RingImplementsQueue`. `Content` is inductive with the types; the proof of a
  push splits on whether the put index wraps and whether it meets the get index. The
  refinement maps a push and a pop to the abstract steps by the change of `Length`.
* `SerialConsoleProofs`: `IsrFindsFifo`, `ReceivePathWhole`, `ReferencesAreUsers`,
  `TypeCorrect`. The properties speak of devices at rest; the invariant has to say
  what holds in the middle of an open or a close. `RxPath`: ring and flag are together
  always, the interrupt from the last step of the open until the close has disabled it. `CallState`: whose call is in
  progress, on which device, and what its caller has in hand (`finsh_set_device`
  between the open of the new device and the close of the old one holds both). `RefsHeld`: every
  reference has a holder, and a close has given its own up only after the decrement.
  `RefsOpen`: what has a reference is open, what is torn down has none.
* `PmModesProofs`: `RequestsHonoured`, `DevicesResumed`, `RunModeNotLost`,
  `TypeCorrect`. `SleepHonoursRequests` is about requests (`owed`), the code about
  8-bit counts: `CountsAreOwed` ties them, but for the modes whose count saturated.
  `SelectedMode` says that the scan of `_pm_select_sleep_mode` finds a mode no deeper
  than any request, `EnteredMode` that cap and threshold only make it lighter.
  `AwakeTogether` needs `SuspendedListed`: a suspended device is in the list that the
  wake-up walks.
* `PmTicklessProofs`: `TimersOnTime`, `DelaysAreHonoured`, `TypeCorrect`. The
  invariant `TimeInv` adds to the types that every
  active timer lies ahead of the tick by less than half the range (`Ahead`; it is what
  makes the kernel's comparison `now - timeout < RT_TICK_MAX / 2` right), and that the
  LPTIM, in units common to counts and ticks, does not reach past any of them (`Reach`; the
  wrapping product, the division and the clamp can only shorten it). From `Reach` and a
  remainder below `Freq` the ticks given back never exceed the distance of the nearest
  timer. For the delays, `Delayed`: the wrapped difference that `_pm_device_check_idle`
  computes and the ticks still left make up the timeout; it survives any jump of the
  tick shorter than what is left, so the difference never goes round.
* `CanTxProofs`: `NoBoxShared`, `SuccessIsSent`, `FailIndexSafe`, `TypeCorrect`. Tokens
  and boxes are counted: the semaphore and the threads with a token make up the boxes
  (`Tokens`), so do the free list and the threads with a box (`BoxesCounted`); hence a
  thread with a token finds a box. `Queued` keeps the semaphore's queue free of
  repetitions. `FramesOwned` and `BoxAtRest` follow a frame: it is in the mailbox of
  its sender's box while the sender waits, and that box reports no success before the
  frame has left. `ErrorOfFrame` is what `FailIndexInRange` needs: an error is one of
  a frame in a mailbox, and a mailbox is a box.
* `HwTimerProofs`: `NoTimeoutEarly`, `OneShotIsLast`, `ReadTellsTime`, `TypeCorrect`,
  for every set of splits, so for single precision as for any other arithmetic.
  `Counted`: the ticks since the write are at least those of the overflows, the pending
  one included, and of the counter, and just these when none was lost; the overflows,
  with the updates that were none (`extra`), are those of the timeouts indicated and of
  the cycles used since. `Quiet`: a timer that was not started since it was opened
  neither counts nor interrupts, so what a close and an open reset does not matter.

* `MutexProofs`: `OwnersInherit`, `InheritedGivenBack`, `HandedToHighest`, `LoopEnds`,
  `TypeCorrect`. `Inheritance` relates owner and waiter, which no operation of the code
  does at once: the owner follows the mutex's priority (`Inherits`), the mutex its
  waiters (`Highest`), and the mutex's priority is that of the first of the list, so
  the list has to be sorted (`Ordered`). `PriorityRestored` needs `Restores`: a
  priority above the thread's own has a reason, the priority or the ceiling of a mutex
  it holds. In the loop of `_thread_update_priority` all this holds but for the thread
  whose priority is new, and a round passes that exception on to the owner (`Loop`,
  `RoundKeeps`). That the loop ends, also on a cycle of owners, is a count: the
  priorities it gives never get lower along the way, and a thread it comes back to must
  change, so no pair of a thread and a priority comes twice, and there are `Turns`
  pairs (`Visited`, `LoopEnds`). The induction over the rounds is one over a set of
  numbers without a least counterexample (`UpTo`), which needs no operator as a
  parameter; it also shows that the recursive function `Chain` exists.

Only model-checked: the liveness properties, which need fairness and are out of the
prover's reach, and what the floating-point arithmetic computes (`TimeoutClose`,
`ReadClose`), which is a fact about bounded inputs. Every other invariant and every
action property that a passing run checks is proved.

## Not modelled

* Pin mode, read and write, and pin names: single register accesses.
* Transmission on serial devices: `n32_putc` polls, and no state is kept. DMA,
  bypass and the POSIX layer are not configured.
* Line editing and commands of the shell.
* Overlapping opens and closes of one device by two threads, overlapping calls of
  `finsh_set_device`, and a read that overlaps a close.
* The duration of a count of the LPTIM, and so how long a sleep lasts.
* Clock-tree sequences of `drv_pm.c` (`set_sysclock_to_pll`, `n32_pm_device_run`).
* CAN: reception and its list, hardware filters, private mode, the controls, open and
  close. Errors other than a missing acknowledgement only change counters.
* Hardware timers: the prescaler, and counting down, which the driver does not offer.
  The arithmetic is checked in a format of fewer bits than single precision.
* Mutexes: `rt_mutex_delete` and `rt_mutex_detach`, and `rt_thread_control` with
  `RT_THREAD_CTRL_CHANGE_PRIORITY`, which changes the priority of a waiting thread
  without a word to the mutex. At a hand-over the new owner does not rise to the
  ceiling; that is in the model, and no property says otherwise.
* I2C, SPI, RTC, LPUART, ADC, DAC, watchdog: see the inventory. Of the RTC and the
  watchdog only their switching of the LSI is in `PmTickless`.
* The rest of the kernel: events, mailboxes, message queues, memory, the context
  switch, multiprocessor scheduling.
* Everything else under `rtos/` and `firmware/`: file systems, network stacks, USB,
  the lightweight processes, data tables, register headers. It is vendored, nearly
  none of it is compiled for this board, and it is almost all of the repository's
  950 000 lines; the modelled lines are a fraction of a percent of that, and the
  larger part of the stateful code of the drivers and their frameworks.

## Plan

Done: pins; ring with its abstract queue; serial devices, shell and console; power
manager; tickless sleep; CAN transmission; hardware timers; the kernel mutex; the
theorems above.

Next, in this order:

1. Overlapping open and close of two threads in `device.c`.
2. CAN reception with its free list; calendar conversions of the RTC as operators.
