---------------------------- MODULE SerialConsole ----------------------------
(***************************************************************************)
(* The serial devices in use: the USART receiver and drv_usart.c, the      *)
(* interrupt service routine and the open/close/read paths of dev_serial.c *)
(* and device.c, the finsh shell that reads its input device and blocks on *)
(* a semaphore, the console, and an application that opens and closes the  *)
(* same devices.                                                           *)
(*                                                                         *)
(* Threads interleave with the interrupt service routine between any two   *)
(* steps; the routine itself is not preempted (USART interrupts have       *)
(* priority 0, drv_usart.c:408).  Opens and closes of different threads do *)
(* not overlap, and neither do two calls of finsh_set_device: none of them *)
(* takes a lock.  A read is one step, so it does not overlap a close.      *)
(* All transmit paths poll and change no state that is kept here.          *)
(*                                                                         *)
(* The ring is LossyQueue, which SerialRx implements, reduced to the       *)
(* number of bytes it holds (rx_length of the service routine): this       *)
(* module asks who reads, never what.                                      *)
(***************************************************************************)
EXTENDS Integers, FiniteSets

CONSTANTS
    Cap,            \* bytes a ring holds: bufsz - 1
    Devs,           \* serial devices
    BootDev,        \* RT_CONSOLE_DEVICE_NAME: the first console
    SemMax,         \* RT_SEM_VALUE_MAX
    AppDevs,        \* devices the application opens
    MaxSwitch,      \* calls of rt_console_set_device after boot (a bound for TLC)
    None

ASSUME ConsoleAssumption ==
    /\ BootDev \in Devs /\ None \notin Devs /\ AppDevs \subseteq Devs
    /\ Cap \in Nat \ {0} /\ SemMax \in Nat \ {0} /\ MaxSwitch \in Nat

VARIABLES
    dr,        \* the receiver holds a byte (RXDNE)
    ie,        \* RXDNEIEN and the NVIC channel: set and cleared together
    rx,        \* serial->serial_rx: None (RT_NULL) or the bytes in the ring
    openFlag,  \* dev->open_flag; RDWR and STREAM are in every open
    ref,       \* dev->ref_count
    active,    \* RT_DEVICE_FLAG_ACTIVATED
    ind,       \* dev->rx_indicate is finsh_rx_ind
    sem,       \* shell->rx_sem
    isr,       \* device whose interrupt is being serviced, or None
    op,        \* open or close in progress, or None
    set,       \* finsh_set_device in progress, or None
    pc,        \* shell thread
    shDev,     \* shell->device
    rdDev,     \* `device' of finsh_getchar, while it reads
    conDev,    \* _console_device
    conTo,     \* device the console is being switched to, or None
    switches,  \* calls of rt_console_set_device so far
    apps,      \* devices the application has open
    bare       \* history: devices opened without INT_RX while they had a ring

devVars == <<rx, ie, openFlag, ref, active>>
shVars  == <<pc, shDev, rdDev>>
conVars == <<conDev, conTo, switches, apps>>
vars    == <<dr, devVars, ind, sem, isr, op, set, shVars, conVars, bare>>

\* Receive flags of an open call.
RxFlags   == {"INT_RX"}   \* finsh_set_device, the application
ConFlags  == {}           \* rt_console_set_device
DmaFlags  == {"DMA_RX"}   \* not among the flags the driver registers

Fifos == 0..Cap
Ops == [who : {"shell", "app", "console"}, dev : Devs, flags : {RxFlags, ConFlags, DmaFlags},
        at : {"init", "open", "int", "dec", "clr", "free"}]

\* Calls of finsh_set_device: by the shell thread or another one; what is next.
Sets == [by : {"shell", "other"}, dev : Devs, at : {"close", "unind", "dev", "ind"}]

\* RT_NULL is no ring, and no call.
ASSUME NoneAssumption == None \notin Fifos /\ None \notin Ops /\ None \notin Sets

TypeOK ==
    /\ dr \in [Devs -> BOOLEAN]
    /\ ie \in [Devs -> BOOLEAN]
    /\ rx \in [Devs -> Fifos \cup {None}]
    /\ openFlag \in [Devs -> SUBSET {"OPEN", "INT_RX"}]
    /\ ref \in [Devs -> 0..3]
    /\ active \in [Devs -> BOOLEAN]
    /\ ind \in [Devs -> BOOLEAN]
    /\ sem \in 0..SemMax
    /\ isr \in Devs \cup {None}
    /\ op \in Ops \cup {None}
    /\ set \in Sets \cup {None}
    /\ pc \in {"boot", "read", "take", "cmd"}
    /\ shDev \in Devs \cup {None}
    /\ rdDev \in Devs \cup {None}
    /\ conDev \in Devs
    /\ conTo \in Devs \cup {None}
    /\ switches \in 0..MaxSwitch
    /\ apps \subseteq Devs
    /\ bare \subseteq Devs

\* After rt_hw_board_init: drivers registered, console open on BootDev.
Init ==
    /\ dr = [d \in Devs |-> FALSE]
    /\ ie = [d \in Devs |-> FALSE]
    /\ rx = [d \in Devs |-> None]
    /\ openFlag = [d \in Devs |-> IF d = BootDev THEN {"OPEN"} ELSE {}]
    /\ ref = [d \in Devs |-> IF d = BootDev THEN 1 ELSE 0]
    /\ active = [d \in Devs |-> d = BootDev]
    /\ ind = [d \in Devs |-> FALSE]
    /\ sem = 0
    /\ isr = None
    /\ op = None
    /\ set = None
    /\ pc = "boot"
    /\ shDev = None
    /\ rdDev = None
    /\ conDev = BootDev
    /\ conTo = None
    /\ switches = 0
    /\ apps = {}
    /\ bare = {}

-----------------------------------------------------------------------------
(* The receiver and the interrupt service routine. *)

\* A byte arrives; if the last one has not been taken it is overrun.
Arrive(d) ==
    /\ dr' = [dr EXCEPT ![d] = TRUE]
    /\ UNCHANGED <<devVars, ind, sem, isr, op, set, shVars, conVars, bare>>

\* USARTx_IRQHandler -> uart_isr -> rt_hw_serial_isr(RX_IND)
IsrEnter(d) ==
    /\ isr = None
    /\ ie[d] /\ dr[d]
    /\ isr' = d
    /\ UNCHANGED <<dr, devVars, ind, sem, op, set, shVars, conVars, bare>>

\* n32_getc: reading the data register clears RXDNE; -1 when it is clear.
n32_getc(d) == dr' = [dr EXCEPT ![d] = FALSE]

\* n32_control for RT_DEVICE_CTRL_SET_INT and RT_DEVICE_CTRL_CLR_INT.
n32_control(d, cmd) == ie' = [ie EXCEPT ![d] = (cmd = "SET_INT")]

\* A byte more; in a full ring it takes the place of the oldest one.
Push(n) == IF n < Cap THEN n + 1 ELSE n

\* One turn of the getc loop.
IsrByte ==
    /\ isr # None
    /\ rx[isr] # None
    /\ dr[isr]
    /\ n32_getc(isr)
    /\ rx' = [rx EXCEPT ![isr] = Push(@)]
    /\ UNCHANGED <<ie, openFlag, ref, active, ind, sem, isr, op, set, shVars, conVars, bare>>

\* Mutant: the semaphore has no limit.
RxIndUnlimited == sem' = sem + 1

\* finsh_rx_ind: rt_sem_release, which refuses to go beyond RT_SEM_VALUE_MAX.
finsh_rx_ind == sem' = IF sem < SemMax THEN sem + 1 ELSE sem

\* The end of the routine: rx_indicate is called when `told'.
Indicate(told) ==
    /\ isr # None
    /\ rx[isr] # None
    /\ ~dr[isr]
    /\ IF ind[isr] /\ told THEN finsh_rx_ind ELSE UNCHANGED sem
    /\ isr' = None
    /\ UNCHANGED <<dr, devVars, ind, op, set, shVars, conVars, bare>>

\* Mutant: the reader is told from the second byte on.
IsrLeaveLate == Indicate(rx[isr] > 1)

\* The code: told whenever rx_length is not 0.
IsrLeave == Indicate(rx[isr] > 0)

-----------------------------------------------------------------------------
(* rt_device_open and rt_device_close, shared by their three callers. *)

Thread == isr = None

Begin(who, d, flags, at) == op' = [who |-> who, dev |-> d, flags |-> flags, at |-> at]

\* rt_device_open: rt_serial_init on a device that is not activated.
\* n32_configure enables the NVIC channel and leaves RXDNEIEN as it is.
OpenInit ==
    /\ Thread /\ op # None /\ op.at = "init"
    /\ rx' = IF active[op.dev] THEN rx ELSE [rx EXCEPT ![op.dev] = None]
    /\ active' = [active EXCEPT ![op.dev] = TRUE]
    /\ op' = [op EXCEPT !.at = "open"]
    /\ UNCHANGED <<dr, ie, openFlag, ref, ind, sem, isr, set, shVars, conVars, bare>>

\* Device is not opened, or opened with other flags.
CallOpen(d, flags) == "OPEN" \notin openFlag[d] \/ openFlag[d] \ {"OPEN"} # flags

\* rt_serial_open: the open flags are replaced, and with INT_RX a ring is
\* created when there is none.
NewRing(d, flags) == CallOpen(d, flags) /\ rx[d] = None /\ "INT_RX" \in flags
SerialOpen(d, flags) ==
    /\ openFlag' = IF CallOpen(d, flags) THEN [openFlag EXCEPT ![d] = flags \cup {"OPEN"}]
                                         ELSE openFlag
    /\ rx' = IF NewRing(d, flags) THEN [rx EXCEPT ![d] = 0] ELSE rx

\* The caller has its device.
Opened(more) ==
    /\ ref' = [ref EXCEPT ![op.dev] = @ + more]
    /\ op' = None
    /\ apps' = IF op.who = "app" THEN apps \cup {op.dev} ELSE apps
    /\ conDev' = IF op.who = "console" THEN op.dev ELSE conDev
    /\ conTo' = IF op.who = "console" THEN None ELSE conTo

OpenWith(more) ==
    LET d == op.dev
    IN  /\ Thread /\ op # None /\ op.at = "open"
        /\ op.flags # DmaFlags
        /\ SerialOpen(d, op.flags)
        /\ IF NewRing(d, op.flags)
           THEN op' = [op EXCEPT !.at = "int"] /\ UNCHANGED <<ref, conDev, conTo, apps>>
           ELSE Opened(more)
        /\ bare' = IF rx[d] # None /\ op.flags = ConFlags THEN bare \cup {d} ELSE bare
        /\ UNCHANGED <<dr, ie, active, ind, sem, isr, set, shVars, switches>>

\* Mutants: the reference is counted only when the driver's open is called; the
\* interrupt is enabled before there is a ring.
OpenCountsOnce == OpenWith(IF CallOpen(op.dev, op.flags) THEN 1 ELSE 0)
OpenIntFirst ==
    \/ OpenWith(1) /\ (NewRing(op.dev, op.flags) => ie[op.dev])
    \/ /\ Thread /\ op # None /\ op.at = "open"
       /\ NewRing(op.dev, op.flags) /\ ~ie[op.dev]
       /\ n32_control(op.dev, "SET_INT")
       /\ UNCHANGED <<dr, rx, openFlag, ref, active, ind, sem, isr, op, set, shVars, conVars, bare>>

\* The code.
OpenDev == OpenWith(1)

\* rt_serial_open: the receive interrupt is enabled once the ring is there.
OpenInt ==
    /\ Thread /\ op # None /\ op.at = "int"
    /\ n32_control(op.dev, "SET_INT")
    /\ Opened(1)
    /\ UNCHANGED <<dr, rx, openFlag, active, ind, sem, isr, set, shVars, switches, bare>>

\* rt_serial_open refuses flags the driver did not register: -RT_EIO.
OpenRefused ==
    /\ Thread /\ op # None /\ op.at = "open"
    /\ op.flags = DmaFlags
    /\ op' = None
    /\ UNCHANGED <<dr, devVars, ind, sem, isr, set, shVars, conVars, bare>>

\* rt_device_close: the driver's close is called for the last reference.
CloseDec ==
    /\ Thread /\ op # None /\ op.at = "dec"
    /\ ref[op.dev] # 0
    /\ ref' = [ref EXCEPT ![op.dev] = @ - 1]
    /\ op' = IF ref[op.dev] = 1 THEN [op EXCEPT !.at = "clr"] ELSE None
    /\ UNCHANGED <<dr, rx, ie, openFlag, active, ind, sem, isr, set, shVars, conVars, bare>>

CloseWith(clear) ==
    /\ Thread /\ op # None /\ op.at = "clr"
    /\ IF "INT_RX" \in openFlag[op.dev] /\ clear THEN n32_control(op.dev, "CLR_INT")
                                                   ELSE UNCHANGED ie
    /\ op' = [op EXCEPT !.at = "free"]
    /\ UNCHANGED <<dr, rx, openFlag, ref, active, ind, sem, isr, set, shVars, conVars, bare>>

\* Mutant: the interrupt is left enabled.
CloseKeepsInt == CloseWith(FALSE)

\* rt_serial_close, RT_DEVICE_CTRL_CLR_INT for a device opened with INT_RX.
CloseClrInt == CloseWith(TRUE)

\* rt_serial_close: the ring is freed; then the flags are cleared.
CloseFree ==
    /\ Thread /\ op # None /\ op.at = "free"
    /\ rx' = IF "INT_RX" \in openFlag[op.dev] THEN [rx EXCEPT ![op.dev] = None] ELSE rx
    /\ active' = [active EXCEPT ![op.dev] = FALSE]
    /\ openFlag' = [openFlag EXCEPT ![op.dev] = {}]
    /\ op' = None
    /\ UNCHANGED <<dr, ie, ref, ind, sem, isr, set, shVars, conVars, bare>>

-----------------------------------------------------------------------------
(* The shell thread. *)

ShellBusy == op # None /\ op.who = "shell"

\* finsh_set_device runs in the shell thread.
ShellSets == set # None /\ set.by = "shell"

\* finsh_set_device(d): from finsh_thread_entry for the console's device when
\* the shell has none, from a command that runs in the shell thread, or from any
\* other thread at any time; nothing happens when d is the shell's device.
SetDevice(by, d) ==
    /\ Thread /\ op = None /\ set = None /\ d # shDev
    /\ by = "shell" => (pc = "boot" /\ shDev = None /\ d = conDev) \/ pc = "cmd"
    /\ Begin("shell", d, RxFlags, "init")
    /\ set' = [by |-> by, dev |-> d, at |-> "close"]
    /\ pc' = IF by = "shell" THEN "cmd" ELSE pc
    /\ UNCHANGED <<dr, devVars, ind, sem, isr, shDev, rdDev, conVars, bare>>

\* The new device is open: the old one, if any, is closed.
SetDeviceClose ==
    /\ Thread /\ op = None /\ set # None /\ set.at = "close" /\ shDev # None
    /\ Begin("shell", shDev, RxFlags, "dec")
    /\ set' = [set EXCEPT !.at = "unind"]
    /\ UNCHANGED <<dr, devVars, ind, sem, isr, shVars, conVars, bare>>

\* The old device loses its rx_indicate.
SetDeviceUnind ==
    /\ Thread /\ ~ShellBusy /\ set # None /\ set.at = "unind"
    /\ ind' = [ind EXCEPT ![shDev] = FALSE]
    /\ set' = [set EXCEPT !.at = "dev"]
    /\ UNCHANGED <<dr, devVars, sem, isr, op, shVars, conVars, bare>>

\* shell->device is the new one.
SetDeviceDev ==
    /\ Thread /\ ~ShellBusy /\ set # None
    /\ set.at = "dev" \/ (set.at = "close" /\ shDev = None)
    /\ shDev' = set.dev
    /\ set' = [set EXCEPT !.at = "ind"]
    /\ UNCHANGED <<dr, devVars, ind, sem, isr, op, pc, rdDev, conVars, bare>>

\* Only now do its bytes release the semaphore.
SetDeviceInd ==
    /\ Thread /\ set # None /\ set.at = "ind"
    /\ ind' = [ind EXCEPT ![set.dev] = TRUE]
    /\ set' = None
    /\ UNCHANGED <<dr, devVars, sem, isr, op, shVars, conVars, bare>>

\* finsh_thread_entry, when another thread has set the device before it starts.
BootSet ==
    /\ Thread /\ pc = "boot" /\ shDev # None
    /\ pc' = "cmd"
    /\ UNCHANGED <<dr, devVars, ind, sem, isr, op, set, shDev, rdDev, conVars, bare>>

\* finsh_getchar begins.
GetChar ==
    /\ Thread /\ pc = "cmd" /\ ~ShellSets
    /\ rdDev' = shDev
    /\ pc' = "read"
    /\ UNCHANGED <<dr, devVars, ind, sem, isr, op, set, shDev, conVars, bare>>

\* rt_device_read of one byte: nothing from a device another thread has closed,
\* the ring when open_flag has INT_RX, the receiver itself (_serial_poll_rx)
\* when not.
ReadClosed ==
    /\ Thread /\ pc = "read" /\ ref[rdDev] = 0
    /\ pc' = "take"
    /\ rdDev' = None
    /\ UNCHANGED <<dr, devVars, ind, sem, isr, op, set, shDev, conVars, bare>>

ReadInt ==
    /\ Thread /\ pc = "read" /\ ref[rdDev] # 0
    /\ "INT_RX" \in openFlag[rdDev]
    /\ rx[rdDev] # None
    /\ IF rx[rdDev] = 0
       THEN pc' = "take" /\ UNCHANGED rx
       ELSE pc' = "cmd" /\ rx' = [rx EXCEPT ![rdDev] = @ - 1]
    /\ rdDev' = None
    /\ UNCHANGED <<dr, ie, openFlag, ref, active, ind, sem, isr, op, set, shDev, conVars, bare>>

ReadPoll ==
    /\ Thread /\ pc = "read" /\ ref[rdDev] # 0
    /\ "INT_RX" \notin openFlag[rdDev]
    /\ pc' = IF dr[rdDev] THEN "cmd" ELSE "take"
    /\ n32_getc(rdDev)
    /\ rdDev' = None
    /\ UNCHANGED <<devVars, ind, sem, isr, op, set, shDev, conVars, bare>>

\* rt_sem_take(RT_WAITING_FOREVER), then the device is looked up again.
Take ==
    /\ Thread /\ pc = "take" /\ sem > 0
    /\ sem' = sem - 1
    /\ rdDev' = shDev
    /\ pc' = "read"
    /\ UNCHANGED <<dr, devVars, ind, isr, op, set, shDev, conVars, bare>>

-----------------------------------------------------------------------------
(* The application and the console. *)

AppOpen(d, flags) ==
    /\ Thread /\ op = None /\ d \notin apps
    /\ Begin("app", d, flags, "init")
    /\ UNCHANGED <<dr, devVars, ind, sem, isr, set, shVars, conVars, bare>>

AppClose(d) ==
    /\ Thread /\ op = None /\ d \in apps
    /\ Begin("app", d, RxFlags, "dec")
    /\ apps' = apps \ {d}
    /\ UNCHANGED <<dr, devVars, ind, sem, isr, set, shVars, conDev, conTo, switches, bare>>

\* rt_console_set_device(d): the old console device is closed, then the new
\* one is opened without INT_RX.
ConsoleClose(d) ==
    /\ switches < MaxSwitch
    /\ switches' = switches + 1
    /\ Thread /\ op = None /\ conTo = None /\ d # conDev
    /\ Begin("console", conDev, ConFlags, "dec")
    /\ conTo' = d
    /\ UNCHANGED <<dr, devVars, ind, sem, isr, set, shVars, conDev, apps, bare>>

ConsoleOpen ==
    /\ Thread /\ op = None /\ conTo # None
    /\ Begin("console", conTo, ConFlags, "init")
    /\ UNCHANGED <<dr, devVars, ind, sem, isr, set, shVars, conVars, bare>>

-----------------------------------------------------------------------------
Isr == (\E d \in Devs : IsrEnter(d)) \/ IsrByte \/ IsrLeave

Layer ==
    \/ OpenInit \/ OpenDev \/ OpenInt \/ OpenRefused \/ CloseDec \/ CloseClrInt \/ CloseFree

SetSteps == SetDeviceClose \/ SetDeviceUnind \/ SetDeviceDev \/ SetDeviceInd

Shell ==
    \/ BootSet \/ GetChar \/ ReadClosed \/ ReadInt \/ ReadPoll \/ Take
    \/ pc = "boot" /\ SetDevice("shell", conDev)

Next ==
    \/ \E d \in Devs : Arrive(d)
    \/ Isr
    \/ Layer
    \/ SetSteps
    \/ Shell
    \/ \E by \in {"shell", "other"}, d \in Devs : SetDevice(by, d)
    \/ \E d \in AppDevs, flags \in {RxFlags, DmaFlags} : AppOpen(d, flags)
    \/ \E d \in AppDevs : AppClose(d)
    \/ \E d \in Devs : ConsoleClose(d)
    \/ ConsoleOpen

(***************************************************************************)
(* Interrupts are served; the routine leaves its loop, since a byte takes  *)
(* far longer on the line than a turn of the loop; and the shell thread,   *)
(* the lowest but the idle thread, gets the processor again and again,     *)
(* because the application's threads block between their calls.  Nothing   *)
(* makes a byte arrive, a device be opened or closed, or a call in         *)
(* progress end.                                                           *)
(***************************************************************************)
Fairness ==
    /\ WF_vars(Isr)
    /\ SF_vars(IsrLeave)
    /\ SF_vars(Shell)

Spec == Init /\ [][Next]_vars /\ Fairness

-----------------------------------------------------------------------------
(* Properties. *)

\* RT_ASSERT(rx_fifo != RT_NULL), dev_serial.c:1427: whenever the receive
\* interrupt of a device is serviced its ring exists.
IsrAssertion == isr # None => rx[isr] # None

\* The assertion holds as long as nobody opens the device without INT_RX while
\* it receives by interrupt: the close disables the interrupt before it frees
\* the ring, the open creates the ring before it enables the interrupt.
IsrHasFifo == isr # None /\ isr \notin bare => rx[isr] # None

Users(d) == Cardinality({"app" : x \in {d} \cap apps} \cup {"shell" : x \in {d} \cap {shDev}}
                            \cup {"console" : x \in {d} \cap {c \in {conDev} : conTo = None}})

\* Between calls the reference count of a device is the number of its users,
\* and a device that has one stays open (device.c:271-316).
RefsAreUsers ==
    (op = None /\ set = None) =>
        \A d \in Devs : /\ ref[d] = Users(d)
                        /\ ref[d] > 0 => active[d] /\ "OPEN" \in openFlag[d]

\* Between calls the receive interrupt, the ring and the INT_RX flag of a
\* device are there together or not at all: three states that rt_serial_open
\* and rt_serial_close change one after the other.  It is lost when the device
\* is opened without INT_RX while it has a ring.
RxPathWhole ==
    op = None => \A d \in Devs \ bare :
                    /\ ie[d] <=> rx[d] # None
                    /\ ie[d] <=> "INT_RX" \in openFlag[d]

\* "release semaphore to let finsh thread rx data" (shell.c:206): a byte whose
\* interrupt is served while the device has the shell's rx_indicate is followed
\* by a read of the shell, or a change of its device begins, however bytes,
\* interrupts, opens and a finsh_set_device of any thread interleave, as long as
\* no device is opened without INT_RX while it has a ring.  A byte that came
\* before rx_indicate was set, while the shell waits and another thread switches
\* its device, is outside it: that byte lies in the ring until the next one.
NoLostWakeup ==
    \A d \in Devs :
        (isr = d /\ ind[d] /\ shDev = d) ~> (pc = "cmd" \/ set # None \/ shDev # d \/ bare # {})
=============================================================================
