------------------------- MODULE SerialConsoleProofs -------------------------
(***************************************************************************)
(* For every set of devices, every ring size and every interleaving of the *)
(* shell, the application, the console and the interrupt service routine:  *)
(* the routine finds the ring it asserts, the three parts of the receive   *)
(* path come and go together, and the reference count of a device is the   *)
(* number of its users.                                                    *)
(***************************************************************************)
EXTENDS SerialConsole, FiniteSetTheorems, TLAPS

-----------------------------------------------------------------------------
(* The inductive invariant. *)

\* The open or close in progress is at one of the stages on d.
OpAt(d, stages) == op # None /\ op.dev = d /\ op.at \in stages

\* A call of finsh_set_device is at one of the stages.
SetAt(stages) == set # None /\ set.at \in stages

\* Where the shell thread and finsh_set_device are and what they have in hand.
ShellState ==
    /\ pc \in {"read", "take"} \/ (pc = "cmd" /\ ~ShellSets) => shDev \in Devs
    /\ pc = "read" => rdDev \in Devs
    /\ ShellSets => pc = "cmd"
    /\ SetAt({"close", "unind", "dev"}) => set.dev # shDev
    /\ SetAt({"unind", "dev"}) => shDev \in Devs
    /\ SetAt({"ind"}) => set.dev = shDev
    /\ ShellBusy =>
        \/ SetAt({"close"}) /\ op.dev = set.dev /\ op.at \in {"init", "open", "int"}
                            /\ op.flags = RxFlags
        \/ SetAt({"unind"}) /\ op.dev = shDev /\ op.at \in {"dec", "clr", "free"}

\* The device the application is opening or closing is not open for it.
AppState == (op # None /\ op.who = "app") => op.dev \notin apps

\* A console that opens or closes a device is between the old one and the new.
ConsoleState ==
    (op # None /\ op.who = "console") =>
        conTo # None /\ op.flags = ConFlags /\ (op.at \in {"init", "open", "int"} => op.dev = conTo)

\* A device that is not activated has no open flags.
FlagsActive == \A d \in Devs : ~active[d] => openFlag[d] = {}

\* The receive path of a device in the middle of calls too: the ring is there
\* when the flag is, the interrupt from the last step of the open until the
\* close has disabled it.
RxPath ==
    \A d \in Devs \ bare :
        /\ rx[d] # None <=> "INT_RX" \in openFlag[d]
        /\ ie[d] <=> ("INT_RX" \in openFlag[d] /\ ~OpAt(d, {"int", "free"}))

\* The shell, the application and the console hold a reference of d, in the
\* middle of a call too.
ShellHolds(d) ==
    \/ d = shDev /\ (SetAt({"unind", "dev"}) => ShellBusy /\ OpAt(d, {"dec"}))
    \/ SetAt({"close", "unind", "dev"}) /\ d = set.dev /\ ~(SetAt({"close"}) /\ ShellBusy)
AppHolds(d) == d \in apps \/ (OpAt(d, {"dec"}) /\ op.who = "app")
ConsoleHolds(d) == (d = conDev /\ conTo = None) \/ (OpAt(d, {"dec"}) /\ op.who = "console")

One(holds) == IF holds THEN 1 ELSE 0

\* Every reference has a holder.
RefsHeld ==
    \A d \in Devs : ref[d] = One(ShellHolds(d)) + One(AppHolds(d)) + One(ConsoleHolds(d))

\* What has a reference is open; what is being opened is activated; what is
\* being torn down has no reference left.
RefsOpen ==
    /\ \A d \in Devs : ref[d] > 0 => active[d] /\ "OPEN" \in openFlag[d]
    /\ \A d \in Devs : OpAt(d, {"open", "int"}) => active[d]
    /\ \A d \in Devs :
        OpAt(d, {"int"}) => op.flags = RxFlags /\ {"OPEN", "INT_RX"} \subseteq openFlag[d]
    /\ \A d \in Devs : OpAt(d, {"clr", "free"}) => ref[d] = 0

CallState == ShellState /\ AppState /\ ConsoleState

IInv == TypeOK /\ FlagsActive /\ RxPath /\ IsrHasFifo /\ CallState /\ RefsHeld /\ RefsOpen

-----------------------------------------------------------------------------
(* The operators of the model. *)

\* The ring keeps its bounds, and is never RT_NULL.
LEMMA Rings ==
    /\ 0 \in Fifos
    /\ \A n \in Fifos : n # None /\ Push(n) \in Fifos /\ (n # 0 => n - 1 \in Fifos)
BY ConsoleAssumption, NoneAssumption DEF Fifos, Push

\* The fields of the call in progress.
LEMMA OpFields ==
    ASSUME TypeOK, op # None
    PROVE  /\ op \in Ops
           /\ op.who \in {"shell", "app", "console"} /\ op.dev \in Devs
           /\ op.flags \in {RxFlags, ConFlags, DmaFlags}
           /\ op.at \in {"init", "open", "int", "dec", "clr", "free"}
BY DEF TypeOK, Ops

\* A call that has begun.
LEMMA OpBegun ==
    ASSUME NEW who \in {"shell", "app", "console"}, NEW d \in Devs,
           NEW flags \in {RxFlags, ConFlags, DmaFlags},
           NEW at \in {"init", "open", "int", "dec", "clr", "free"}, Begin(who, d, flags, at)
    PROVE  /\ op' \in Ops /\ op' # None
           /\ op'.who = who /\ op'.dev = d /\ op'.flags = flags /\ op'.at = at
BY NoneAssumption DEF Begin, Ops

\* A call that has moved on: only its program counter is another.
LEMMA OpMoved ==
    ASSUME TypeOK, op # None, NEW at \in {"init", "open", "int", "dec", "clr", "free"},
           op' = [op EXCEPT !.at = at]
    PROVE  /\ op' \in Ops /\ op' # None
           /\ op'.who = op.who /\ op'.dev = op.dev /\ op'.flags = op.flags /\ op'.at = at
BY NoneAssumption DEF TypeOK, Ops

\* A call of finsh_set_device that has moved on.
LEMMA SetMoved ==
    ASSUME TypeOK, set # None, NEW at \in {"close", "unind", "dev", "ind"},
           set' = [set EXCEPT !.at = at]
    PROVE  /\ set' \in Sets /\ set' # None
           /\ set'.by = set.by /\ set'.dev = set.dev /\ set'.at = at
BY NoneAssumption DEF TypeOK, Sets

\* The number of users of a device.
LEMMA UsersAre ==
    ASSUME NEW d
    PROVE  Users(d) = One(d \in apps) + One(d = shDev) + One(d = conDev /\ conTo = None)
<1> DEFINE A == {"app" : x \in {d} \cap apps}
           S == {"shell" : x \in {d} \cap {shDev}}
           C == {"console" : x \in {d} \cap {c \in {conDev} : conTo = None}}
<1>1. /\ d \in apps => A = {"app"}
      /\ d \notin apps => A = {}
      /\ d = shDev => S = {"shell"}
      /\ d # shDev => S = {}
      /\ (d = conDev /\ conTo = None) => C = {"console"}
      /\ ~(d = conDev /\ conTo = None) => C = {}
  OBVIOUS
<1>2. Users(d) = Cardinality(A \cup S \cup C)
  BY DEF Users
<1>3. "shell" \notin A /\ "console" \notin A \cup S
  OBVIOUS
<1> HIDE DEF A, S, C
<1>4. IsFiniteSet(A) /\ Cardinality(A) = IF d \in apps THEN 1 ELSE 0
  <2>1. CASE d \in apps
    <3>1. A = {"app"}
      BY <1>1, <2>1
    <3>2. IsFiniteSet(A) /\ Cardinality(A) = 1
      BY <3>1, FS_Singleton
    <3>3. QED
      BY <2>1, <3>2
  <2>2. CASE d \notin apps
    BY <1>1, <2>2, FS_EmptySet
  <2>3. QED
    BY <2>1, <2>2
<1>5. /\ IsFiniteSet(A \cup S)
      /\ Cardinality(A \cup S) = Cardinality(A) + IF d = shDev THEN 1 ELSE 0
  <2>1. CASE d = shDev
    <3>1. A \cup S = A \cup {"shell"}
      BY <1>1, <2>1
    <3>2. QED
      BY <1>3, <1>4, <2>1, <3>1, FS_AddElement
  <2>2. CASE d # shDev
    <3>1. A \cup S = A
      BY <1>1, <2>2
    <3>2. QED
      BY <1>4, <2>2, <3>1
  <2>3. QED
    BY <2>1, <2>2
<1>6. Cardinality(A \cup S \cup C) = Cardinality(A \cup S) + IF d = conDev /\ conTo = None THEN 1 ELSE 0
  <2>1. Cardinality(A \cup S) \in Nat
    BY <1>5, FS_CardinalityType
  <2>2. CASE d = conDev /\ conTo = None
    <3>1. A \cup S \cup C = (A \cup S) \cup {"console"}
      BY <1>1, <2>2
    <3>2. QED
      BY <1>3, <1>5, <2>2, <3>1, FS_AddElement
  <2>3. CASE ~(d = conDev /\ conTo = None)
    <3>1. A \cup S \cup C = A \cup S
      BY <1>1, <2>3
    <3>2. Cardinality(A \cup S \cup C) = Cardinality(A \cup S)
      BY <3>1
    <3>3. QED
      BY <2>1, <2>3, <3>2
  <2>4. QED
    BY <2>2, <2>3
<1>7. QED
  BY <1>2, <1>4, <1>5, <1>6 DEF One

-----------------------------------------------------------------------------
(* Steps that leave part of the state alone. *)

\* The receive path of every device is as before.
LEMMA PathFrame ==
    ASSUME IInv, UNCHANGED <<rx, ie, openFlag, active, bare>>,
           \A d \in Devs : OpAt(d, {"int", "free"})' <=> OpAt(d, {"int", "free"})
    PROVE  FlagsActive' /\ RxPath'
BY DEF IInv, FlagsActive, RxPath

\* A thread's step is not taken during the interrupt service routine.
LEMMA ThreadFrame == ASSUME Thread, UNCHANGED isr PROVE IsrHasFifo'
BY DEF Thread, IsrHasFifo

\* The calls in progress and the references are as before.
LEMMA RefFrame ==
    ASSUME IInv, UNCHANGED <<openFlag, ref, active, op, set, pc, shDev, rdDev, conDev, conTo, apps>>
    PROVE  CallState' /\ RefsHeld' /\ RefsOpen'
<1>1. CallState'
  BY DEF IInv, CallState, ShellState, AppState, ConsoleState, ShellBusy, ShellSets, SetAt
<1>2. RefsHeld'
  <2>1. \A d \in Devs : /\ AppHolds(d)' <=> AppHolds(d)
                        /\ ConsoleHolds(d)' <=> ConsoleHolds(d)
    BY DEF AppHolds, ConsoleHolds, OpAt
  <2>2. \A d \in Devs : ShellHolds(d)' <=> ShellHolds(d)
    BY DEF ShellHolds, OpAt, ShellBusy, SetAt
  <2>3. QED
    BY <2>1, <2>2 DEF IInv, RefsHeld, One
<1>3. RefsOpen'
  BY DEF IInv, RefsOpen, OpAt
<1>4. QED
  BY <1>1, <1>2, <1>3

-----------------------------------------------------------------------------
(* The start. *)

\* At the end of rt_hw_board_init the console is open and nothing else is.
LEMMA InitInv == Init => IInv
<1> SUFFICES ASSUME Init PROVE IInv
  OBVIOUS
<1>1. TypeOK
  BY ConsoleAssumption DEF Init, TypeOK
<1>2. FlagsActive /\ RxPath /\ IsrHasFifo
  BY ConsoleAssumption DEF Init, FlagsActive, RxPath, IsrHasFifo
<1>3. CallState
  BY ConsoleAssumption DEF Init, CallState, ShellState, AppState, ConsoleState, ShellBusy, ShellSets, SetAt
<1>4. RefsHeld
  BY ConsoleAssumption DEF Init, RefsHeld, One, ShellHolds, AppHolds, ConsoleHolds, OpAt, ShellBusy, SetAt
<1>5. RefsOpen
  <2>1. ASSUME NEW d \in Devs, ref[d] > 0 PROVE active[d] /\ "OPEN" \in openFlag[d]
    <3>1. d = BootDev
      BY <2>1 DEF Init
    <3>2. QED
      BY <3>1 DEF Init
  <2>2. QED
    BY <2>1 DEF Init, RefsOpen, OpAt
<1>6. QED
  BY <1>1, <1>2, <1>3, <1>4, <1>5 DEF IInv

-----------------------------------------------------------------------------
(* The receiver and the interrupt service routine. *)

\* A byte arrives.
LEMMA ArriveKeeps == ASSUME IInv, NEW d \in Devs, Arrive(d) PROVE IInv'
<1>1. TypeOK'
  BY DEF IInv, TypeOK, Arrive, devVars, shVars, conVars
<1>2. FlagsActive' /\ RxPath'
  BY PathFrame DEF Arrive, devVars, OpAt
<1>3. IsrHasFifo'
  BY DEF IInv, IsrHasFifo, Arrive, devVars
<1>4. CallState' /\ RefsHeld' /\ RefsOpen'
  BY RefFrame DEF Arrive, devVars, shVars, conVars
<1>5. QED
  BY <1>1, <1>2, <1>3, <1>4 DEF IInv

\* The routine starts only where the interrupt is enabled, and there the ring is.
LEMMA IsrEnterKeeps == ASSUME IInv, NEW d \in Devs, IsrEnter(d) PROVE IInv'
<1>1. TypeOK'
  BY DEF IInv, TypeOK, IsrEnter, devVars, shVars, conVars
<1>2. FlagsActive' /\ RxPath'
  BY PathFrame DEF IsrEnter, devVars, OpAt
<1>3. IsrHasFifo'
  BY DEF IInv, RxPath, IsrHasFifo, IsrEnter, devVars
<1>4. CallState' /\ RefsHeld' /\ RefsOpen'
  BY RefFrame DEF IsrEnter, devVars, shVars, conVars
<1>5. QED
  BY <1>1, <1>2, <1>3, <1>4 DEF IInv

\* A byte goes from the receiver into the ring.
LEMMA IsrByteKeeps == ASSUME IInv, IsrByte PROVE IInv'
<1>1. isr \in Devs /\ rx[isr] \in Fifos
  BY DEF IInv, TypeOK, IsrByte
<1>2. Push(rx[isr]) \in Fifos /\ Push(rx[isr]) # None
  BY <1>1, Rings
<1>3. /\ rx' \in [Devs -> Fifos \cup {None}]
      /\ \A d \in Devs : rx'[d] = None <=> rx[d] = None
  BY <1>1, <1>2 DEF IInv, TypeOK, IsrByte
<1>4. TypeOK'
  BY <1>3 DEF IInv, TypeOK, IsrByte, n32_getc, shVars, conVars
<1>5. FlagsActive' /\ RxPath'
  BY <1>3 DEF IInv, FlagsActive, RxPath, OpAt, IsrByte
<1>6. IsrHasFifo'
  BY <1>1, <1>3 DEF IInv, IsrHasFifo, IsrByte
<1>7. CallState' /\ RefsHeld' /\ RefsOpen'
  BY RefFrame DEF IsrByte, shVars, conVars
<1>8. QED
  BY <1>4, <1>5, <1>6, <1>7 DEF IInv

\* The routine ends.
LEMMA IsrLeaveKeeps == ASSUME IInv, IsrLeave PROVE IInv'
<1>1. sem' \in 0..SemMax
  BY ConsoleAssumption DEF IInv, TypeOK, IsrLeave, Indicate, finsh_rx_ind
<1>2. TypeOK'
  BY <1>1 DEF IInv, TypeOK, IsrLeave, Indicate, devVars, shVars, conVars
<1>3. FlagsActive' /\ RxPath'
  BY PathFrame DEF IsrLeave, Indicate, devVars, OpAt
<1>4. IsrHasFifo'
  BY DEF IsrHasFifo, IsrLeave, Indicate
<1>5. CallState' /\ RefsHeld' /\ RefsOpen'
  BY RefFrame DEF IsrLeave, Indicate, devVars, shVars, conVars
<1>6. QED
  BY <1>2, <1>3, <1>4, <1>5 DEF IInv

-----------------------------------------------------------------------------
(* rt_device_open and rt_device_close. *)

\* A stage of a call that is not its first or last keeps the holders.
LEMMA HoldersKeep ==
    ASSUME IInv, op # None, op.at # "dec", UNCHANGED <<ref, set, pc, shDev, rdDev, conDev, conTo, apps>>,
           op' # None, op'.who = op.who, op'.dev = op.dev, op'.at # "dec"
    PROVE  RefsHeld'
BY DEF IInv, RefsHeld, ShellHolds, AppHolds, ConsoleHolds, OpAt, ShellBusy, SetAt

\* rt_serial_init on a device that is not activated: it has no flags, and so
\* no ring that could be lost.
LEMMA OpenInitKeeps == ASSUME IInv, OpenInit PROVE IInv'
<1>1. /\ op # None /\ op \in Ops /\ op.dev \in Devs /\ op.at = "init"
      /\ op.flags \in {RxFlags, ConFlags, DmaFlags}
  BY OpFields DEF IInv, OpenInit
<1>2. /\ op' \in Ops /\ op' # None
      /\ op'.who = op.who /\ op'.dev = op.dev /\ op'.flags = op.flags /\ op'.at = "open"
  BY <1>1, OpMoved DEF IInv, OpenInit
<1>3. TypeOK'
  BY <1>1, <1>2 DEF IInv, TypeOK, OpenInit, shVars, conVars
<1>4. FlagsActive'
  BY <1>1 DEF IInv, TypeOK, FlagsActive, OpenInit
<1>5. RxPath'
  <2>1. \A d \in Devs : ~OpAt(d, {"int", "free"}) /\ ~OpAt(d, {"int", "free"})'
    BY <1>1, <1>2 DEF OpAt
  <2>2. \A d \in Devs \ bare : rx'[d] # None <=> rx[d] # None
    BY <1>1 DEF IInv, TypeOK, FlagsActive, RxPath, OpenInit
  <2>3. QED
    BY <2>1, <2>2 DEF IInv, RxPath, OpenInit
<1>6. IsrHasFifo'
  BY ThreadFrame DEF OpenInit
<1>7. CallState'
  BY <1>1, <1>2 DEF IInv, CallState, ShellState, AppState, ConsoleState, ShellBusy, ShellSets, SetAt, OpenInit,
      shVars, conVars
<1>8. RefsHeld'
  BY <1>1, <1>2, HoldersKeep DEF OpenInit, shVars, conVars
<1>9. RefsOpen'
  BY <1>1, <1>2 DEF IInv, TypeOK, RefsOpen, OpAt, OpenInit
<1>10. QED
  BY <1>3, <1>4, <1>5, <1>6, <1>7, <1>8, <1>9 DEF IInv

\* The call has ended: its caller holds the reference that was counted.
LEMMA OpenedKeeps ==
    ASSUME IInv, op # None, op.at \in {"open", "int"}, Opened(1), op.flags # DmaFlags,
           UNCHANGED <<set, pc, shDev, rdDev>>
    PROVE  CallState' /\ RefsHeld' /\ ref' \in [Devs -> 0..3]
<1> DEFINE dev == op.dev
<1>1. /\ op \in Ops /\ dev \in Devs /\ op.who \in {"shell", "app", "console"} /\ op' = None
  BY OpFields DEF IInv, Opened
<1>2. /\ apps' = IF op.who = "app" THEN apps \cup {dev} ELSE apps
      /\ conDev' = IF op.who = "console" THEN dev ELSE conDev
      /\ conTo' = IF op.who = "console" THEN None ELSE conTo
  BY DEF Opened
<1>3. CallState'
  BY <1>1, <1>2 DEF IInv, CallState, ShellState, AppState, ConsoleState, ShellBusy, ShellSets, SetAt
<1>4. /\ ref' \in [Devs -> Int] /\ ref'[dev] = ref[dev] + 1
      /\ \A d \in Devs : d # dev => ref'[d] = ref[d]
  BY <1>1 DEF IInv, TypeOK, Opened
<1>5. RefsHeld'
  <2>1. CASE op.who = "shell"
    <3>1. \A d \in Devs : /\ AppHolds(d)' <=> AppHolds(d)
                          /\ ConsoleHolds(d)' <=> ConsoleHolds(d)
      BY <1>1, <1>2, <2>1 DEF AppHolds, ConsoleHolds, OpAt
    <3>2. SetAt({"close"}) /\ dev = set.dev /\ set.dev # shDev
      BY <2>1 DEF IInv, CallState, ShellState, ShellBusy, SetAt
    <3>3. \A d \in Devs : ShellHolds(d)' <=> (ShellHolds(d) \/ d = dev)
      BY <1>1, <2>1, <3>2 DEF ShellHolds, ShellBusy, SetAt
    <3>4. ~ShellHolds(dev)
      BY <2>1, <3>2 DEF ShellHolds, ShellBusy, SetAt
    <3> QED
      BY <1>1, <1>4, <3>1, <3>3, <3>4 DEF IInv, RefsHeld, One
  <2>2. CASE op.who = "app"
    <3>1. \A d \in Devs : /\ ShellHolds(d)' <=> ShellHolds(d)
                          /\ ConsoleHolds(d)' <=> ConsoleHolds(d)
      BY <1>1, <1>2, <2>2 DEF ShellHolds, ConsoleHolds, OpAt, ShellBusy, SetAt
    <3>2. \A d \in Devs : AppHolds(d)' <=> (AppHolds(d) \/ d = dev)
      BY <1>1, <1>2, <2>2 DEF AppHolds, OpAt
    <3>3. ~AppHolds(dev)
      BY <2>2 DEF IInv, CallState, AppState, AppHolds, OpAt
    <3> QED
      BY <1>1, <1>4, <3>1, <3>2, <3>3 DEF IInv, RefsHeld, One
  <2>3. CASE op.who = "console"
    <3>1. \A d \in Devs : /\ ShellHolds(d)' <=> ShellHolds(d)
                          /\ AppHolds(d)' <=> AppHolds(d)
      BY <1>1, <1>2, <2>3 DEF ShellHolds, AppHolds, OpAt, ShellBusy, SetAt
    <3>2. conTo # None
      BY <2>3 DEF IInv, CallState, ConsoleState
    <3>3. \A d \in Devs : /\ ConsoleHolds(d)' <=> d = dev
                          /\ ~ConsoleHolds(d)
      BY <1>1, <1>2, <2>3, <3>2 DEF ConsoleHolds, OpAt
    <3> QED
      BY <1>1, <1>4, <3>1, <3>3 DEF IInv, RefsHeld, One
  <2>4. QED
    BY <1>1, <2>1, <2>2, <2>3
<1>6. ref' \in [Devs -> 0..3]
  BY <1>4, <1>5 DEF RefsHeld, One
<1>7. QED
  BY <1>3, <1>5, <1>6

\* rt_serial_open replaces the flags and creates the ring unless it is there.
LEMMA OpenDevKeeps == ASSUME IInv, OpenDev PROVE IInv'
<1> DEFINE dev == op.dev
           flags == op.flags
<1>1. /\ op # None /\ op \in Ops /\ dev \in Devs /\ op.at = "open"
      /\ flags \in {RxFlags, ConFlags} /\ op.who \in {"shell", "app", "console"}
      /\ Thread /\ isr' = isr
      /\ UNCHANGED <<dr, ie, active, ind, sem, set, pc, shDev, rdDev, switches>>
      /\ bare' = IF rx[dev] # None /\ flags = ConFlags THEN bare \cup {dev} ELSE bare
  BY OpFields DEF IInv, OpenDev, OpenWith, shVars
<1>2. active[dev]
  BY <1>1 DEF IInv, RefsOpen, OpAt
<1>3. /\ openFlag' = IF CallOpen(dev, flags) THEN [openFlag EXCEPT ![dev] = flags \cup {"OPEN"}]
                                            ELSE openFlag
      /\ rx' = IF NewRing(dev, flags) THEN [rx EXCEPT ![dev] = 0] ELSE rx
  BY DEF OpenDev, OpenWith, SerialOpen
<1>4. /\ openFlag' \in [Devs -> SUBSET {"OPEN", "INT_RX"}]
      /\ openFlag'[dev] = flags \cup {"OPEN"}
      /\ \A d \in Devs : d # dev => openFlag'[d] = openFlag[d]
  <2>1. flags \cup {"OPEN"} \in SUBSET {"OPEN", "INT_RX"}
    BY <1>1 DEF RxFlags, ConFlags
  <2>2. ~CallOpen(dev, flags) => openFlag[dev] = flags \cup {"OPEN"}
    BY DEF CallOpen
  <2>3. QED
    BY <1>1, <1>3, <2>1, <2>2 DEF IInv, TypeOK
<1>5. /\ rx' \in [Devs -> Fifos \cup {None}]
      /\ \A d \in Devs : d # dev => rx'[d] = rx[d]
  BY <1>1, <1>3, Rings DEF IInv, TypeOK
<1>6. FlagsActive'
  BY <1>1, <1>2, <1>4 DEF IInv, FlagsActive
<1>7. IsrHasFifo'
  BY <1>1, ThreadFrame
<1>8. ASSUME dev \notin bare'
      PROVE  /\ dev \notin bare
             /\ rx[dev] # None <=> "INT_RX" \in openFlag[dev]
             /\ ie[dev] <=> "INT_RX" \in openFlag[dev]
             /\ rx[dev] # None => flags = RxFlags
  BY <1>1, <1>8 DEF IInv, RxPath, OpAt
<1>9. CASE NewRing(dev, flags)
  <2>1. /\ rx[dev] = None /\ rx' = [rx EXCEPT ![dev] = 0] /\ flags = RxFlags
        /\ op' = [op EXCEPT !.at = "int"] /\ UNCHANGED <<ref, conDev, conTo, apps>>
    BY <1>1, <1>3, <1>9 DEF OpenDev, OpenWith, NewRing, ConFlags
  <2>2. /\ op' \in Ops /\ op' # None
        /\ op'.who = op.who /\ op'.dev = dev /\ op'.flags = flags /\ op'.at = "int"
    BY <1>1, <2>1, OpMoved DEF IInv
  <2>3. TypeOK'
    BY <1>1, <1>4, <1>5, <2>1, <2>2 DEF IInv, TypeOK
  <2>4. RxPath'
    <3>1. rx'[dev] # None /\ "INT_RX" \in openFlag'[dev]
      BY <1>1, <1>4, <2>1, Rings DEF IInv, TypeOK, RxFlags
    <3>2. \A d \in Devs : ~OpAt(d, {"int", "free"}) /\ (OpAt(d, {"int", "free"})' <=> d = dev)
      BY <1>1, <2>2 DEF OpAt
    <3>3. dev \notin bare' => ~ie'[dev]
      BY <1>1, <1>8, <2>1
    <3>4. QED
      BY <1>1, <1>4, <1>5, <3>1, <3>2, <3>3 DEF IInv, RxPath
  <2>5. CallState'
    BY <1>1, <2>1, <2>2 DEF IInv, CallState, ShellState, AppState, ConsoleState, ShellBusy,
        ShellSets, SetAt
  <2>6. RefsHeld'
    BY <1>1, <2>1, <2>2, HoldersKeep
  <2>7. RefsOpen'
    BY <1>1, <1>2, <1>4, <2>1, <2>2 DEF IInv, RefsOpen, OpAt, RxFlags
  <2>8. QED
    BY <1>6, <1>7, <2>3, <2>4, <2>5, <2>6, <2>7 DEF IInv
<1>10. CASE ~NewRing(dev, flags)
  <2>1. rx' = rx /\ Opened(1) /\ op' = None
    BY <1>3, <1>10 DEF OpenDev, OpenWith, Opened
  <2>2. CallState' /\ RefsHeld' /\ ref' \in [Devs -> 0..3]
    BY <1>1, <2>1, OpenedKeeps DEF RxFlags, ConFlags, DmaFlags
  <2>3. TypeOK'
    BY <1>1, <1>4, <1>5, <2>1, <2>2 DEF IInv, TypeOK, Opened
  <2>4. RxPath'
    <3>1. \A d \in Devs : ~OpAt(d, {"int", "free"}) /\ ~OpAt(d, {"int", "free"})'
      BY <1>1, <2>1 DEF OpAt
    <3>2. ASSUME dev \notin bare'
          PROVE  "INT_RX" \in openFlag'[dev] <=> rx[dev] # None
      <4>1. "INT_RX" \in openFlag'[dev] <=> "INT_RX" \in flags
        BY <1>4
      <4>2. "INT_RX" \in flags => rx[dev] # None
        <5>1. CASE CallOpen(dev, flags)
          BY <1>10, <5>1 DEF NewRing
        <5>2. CASE ~CallOpen(dev, flags)
          BY <1>8, <3>2, <5>2 DEF CallOpen
        <5>3. QED
          BY <5>1, <5>2
      <4>3. rx[dev] # None => "INT_RX" \in flags
        BY <1>8, <3>2 DEF RxFlags
      <4>4. QED
        BY <4>1, <4>2, <4>3
    <3>3. QED
      BY <1>1, <1>4, <1>8, <2>1, <3>1, <3>2 DEF IInv, RxPath
  <2>5. RefsOpen'
    <3>1. \A d \in Devs : d # dev => ref'[d] = ref[d]
      BY <1>1, <2>1 DEF IInv, TypeOK, Opened
    <3>2. QED
      BY <1>1, <1>2, <1>4, <2>1, <3>1 DEF IInv, RefsOpen, OpAt
  <2>6. QED
    BY <1>6, <1>7, <2>2, <2>3, <2>4, <2>5 DEF IInv
<1>11. QED
  BY <1>9, <1>10

\* rt_serial_open enables the interrupt of a device that has its ring.
LEMMA OpenIntKeeps == ASSUME IInv, OpenInt PROVE IInv'
<1> DEFINE dev == op.dev
<1>1. /\ op # None /\ dev \in Devs /\ op.at = "int" /\ Thread /\ op' = None
      /\ op.who \in {"shell", "app", "console"}
      /\ UNCHANGED <<dr, rx, openFlag, active, ind, sem, isr, set, pc, shDev, rdDev, switches, bare>>
      /\ ie' = [ie EXCEPT ![dev] = TRUE] /\ Opened(1)
  BY OpFields DEF IInv, OpenInt, Opened, n32_control, shVars
<1>2. CallState' /\ RefsHeld' /\ ref' \in [Devs -> 0..3]
  <2>1. op.flags # DmaFlags
    BY <1>1 DEF IInv, RefsOpen, OpAt, RxFlags, DmaFlags
  <2>2. QED
    BY <1>1, <2>1, OpenedKeeps
<1>3. TypeOK'
  BY <1>1, <1>2 DEF IInv, TypeOK, Opened
<1>4. FlagsActive'
  BY <1>1 DEF IInv, FlagsActive
<1>5. RxPath'
  <2>1. \A d \in Devs : ~OpAt(d, {"int", "free"})' /\ (OpAt(d, {"int", "free"}) <=> d = dev)
    BY <1>1 DEF OpAt
  <2>2. "INT_RX" \in openFlag[dev]
    BY <1>1 DEF IInv, RefsOpen, OpAt
  <2>3. \A d \in Devs : d # dev => ie'[d] = ie[d]
    BY <1>1 DEF IInv, TypeOK
  <2>4. ie'[dev]
    BY <1>1 DEF IInv, TypeOK
  <2>5. QED
    BY <1>1, <2>1, <2>2, <2>3, <2>4 DEF IInv, RxPath
<1>6. IsrHasFifo'
  BY <1>1, ThreadFrame
<1>7. RefsOpen'
  <2>1. \A d \in Devs : d # dev => ref'[d] = ref[d]
    BY <1>1 DEF IInv, TypeOK, Opened
  <2>2. active[dev] /\ "OPEN" \in openFlag[dev]
    BY <1>1 DEF IInv, RefsOpen, OpAt
  <2>3. QED
    BY <1>1, <2>1, <2>2 DEF IInv, RefsOpen, OpAt
<1>8. QED
  BY <1>2, <1>3, <1>4, <1>5, <1>6, <1>7 DEF IInv

\* rt_serial_open refuses the flags of an application.
LEMMA OpenRefusedKeeps == ASSUME IInv, OpenRefused PROVE IInv'
<1>1. /\ op # None /\ op.dev \in Devs /\ op.at = "open" /\ op.flags = DmaFlags /\ op' = None
      /\ op.who = "app"
  <2>1. /\ op # None /\ op.dev \in Devs /\ op.at = "open" /\ op.flags = DmaFlags /\ op' = None
        /\ op.who \in {"shell", "app", "console"}
    BY OpFields DEF IInv, OpenRefused
  <2>2. op.who # "shell" /\ op.who # "console"
    BY <2>1 DEF IInv, CallState, ShellState, ConsoleState, ShellBusy, ShellSets, SetAt, RxFlags, ConFlags, DmaFlags
  <2>3. QED
    BY <2>1, <2>2
<1>2. TypeOK'
  BY <1>1 DEF IInv, TypeOK, OpenRefused, devVars, shVars, conVars
<1>3. FlagsActive' /\ RxPath'
  BY <1>1, PathFrame DEF OpAt, OpenRefused, devVars
<1>4. IsrHasFifo'
  BY ThreadFrame DEF OpenRefused
<1>5. CallState'
  BY <1>1 DEF IInv, CallState, ShellState, AppState, ConsoleState, ShellBusy, ShellSets, SetAt, OpenRefused,
      shVars, conVars
<1>6. RefsHeld'
  BY <1>1 DEF IInv, RefsHeld, ShellHolds, AppHolds, ConsoleHolds, OpAt, ShellBusy, SetAt, OpenRefused,
      devVars, shVars, conVars
<1>7. RefsOpen'
  BY <1>1 DEF IInv, RefsOpen, OpAt, OpenRefused, devVars
<1>8. QED
  BY <1>2, <1>3, <1>4, <1>5, <1>6, <1>7 DEF IInv

\* rt_device_close gives up the reference of its caller.
LEMMA CloseDecKeeps == ASSUME IInv, CloseDec PROVE IInv'
<1> DEFINE dev == op.dev
<1>1. /\ op # None /\ op \in Ops /\ dev \in Devs /\ op.at = "dec"
      /\ op.who \in {"shell", "app", "console"}
      /\ Thread /\ isr' = isr /\ ref[dev] # 0
  BY OpFields DEF IInv, CloseDec
<1>2. /\ ref' = [ref EXCEPT ![dev] = @ - 1]
      /\ UNCHANGED <<dr, rx, ie, openFlag, active, ind, sem, set, pc, shDev, rdDev, conDev,
                     conTo, switches, apps, bare>>
  BY DEF CloseDec, shVars, conVars
<1>3. \/ ref[dev] # 1 /\ op' = None
      \/ /\ ref[dev] = 1 /\ op' \in Ops /\ op' # None
         /\ op'.who = op.who /\ op'.dev = dev /\ op'.flags = op.flags /\ op'.at = "clr"
  <2>1. CASE ref[dev] # 1
    BY <2>1 DEF CloseDec
  <2>2. CASE ref[dev] = 1
    <3>1. op' = [op EXCEPT !.at = "clr"]
      BY <2>2 DEF CloseDec
    <3>2. QED
      BY <1>1, <2>2, <3>1, OpMoved DEF IInv
  <2>3. QED
    BY <2>1, <2>2
<1>4. /\ ref' \in [Devs -> Int] /\ ref'[dev] = ref[dev] - 1
      /\ \A d \in Devs : d # dev => ref'[d] = ref[d]
  BY <1>1, <1>2 DEF IInv, TypeOK
<1>5. FlagsActive' /\ RxPath'
  BY <1>1, <1>2, <1>3, PathFrame DEF OpAt
<1>6. IsrHasFifo'
  BY <1>1, ThreadFrame
<1>7. CallState'
  BY <1>1, <1>2, <1>3 DEF IInv, CallState, ShellState, AppState, ConsoleState, ShellBusy, ShellSets, SetAt
<1>8. RefsHeld'
  <2>1. \A d \in Devs : ~OpAt(d, {"dec"})'
    BY <1>3 DEF OpAt
  <2>2. CASE op.who = "shell"
    <3>1. \A d \in Devs : /\ AppHolds(d)' <=> AppHolds(d)
                          /\ ConsoleHolds(d)' <=> ConsoleHolds(d)
      BY <1>1, <1>2, <2>1, <2>2 DEF AppHolds, ConsoleHolds, OpAt
    <3>2. SetAt({"unind"}) /\ dev = shDev /\ set.dev # shDev
      BY <1>1, <2>2 DEF IInv, CallState, ShellState, ShellBusy, SetAt
    <3>3. \A d \in Devs : ShellHolds(d)' <=> (ShellHolds(d) /\ d # dev)
      BY <1>1, <1>2, <2>1, <2>2, <3>2 DEF ShellHolds, ShellBusy, SetAt
    <3>4. ShellHolds(dev)
      BY <1>1, <2>2, <3>2 DEF ShellHolds, ShellBusy, SetAt, OpAt
    <3> QED
      BY <1>1, <1>4, <3>1, <3>3, <3>4 DEF IInv, RefsHeld, One
  <2>3. CASE op.who = "app"
    <3>1. \A d \in Devs : /\ ShellHolds(d)' <=> ShellHolds(d)
                          /\ ConsoleHolds(d)' <=> ConsoleHolds(d)
      BY <1>1, <1>2, <1>3, <2>1, <2>3 DEF ShellHolds, ConsoleHolds, OpAt, ShellBusy, SetAt
    <3>2. /\ \A d \in Devs : AppHolds(d)' <=> (AppHolds(d) /\ d # dev)
          /\ AppHolds(dev)
      BY <1>1, <1>2, <2>1, <2>3 DEF IInv, CallState, AppState, AppHolds, OpAt
    <3> QED
      BY <1>1, <1>4, <3>1, <3>2 DEF IInv, RefsHeld, One
  <2>4. CASE op.who = "console"
    <3>1. \A d \in Devs : /\ ShellHolds(d)' <=> ShellHolds(d)
                          /\ AppHolds(d)' <=> AppHolds(d)
      BY <1>1, <1>2, <1>3, <2>1, <2>4 DEF ShellHolds, AppHolds, OpAt, ShellBusy, SetAt
    <3>2. conTo # None
      BY <1>1, <2>4 DEF IInv, CallState, ConsoleState
    <3>3. \A d \in Devs : /\ ConsoleHolds(d) <=> d = dev
                          /\ ~ConsoleHolds(d)'
      BY <1>1, <1>2, <2>1, <2>4, <3>2, ConsoleAssumption DEF ConsoleHolds, OpAt
    <3> QED
      BY <1>1, <1>4, <3>1, <3>3 DEF IInv, RefsHeld, One
  <2>5. QED
    BY <1>1, <2>2, <2>3, <2>4
<1>9. TypeOK'
  <2>1. ref' \in [Devs -> 0..3]
    BY <1>4, <1>8 DEF RefsHeld, One
  <2>2. QED
    BY <1>1, <1>2, <1>3, <2>1 DEF IInv, TypeOK
<1>10. RefsOpen'
  <2>1. ref[dev] \in 0..3
    BY <1>1 DEF IInv, TypeOK
  <2>2. \A d \in Devs : OpAt(d, {"clr", "free"})' => ref'[d] = 0
    BY <1>3, <1>4, <2>1 DEF OpAt
  <2>3. \A d \in Devs : ref'[d] > 0 => ref[d] > 0
    BY <1>1, <1>4, <2>1
  <2>4. \A d \in Devs : ~OpAt(d, {"open", "int"})' /\ ~OpAt(d, {"int"})'
    BY <1>3 DEF OpAt
  <2>5. QED
    BY <1>2, <2>2, <2>3, <2>4 DEF IInv, RefsOpen
<1>11. QED
  BY <1>5, <1>6, <1>7, <1>8, <1>9, <1>10 DEF IInv

\* rt_serial_close disables the interrupt before it frees the ring.
LEMMA CloseClrIntKeeps == ASSUME IInv, CloseClrInt PROVE IInv'
<1>1. /\ op # None /\ op \in Ops /\ op.dev \in Devs /\ op.at = "clr"
      /\ op' = [op EXCEPT !.at = "free"]
      /\ UNCHANGED <<dr, rx, openFlag, ref, active, ind, sem, isr, set, shVars, conVars, bare>>
  BY OpFields DEF IInv, CloseClrInt, CloseWith
<1>2. /\ op' \in Ops /\ op' # None
      /\ op'.who = op.who /\ op'.dev = op.dev /\ op'.flags = op.flags /\ op'.at = "free"
  BY <1>1, OpMoved DEF IInv
<1>3. ie' = IF "INT_RX" \in openFlag[op.dev] THEN [ie EXCEPT ![op.dev] = FALSE] ELSE ie
  BY DEF CloseClrInt, CloseWith, n32_control
<1>4. TypeOK'
  BY <1>1, <1>2, <1>3 DEF IInv, TypeOK, shVars, conVars
<1>5. FlagsActive'
  BY <1>1 DEF IInv, FlagsActive
<1>6. RxPath'
  <2>1. \A d \in Devs : ~OpAt(d, {"int", "free"}) /\ (OpAt(d, {"int", "free"})' <=> d = op.dev)
    BY <1>1, <1>2 DEF OpAt
  <2>2. \A d \in Devs : d # op.dev => ie'[d] = ie[d]
    BY <1>3 DEF IInv, TypeOK
  <2>3. op.dev \notin bare => ~ie'[op.dev]
    BY <1>1, <1>3, <2>1 DEF IInv, TypeOK, RxPath
  <2>4. QED
    BY <1>1, <2>1, <2>2, <2>3 DEF IInv, RxPath
<1>7. IsrHasFifo'
  BY ThreadFrame DEF CloseClrInt, CloseWith
<1>8. CallState'
  BY <1>1, <1>2 DEF IInv, CallState, ShellState, AppState, ConsoleState, ShellBusy, ShellSets, SetAt, shVars, conVars
<1>9. RefsHeld'
  BY <1>1, <1>2, HoldersKeep DEF shVars, conVars
<1>10. RefsOpen'
  BY <1>1, <1>2 DEF IInv, RefsOpen, OpAt
<1>11. QED
  BY <1>4, <1>5, <1>6, <1>7, <1>8, <1>9, <1>10 DEF IInv

\* The ring is freed and the flags are cleared, for a device nobody refers to.
LEMMA CloseFreeKeeps == ASSUME IInv, CloseFree PROVE IInv'
<1>1. /\ op # None /\ op.dev \in Devs /\ op.at = "free" /\ op' = None
      /\ op.who \in {"shell", "app", "console"}
      /\ rx' = IF "INT_RX" \in openFlag[op.dev] THEN [rx EXCEPT ![op.dev] = None] ELSE rx
      /\ active' = [active EXCEPT ![op.dev] = FALSE]
      /\ openFlag' = [openFlag EXCEPT ![op.dev] = {}]
      /\ UNCHANGED <<dr, ie, ref, ind, sem, isr, set, shVars, conVars, bare>>
  BY OpFields DEF IInv, CloseFree
<1>2. ref[op.dev] = 0
  BY <1>1 DEF IInv, RefsOpen, OpAt
<1>3. TypeOK'
  BY <1>1 DEF IInv, TypeOK, shVars, conVars
<1>4. FlagsActive'
  BY <1>1 DEF IInv, TypeOK, FlagsActive
<1>5. RxPath'
  <2>1. \A d \in Devs : ~OpAt(d, {"int", "free"})' /\ (OpAt(d, {"int", "free"}) <=> d = op.dev)
    BY <1>1 DEF OpAt
  <2>2. \A d \in Devs : d # op.dev => rx'[d] = rx[d] /\ openFlag'[d] = openFlag[d]
    BY <1>1 DEF IInv, TypeOK
  <2>3. op.dev \notin bare => rx'[op.dev] = None /\ ~ie'[op.dev] /\ openFlag'[op.dev] = {}
    BY <1>1, <2>1 DEF IInv, TypeOK, RxPath
  <2>4. QED
    BY <1>1, <2>1, <2>2, <2>3 DEF IInv, RxPath
<1>6. IsrHasFifo'
  BY ThreadFrame DEF CloseFree
<1>7. CallState'
  BY <1>1 DEF IInv, CallState, ShellState, AppState, ConsoleState, ShellBusy, ShellSets, SetAt, shVars, conVars
<1>8. RefsHeld'
  <2>1. \A d \in Devs : /\ AppHolds(d)' <=> AppHolds(d)
                        /\ ConsoleHolds(d)' <=> ConsoleHolds(d)
    BY <1>1 DEF AppHolds, ConsoleHolds, OpAt, conVars
  <2>2. \A d \in Devs : ShellHolds(d)' <=> ShellHolds(d)
    BY <1>1 DEF IInv, CallState, ShellState, ShellHolds, OpAt, ShellBusy, SetAt, shVars
  <2>3. QED
    BY <1>1, <2>1, <2>2 DEF IInv, RefsHeld, One
<1>9. RefsOpen'
  <2>1. \A d \in Devs : d # op.dev => active'[d] = active[d] /\ openFlag'[d] = openFlag[d]
    BY <1>1 DEF IInv, TypeOK
  <2>2. QED
    BY <1>1, <1>2, <2>1 DEF IInv, TypeOK, RefsOpen, OpAt
<1>10. QED
  BY <1>3, <1>4, <1>5, <1>6, <1>7, <1>8, <1>9 DEF IInv

-----------------------------------------------------------------------------
(* The shell thread, the application and the console. *)

\* Between calls only what the three users have is held.
LEMMA IdleHolds ==
    ASSUME IInv, op = None, set = None, NEW d \in Devs
    PROVE  /\ AppHolds(d) <=> d \in apps
           /\ ConsoleHolds(d) <=> d = conDev /\ conTo = None
           /\ ShellHolds(d) <=> d = shDev
BY DEF AppHolds, ConsoleHolds, ShellHolds, OpAt, SetAt

\* A call begins: no count has changed yet.
LEMMA BeginKeeps ==
    ASSUME IInv, Thread, op = None, op' \in Ops, op' # None, op'.at \in {"init", "dec"},
           UNCHANGED <<dr, devVars, ind, sem, isr, bare>>
    PROVE  FlagsActive' /\ RxPath' /\ IsrHasFifo' /\ RefsOpen'
<1>1. FlagsActive' /\ RxPath'
  BY PathFrame DEF OpAt, devVars
<1>2. IsrHasFifo'
  BY ThreadFrame
<1>3. RefsOpen'
  BY DEF IInv, RefsOpen, OpAt, devVars
<1>4. QED
  BY <1>1, <1>2, <1>3

\* finsh_set_device, called by the shell thread or by another one, opens its
\* new device.
LEMMA SetDeviceKeeps ==
    ASSUME IInv, NEW by \in {"shell", "other"}, NEW dev \in Devs, SetDevice(by, dev)
    PROVE  IInv'
<1>1. /\ Thread /\ op = None /\ set = None /\ dev # shDev
      /\ UNCHANGED <<dr, devVars, ind, sem, isr, shDev, rdDev, conVars, bare>>
      /\ \/ by = "shell" /\ pc' = "cmd"
         \/ by = "other" /\ pc' = pc
  BY DEF SetDevice
<1>2. /\ op' \in Ops /\ op' # None
      /\ op'.who = "shell" /\ op'.dev = dev /\ op'.flags = RxFlags /\ op'.at = "init"
  BY OpBegun DEF SetDevice
<1>3. /\ set' \in Sets /\ set' # None
      /\ set'.by = by /\ set'.dev = dev /\ set'.at = "close"
  BY NoneAssumption DEF SetDevice, Sets
<1>4. FlagsActive' /\ RxPath' /\ IsrHasFifo' /\ RefsOpen'
  BY <1>1, <1>2, BeginKeeps
<1>5. TypeOK'
  BY <1>1, <1>2, <1>3 DEF IInv, TypeOK, devVars, conVars
<1>6. CallState'
  BY <1>1, <1>2, <1>3 DEF IInv, CallState, ShellState, AppState, ConsoleState, ShellBusy,
      ShellSets, SetAt, conVars
<1>7. RefsHeld'
  <2>1. \A d \in Devs : /\ AppHolds(d)' <=> AppHolds(d)
                        /\ ConsoleHolds(d)' <=> ConsoleHolds(d)
                        /\ ShellHolds(d)' <=> ShellHolds(d)
    BY <1>1, <1>2, <1>3 DEF AppHolds, ConsoleHolds, ShellHolds, OpAt, ShellBusy, SetAt, conVars
  <2>2. QED
    BY <1>1, <2>1 DEF IInv, RefsHeld, One, devVars
<1>8. QED
  BY <1>4, <1>5, <1>6, <1>7 DEF IInv

\* finsh_set_device closes its old device.
LEMMA SetDeviceCloseKeeps == ASSUME IInv, SetDeviceClose PROVE IInv'
<1>1. /\ Thread /\ op = None /\ set # None /\ set.at = "close" /\ shDev \in Devs /\ set.dev # shDev
      /\ UNCHANGED <<dr, devVars, ind, sem, isr, shVars, conVars, bare>>
  BY DEF IInv, TypeOK, CallState, ShellState, SetAt, SetDeviceClose
<1>2. /\ op' \in Ops /\ op' # None
      /\ op'.who = "shell" /\ op'.dev = shDev /\ op'.flags = RxFlags /\ op'.at = "dec"
  BY <1>1, OpBegun DEF SetDeviceClose
<1>3. /\ set' \in Sets /\ set' # None
      /\ set'.by = set.by /\ set'.dev = set.dev /\ set'.at = "unind"
  BY <1>1, SetMoved DEF IInv, SetDeviceClose
<1>4. FlagsActive' /\ RxPath' /\ IsrHasFifo' /\ RefsOpen'
  BY <1>1, <1>2, BeginKeeps
<1>5. TypeOK'
  BY <1>1, <1>2, <1>3 DEF IInv, TypeOK, devVars, shVars, conVars
<1>6. CallState'
  BY <1>1, <1>2, <1>3 DEF IInv, CallState, ShellState, AppState, ConsoleState, ShellBusy,
      ShellSets, SetAt, shVars, conVars
<1>7. RefsHeld'
  <2>1. \A d \in Devs : /\ AppHolds(d)' <=> AppHolds(d)
                        /\ ConsoleHolds(d)' <=> ConsoleHolds(d)
    BY <1>1, <1>2 DEF AppHolds, ConsoleHolds, OpAt, conVars
  <2>2. \A d \in Devs : ShellHolds(d)' <=> ShellHolds(d)
    BY <1>1, <1>2, <1>3 DEF ShellHolds, OpAt, ShellBusy, SetAt, shVars
  <2>3. QED
    BY <1>1, <2>1, <2>2 DEF IInv, RefsHeld, One, devVars
<1>8. QED
  BY <1>4, <1>5, <1>6, <1>7 DEF IInv

\* The old device loses its callback, the new one becomes the shell's, and its
\* callback is set.
LEMMA SetStepsKeep ==
    ASSUME IInv, SetDeviceUnind \/ SetDeviceDev \/ SetDeviceInd
    PROVE  IInv'
<1>1. /\ Thread /\ ~ShellBusy /\ set # None /\ set \in Sets /\ set.dev \in Devs
      /\ UNCHANGED <<dr, devVars, sem, isr, op, pc, rdDev, conVars, bare>>
      /\ ind' \in [Devs -> BOOLEAN]
  <2>1. set # None => set \in Sets /\ set.dev \in Devs
    BY DEF IInv, TypeOK, Sets
  <2>2. SetDeviceInd => ~ShellBusy
    BY DEF IInv, CallState, ShellState, SetAt, SetDeviceInd
  <2>3. QED
    BY <2>1, <2>2 DEF IInv, TypeOK, SetDeviceUnind, SetDeviceDev, SetDeviceInd, shVars
<1>2. \/ /\ set.at = "unind" /\ shDev' = shDev /\ set' \in Sets /\ set' # None
         /\ set'.by = set.by /\ set'.dev = set.dev /\ set'.at = "dev"
      \/ /\ set.at = "dev" \/ (set.at = "close" /\ shDev = None)
         /\ shDev' = set.dev /\ set' \in Sets /\ set' # None
         /\ set'.by = set.by /\ set'.dev = set.dev /\ set'.at = "ind"
      \/ set.at = "ind" /\ shDev' = shDev /\ set' = None
  <2>1. ASSUME SetDeviceUnind
        PROVE  /\ set.at = "unind" /\ shDev' = shDev /\ set' \in Sets /\ set' # None
               /\ set'.by = set.by /\ set'.dev = set.dev /\ set'.at = "dev"
    BY <1>1, <2>1, SetMoved DEF IInv, SetDeviceUnind, shVars
  <2>2. ASSUME SetDeviceDev
        PROVE  /\ set.at = "dev" \/ (set.at = "close" /\ shDev = None)
               /\ shDev' = set.dev /\ set' \in Sets /\ set' # None
               /\ set'.by = set.by /\ set'.dev = set.dev /\ set'.at = "ind"
    BY <1>1, <2>2, SetMoved DEF IInv, SetDeviceDev
  <2>3. QED
    BY <2>1, <2>2 DEF SetDeviceInd, shVars
<1>3. TypeOK'
  BY <1>1, <1>2 DEF IInv, TypeOK, devVars, conVars
<1>4. FlagsActive' /\ RxPath'
  BY <1>1, PathFrame DEF OpAt, devVars
<1>5. IsrHasFifo'
  BY <1>1, ThreadFrame
<1>6. CallState'
  <2>1. AppState' /\ ConsoleState'
    BY <1>1 DEF IInv, CallState, AppState, ConsoleState, conVars
  <2>2. ~ShellBusy'
    BY <1>1 DEF ShellBusy
  <2>3. shDev' \in Devs
    BY <1>1, <1>2 DEF IInv, CallState, ShellState, SetAt
  <2>4. QED
    BY <1>1, <1>2, <2>1, <2>2, <2>3 DEF IInv, CallState, ShellState, ShellSets, SetAt
<1>7. RefsHeld'
  <2>1. \A d \in Devs : /\ AppHolds(d)' <=> AppHolds(d)
                        /\ ConsoleHolds(d)' <=> ConsoleHolds(d)
    BY <1>1 DEF AppHolds, ConsoleHolds, OpAt, conVars
  <2>2. \A d \in Devs : ShellHolds(d)' <=> ShellHolds(d)
    <3>1. ~ShellBusy'
      BY <1>1 DEF ShellBusy
    <3>2. set.at = "ind" => set.dev = shDev
      BY <1>1 DEF IInv, CallState, ShellState, SetAt
    <3>3. QED
      BY <1>1, <1>2, <3>1, <3>2, ConsoleAssumption DEF ShellHolds, SetAt
  <2>3. QED
    BY <1>1, <2>1, <2>2 DEF IInv, RefsHeld, One, devVars
<1>8. RefsOpen'
  BY <1>1 DEF IInv, RefsOpen, OpAt, devVars
<1>9. QED
  BY <1>3, <1>4, <1>5, <1>6, <1>7, <1>8 DEF IInv

\* The shell thread starts, or is in finsh_getchar: what is open stays so.
LEMMA ReaderKeeps ==
    ASSUME IInv, BootSet \/ GetChar \/ ReadClosed \/ ReadInt \/ ReadPoll \/ Take
    PROVE  IInv'
<1>1. /\ Thread /\ pc' \in {"read", "take", "cmd"}
      /\ UNCHANGED <<ie, openFlag, ref, active, ind, isr, op, set, shDev, conVars, bare>>
  BY DEF BootSet, GetChar, ReadClosed, ReadInt, ReadPoll, Take, devVars
<1>2. shDev \in Devs /\ (ShellSets => pc' = "cmd")
  BY DEF IInv, TypeOK, CallState, ShellState, BootSet, GetChar, ReadClosed, ReadInt, ReadPoll, Take
<1>3. rdDev' \in Devs \cup {None} /\ (pc' = "read" => rdDev' \in Devs)
  BY <1>2 DEF IInv, TypeOK, BootSet, GetChar, ReadClosed, ReadInt, ReadPoll, Take
<1>4. /\ rx' \in [Devs -> Fifos \cup {None}]
      /\ \A d \in Devs : rx'[d] = None <=> rx[d] = None
  <2>1. CASE UNCHANGED rx
    BY <2>1 DEF IInv, TypeOK
  <2>2. CASE rx[rdDev] # None /\ rx[rdDev] # 0 /\ rdDev \in Devs /\ rx' = [rx EXCEPT ![rdDev] = @ - 1]
    <3>1. rx[rdDev] \in Fifos
      BY <2>2 DEF IInv, TypeOK
    <3>2. rx[rdDev] - 1 \in Fifos /\ rx[rdDev] - 1 # None
      BY <2>2, <3>1, Rings
    <3>3. QED
      BY <2>2, <3>1, <3>2 DEF IInv, TypeOK
  <2>3. ReadInt => rdDev \in Devs
    BY DEF IInv, CallState, ShellState, ReadInt
  <2>4. QED
    BY <2>1, <2>2, <2>3 DEF BootSet, GetChar, ReadClosed, ReadInt, ReadPoll, Take, devVars
<1>5. dr' \in [Devs -> BOOLEAN] /\ sem' \in 0..SemMax
  <2>1. dr' = dr \/ dr' = [dr EXCEPT ![rdDev] = FALSE]
    BY DEF BootSet, GetChar, ReadClosed, ReadInt, ReadPoll, Take, n32_getc
  <2>2. dr' \in [Devs -> BOOLEAN]
    BY <2>1 DEF IInv, TypeOK
  <2>3. sem' = sem \/ (sem > 0 /\ sem' = sem - 1)
    BY DEF BootSet, GetChar, ReadClosed, ReadInt, ReadPoll, Take
  <2>4. sem' \in 0..SemMax
    BY <2>3, ConsoleAssumption DEF IInv, TypeOK
  <2>5. QED
    BY <2>2, <2>4
<1>6. TypeOK'
  BY <1>1, <1>3, <1>4, <1>5 DEF IInv, TypeOK, conVars
<1>7. FlagsActive' /\ RxPath'
  BY <1>1, <1>4 DEF IInv, FlagsActive, RxPath, OpAt
<1>8. IsrHasFifo'
  BY <1>1, ThreadFrame
<1>9. CallState'
  BY <1>1, <1>2, <1>3 DEF IInv, CallState, ShellState, AppState, ConsoleState, ShellBusy, ShellSets,
      SetAt, conVars
<1>10. RefsHeld'
  <2>1. \A d \in Devs : /\ AppHolds(d)' <=> AppHolds(d)
                        /\ ConsoleHolds(d)' <=> ConsoleHolds(d)
                        /\ ShellHolds(d)' <=> ShellHolds(d)
    BY <1>1 DEF AppHolds, ConsoleHolds, ShellHolds, OpAt, ShellBusy, SetAt, conVars
  <2>2. QED
    BY <1>1, <2>1 DEF IInv, RefsHeld, One
<1>11. RefsOpen'
  BY <1>1 DEF IInv, RefsOpen, OpAt
<1>12. QED
  BY <1>6, <1>7, <1>8, <1>9, <1>10, <1>11 DEF IInv

\* The application begins to open a device it does not have, or to close one
\* it has.
LEMMA AppKeeps ==
    ASSUME IInv, NEW dev \in Devs,
           \/ \E flags \in {RxFlags, DmaFlags} : AppOpen(dev, flags)
           \/ AppClose(dev)
    PROVE  IInv'
<1>1. /\ Thread /\ op = None
      /\ UNCHANGED <<dr, devVars, ind, sem, isr, set, shVars, conDev, conTo, switches, bare>>
  BY DEF AppOpen, AppClose, conVars
<1>2. /\ op' \in Ops /\ op' # None /\ op'.who = "app" /\ op'.dev = dev
      /\ \/ op'.at = "init" /\ dev \notin apps /\ apps' = apps
         \/ op'.at = "dec" /\ dev \in apps /\ apps' = apps \ {dev}
  <2>1. ASSUME NEW flags \in {RxFlags, DmaFlags}, AppOpen(dev, flags)
        PROVE  /\ op' \in Ops /\ op' # None /\ op'.who = "app" /\ op'.dev = dev
               /\ op'.at = "init" /\ dev \notin apps /\ apps' = apps
    BY <2>1, OpBegun DEF AppOpen, conVars
  <2>2. ASSUME AppClose(dev)
        PROVE  /\ op' \in Ops /\ op' # None /\ op'.who = "app" /\ op'.dev = dev
               /\ op'.at = "dec" /\ dev \in apps /\ apps' = apps \ {dev}
    BY <2>2, OpBegun DEF AppClose
  <2>3. QED
    BY <2>1, <2>2
<1>3. FlagsActive' /\ RxPath' /\ IsrHasFifo' /\ RefsOpen'
  BY <1>1, <1>2, BeginKeeps
<1>4. TypeOK'
  BY <1>1, <1>2 DEF IInv, TypeOK, devVars, shVars
<1>5. CallState'
  BY <1>1, <1>2 DEF IInv, CallState, ShellState, AppState, ConsoleState, ShellBusy, ShellSets,
      SetAt, shVars
<1>6. RefsHeld'
  <2>1. \A d \in Devs : /\ AppHolds(d)' <=> AppHolds(d)
                        /\ ConsoleHolds(d)' <=> ConsoleHolds(d)
                        /\ ShellHolds(d)' <=> ShellHolds(d)
    BY <1>1, <1>2 DEF AppHolds, ConsoleHolds, ShellHolds, OpAt, ShellBusy, SetAt, shVars
  <2>2. QED
    BY <1>1, <2>1 DEF IInv, RefsHeld, One, devVars
<1>7. QED
  BY <1>3, <1>4, <1>5, <1>6 DEF IInv

\* rt_console_set_device begins to close the old device, or to open the new one.
LEMMA ConsoleKeeps ==
    ASSUME IInv, (\E d \in Devs : ConsoleClose(d)) \/ ConsoleOpen
    PROVE  IInv'
<1>1. /\ Thread /\ op = None
      /\ UNCHANGED <<dr, devVars, ind, sem, isr, set, shVars, apps, bare>>
  BY DEF ConsoleClose, ConsoleOpen, conVars
<1>2. /\ op' \in Ops /\ op' # None /\ op'.who = "console" /\ op'.flags = ConFlags
      /\ switches' \in 0..MaxSwitch /\ conTo' \in Devs /\ conDev' = conDev
      /\ \/ op'.at = "init" /\ op'.dev = conTo' /\ conTo # None
         \/ op'.at = "dec" /\ op'.dev = conDev /\ conTo = None
  <2>1. ASSUME NEW d \in Devs, ConsoleClose(d)
        PROVE  /\ op' \in Ops /\ op' # None /\ op'.who = "console" /\ op'.flags = ConFlags
               /\ op'.at = "dec" /\ op'.dev = conDev /\ conTo = None
    <3>1. conDev \in Devs
      BY DEF IInv, TypeOK
    <3>2. QED
      BY <2>1, <3>1, OpBegun DEF ConsoleClose
  <2>2. ASSUME ConsoleOpen
        PROVE  /\ op' \in Ops /\ op' # None /\ op'.who = "console" /\ op'.flags = ConFlags
               /\ op'.at = "init" /\ op'.dev = conTo' /\ conTo \in Devs
    <3>1. conTo \in Devs /\ conTo' = conTo
      BY <2>2 DEF IInv, TypeOK, ConsoleOpen, conVars
    <3>2. QED
      BY <2>2, <3>1, OpBegun DEF ConsoleOpen
  <2>3. switches' \in 0..MaxSwitch /\ conTo' \in Devs /\ conDev' = conDev
    BY <2>2, ConsoleAssumption DEF IInv, TypeOK, ConsoleClose, ConsoleOpen, conVars
  <2>4. QED
    BY <2>1, <2>2, <2>3, ConsoleAssumption
<1>3. FlagsActive' /\ RxPath' /\ IsrHasFifo' /\ RefsOpen'
  BY <1>1, <1>2, BeginKeeps
<1>4. TypeOK'
  BY <1>1, <1>2 DEF IInv, TypeOK, devVars, shVars
<1>5. CallState'
  BY <1>1, <1>2, ConsoleAssumption DEF IInv, CallState, ShellState, AppState, ConsoleState, ShellBusy,
      ShellSets, SetAt, shVars
<1>6. RefsHeld'
  <2>1. \A d \in Devs : /\ AppHolds(d)' <=> AppHolds(d)
                        /\ ConsoleHolds(d)' <=> ConsoleHolds(d)
                        /\ ShellHolds(d)' <=> ShellHolds(d)
    BY <1>1, <1>2, ConsoleAssumption DEF AppHolds, ConsoleHolds, ShellHolds, OpAt, ShellBusy, SetAt, shVars
  <2>2. QED
    BY <1>1, <2>1 DEF IInv, RefsHeld, One, devVars
<1>7. QED
  BY <1>3, <1>4, <1>5, <1>6 DEF IInv

-----------------------------------------------------------------------------
(* The theorems. *)

\* Every step preserves the invariant.
LEMMA NextInv == IInv /\ [Next]_vars => IInv'
<1> SUFFICES ASSUME IInv, [Next]_vars PROVE IInv'
  OBVIOUS
<1>1. CASE UNCHANGED vars
  <2>1. TypeOK' /\ IsrHasFifo'
    BY <1>1 DEF IInv, TypeOK, IsrHasFifo, vars, devVars, shVars, conVars
  <2>2. FlagsActive' /\ RxPath'
    BY <1>1, PathFrame DEF vars, devVars, OpAt
  <2>3. CallState' /\ RefsHeld' /\ RefsOpen'
    BY <1>1, RefFrame DEF vars, devVars, shVars, conVars
  <2>4. QED
    BY <2>1, <2>2, <2>3 DEF IInv
<1>2. CASE Isr
  BY <1>2, IsrEnterKeeps, IsrByteKeeps, IsrLeaveKeeps DEF Isr
<1>3. CASE Layer
  BY <1>3, OpenInitKeeps, OpenDevKeeps, OpenIntKeeps, OpenRefusedKeeps, CloseDecKeeps,
      CloseClrIntKeeps, CloseFreeKeeps DEF Layer
<1>4. CASE SetSteps
  BY <1>4, SetDeviceCloseKeeps, SetStepsKeep DEF SetSteps
<1>5. CASE Shell
  <2>1. conDev \in Devs
    BY DEF IInv, TypeOK
  <2>2. QED
    BY <1>5, <2>1, SetDeviceKeeps, ReaderKeeps DEF Shell
<1>6. QED
  BY <1>1, <1>2, <1>3, <1>4, <1>5, ArriveKeeps, SetDeviceKeeps, AppKeeps, ConsoleKeeps,
      ConsoleAssumption DEF Next

\* The invariant holds in every reachable state.
LEMMA Invariant == Spec => []IInv
BY InitInv, NextInv, PTL DEF Spec

\* The state keeps its types: no reference count leaves 0..3, the semaphore
\* stops at its limit and the open flags are flags the driver registered.
THEOREM TypeCorrect == Spec => []TypeOK
<1>1. IInv => TypeOK
  BY DEF IInv
<1>2. QED
  BY <1>1, Invariant, PTL

\* RT_ASSERT(rx_fifo != RT_NULL) of the service routine cannot fail for a
\* device that was not opened without INT_RX while it had a ring.
THEOREM IsrFindsFifo == Spec => []IsrHasFifo
<1>1. IInv => IsrHasFifo
  BY DEF IInv
<1>2. QED
  BY <1>1, Invariant, PTL

\* Between calls ring, interrupt and flag are there together or not at all.
THEOREM ReceivePathWhole == Spec => []RxPathWhole
<1>1. IInv => RxPathWhole
  BY DEF IInv, RxPath, RxPathWhole, OpAt
<1>2. QED
  BY <1>1, Invariant, PTL

\* Between calls the count of a device is the number of its users, and a device
\* in use is open.
THEOREM ReferencesAreUsers == Spec => []RefsAreUsers
<1>1. IInv => RefsAreUsers
  <2> SUFFICES ASSUME IInv, op = None, set = None, NEW d \in Devs
               PROVE  /\ ref[d] = Users(d)
                      /\ ref[d] > 0 => active[d] /\ "OPEN" \in openFlag[d]
    BY DEF RefsAreUsers
  <2>1. One(ShellHolds(d)) + One(AppHolds(d)) + One(ConsoleHolds(d))
            = One(d \in apps) + One(d = shDev) + One(d = conDev /\ conTo = None)
    BY IdleHolds DEF One
  <2>2. ref[d] = Users(d)
    BY <2>1, UsersAre DEF IInv, RefsHeld
  <2>3. QED
    BY <2>2 DEF IInv, RefsOpen
<1>2. QED
  BY <1>1, Invariant, PTL
=============================================================================
