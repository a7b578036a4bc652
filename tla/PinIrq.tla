------------------------------- MODULE PinIrq -------------------------------
(***************************************************************************)
(* Pin interrupts: drivers/drv_gpio.c behind the rt_pin_* interface of     *)
(* dev_pin.c.  The sixteen EXTI lines are shared by the ports (line n      *)
(* watches pin n of ONE port) and the lines 5..9 and 10..15 share a vector *)
(* each.  Every driver call runs with interrupts disabled, so a call is    *)
(* one action; the interrupt service routine is not atomic: edges arrive   *)
(* while it scans its lines and while a handler runs, and a handler may    *)
(* itself call the driver.                                                 *)
(*                                                                         *)
(* A call may come from a thread or from a running handler.  No call comes *)
(* between two scan steps of the service routine: only an interrupt of a   *)
(* higher priority could make it, and none of this system calls the pin    *)
(* interface.                                                              *)
(***************************************************************************)
EXTENDS Naturals, FiniteSetsExt

CONSTANTS
    Pins,       \* pins of the table, each a pair <<port, line>>
    ResetPort,  \* the port AFIO selects for every line after reset (GPIOA)
    Handlers,   \* callbacks (the function with its args)
    Modes,      \* trigger modes clients ask for, a subset of AllModes
    NoPin,      \* -1, the pin of a free table entry
    NoHandler,  \* RT_NULL
    OffTable    \* a pin number get_pin does not know

AllModes == {"RISING", "FALLING", "RISING_FALLING", "HIGH_LEVEL", "LOW_LEVEL"}

PortOf(pin) == pin[1]
LineOf(pin) == pin[2]
Ports == {PortOf(pin) : pin \in Pins} \cup {ResetPort}
Lines == {LineOf(pin) : pin \in Pins}

ASSUME LinesAssumption == Lines \subseteq 0..15
ASSUME PinsAssumption ==
    \A p, q \in Pins : PortOf(p) = PortOf(q) /\ LineOf(p) = LineOf(q) => p = q
ASSUME ModesAssumption == Modes \subseteq AllModes
ASSUME NamesAssumption ==
    /\ NoHandler \notin Handlers
    /\ NoPin \notin Pins
    /\ OffTable \notin Pins

\* EXTIn_IRQn of each line, named by the first line of the vector.
Vector(l) == IF l <= 4 THEN l ELSE IF l <= 9 THEN 5 ELSE 10
Vectors == {Vector(l) : l \in Lines}
LinesOf(v) == {l \in Lines : Vector(l) = v}

VARIABLES
    hdrTab,      \* pin_irq_hdr_tab
    enableMask,  \* pin_irq_enable_mask, as a set of lines
    nvicEn,      \* vectors enabled in the NVIC
    extiMask,    \* EXTI->IMASK
    extiTrig,    \* EXTI->RT_CFG and FT_CFG: the edges each line detects
    extiPort,    \* AFIO->EXTI_CFG: the port each line watches
    extiPend,    \* EXTI->PEND
    todo,        \* lines the running service routine has still to look at
    inHandler,   \* the callback of line Min(todo) is running
    primask,     \* interrupts are disabled although no driver call is running
    \* History variables, read by the properties only.
    srcPin,      \* pin whose edge last set the pending bit of a line
    fresh,       \* lines with an edge since their last callback began
    misused      \* lines on which a client broke the calling protocol

regs  == <<nvicEn, extiMask, extiTrig, extiPort, extiPend>>
isr   == <<todo, inHandler>>
ghost == <<srcPin, fresh, misused>>
vars  == <<hdrTab, enableMask, regs, isr, primask, ghost>>

FreeEntry == [pin |-> NoPin, hdr |-> NoHandler, mode |-> "RISING"]
Entry == [pin : Pins, hdr : Handlers, mode : Modes] \cup {FreeEntry}

TypeOK ==
    /\ hdrTab \in [Lines -> Entry]
    /\ enableMask \subseteq Lines
    /\ nvicEn \subseteq Vectors
    /\ extiMask \subseteq Lines
    /\ extiTrig \in [Lines -> SUBSET {"rise", "fall"}]
    /\ extiPort \in [Lines -> Ports]
    /\ extiPend \subseteq Lines
    /\ todo \subseteq Lines
    /\ inHandler \in BOOLEAN
    /\ primask \in BOOLEAN
    /\ srcPin \in [Lines -> Pins \cup {NoPin}]
    /\ fresh \subseteq Lines
    /\ misused \subseteq Lines

Init ==
    /\ hdrTab = [l \in Lines |-> FreeEntry]
    /\ enableMask = {}
    /\ nvicEn = {}
    /\ extiMask = {}
    /\ extiTrig = [l \in Lines |-> {}]
    /\ extiPort = [l \in Lines |-> ResetPort]
    /\ extiPend = {}
    /\ todo = {}
    /\ inHandler = FALSE
    /\ primask = FALSE
    /\ srcPin = [l \in Lines |-> NoPin]
    /\ fresh = {}
    /\ misused = {}

-----------------------------------------------------------------------------
(* Driver calls. *)

\* get_pin: RT_NULL for a number outside the pins table.
get_pin(pin) == pin # OffTable

\* A driver call is made by a thread, or by the callback that is running.
Caller == todo = {} \/ inHandler

\* The protocol a client is expected to follow on a line: it calls for the pin
\* the table holds, enables it once, and disables it before it detaches it.
Misuse(pin, ok) == misused' = IF ok THEN misused ELSE misused \cup {LineOf(pin)}

\* n32_pin_attach_irq: EOK again for an identical entry, EBUSY for an occupied
\* one (neither changes anything), otherwise the entry is filled.
n32_pin_attach_irq(pin, mode, hdr) ==
    LET l == LineOf(pin)
        new == [pin |-> pin, hdr |-> hdr, mode |-> mode]
    IN  /\ Caller
        /\ \/ /\ hdrTab[l] # new
              /\ hdrTab[l].pin # NoPin
              /\ UNCHANGED hdrTab
           \/ /\ hdrTab[l] = new
              /\ UNCHANGED hdrTab
           \/ /\ hdrTab[l].pin = NoPin
              /\ hdrTab' = [hdrTab EXCEPT ![l] = new]
        /\ UNCHANGED <<enableMask, regs, isr, primask, ghost>>

\* n32_pin_dettach_irq: empties the entry of the pin's LINE, whichever pin
\* the entry is for; EXTI, the NVIC and the mask keep what they have.
n32_pin_dettach_irq(pin) ==
    LET l == LineOf(pin)
    IN  /\ Caller
        /\ hdrTab' = [hdrTab EXCEPT ![l] = FreeEntry]
        /\ Misuse(pin, hdrTab[l].pin = pin /\ l \notin enableMask)
        /\ UNCHANGED <<enableMask, regs, isr, primask, srcPin, fresh>>

\* The EXTI edges a trigger mode selects.
Trigger(mode) ==
    CASE mode = "RISING"         -> {"rise"}
      [] mode = "FALLING"        -> {"fall"}
      [] mode = "RISING_FALLING" -> {"rise", "fall"}
      [] OTHER                   -> {}

\* n32_pin_irq_enable(PIN_IRQ_ENABLE) on an attached line: selects the port,
\* sets the trigger, unmasks the line, leaves `pend' pending, enables the vector
\* `irqn' and the line's bit of the mask.
EnableLine(pin, irqn, pend) ==
    LET l == LineOf(pin)
    IN  /\ Caller
        /\ hdrTab[l].pin # NoPin
        /\ Trigger(hdrTab[l].mode) # {}
        /\ extiPort' = [extiPort EXCEPT ![l] = PortOf(pin)]
        /\ extiTrig' = [extiTrig EXCEPT ![l] = Trigger(hdrTab[l].mode)]
        /\ extiMask' = extiMask \cup {l}
        /\ extiPend' = pend
        /\ nvicEn' = nvicEn \cup {irqn}
        /\ enableMask' = enableMask \cup {l}
        /\ Misuse(pin, hdrTab[l].pin = pin /\ l \notin enableMask)
        /\ UNCHANGED <<hdrTab, isr, primask, srcPin, fresh>>

\* Mutants: the line number taken for the interrupt number; no EXTI_ClrITPendBit.
EnableByLineNumber(pin) == EnableLine(pin, LineOf(pin), extiPend \ {LineOf(pin)})
EnableKeepsPending(pin) == EnableLine(pin, Vector(LineOf(pin)), extiPend)

\* The code: the vector of pin_irq_map, and the line's pending bit cleared.
Enable(pin) == EnableLine(pin, Vector(LineOf(pin)), extiPend \ {LineOf(pin)})

\* The switch's default branch (a level mode): -RT_ERROR is returned without
\* rt_hw_interrupt_enable(level).
EnableUnknownMode(pin) ==
    LET l == LineOf(pin)
    IN  /\ Caller
        /\ hdrTab[l].pin # NoPin
        /\ Trigger(hdrTab[l].mode) = {}
        /\ primask' = TRUE
        /\ UNCHANGED <<hdrTab, enableMask, regs, isr, ghost>>

\* n32_pin_irq_enable(PIN_IRQ_DISABLE): the line's bit leaves the mask and the
\* vector is disabled when `last'; the EXTI line itself stays unmasked.
DisableLine(pin, last) ==
    LET l == LineOf(pin)
    IN  /\ Caller
        /\ enableMask' = enableMask \ {l}
        /\ nvicEn' = IF last THEN nvicEn \ {Vector(l)} ELSE nvicEn
        /\ Misuse(pin, hdrTab[l].pin = pin)
        /\ UNCHANGED <<hdrTab, extiMask, extiTrig, extiPort, extiPend, isr,
                       primask, srcPin, fresh>>

\* Mutant: the vector disabled whatever its other lines need.
DisableVector(pin) == DisableLine(pin, TRUE)

\* The code: `last' when no line of the vector is left in the mask.
Disable(pin) ==
    DisableLine(pin, LinesOf(Vector(LineOf(pin))) \cap (enableMask \ {LineOf(pin)}) = {})

\* n32_pin_irq_enable returning -RT_ENOSYS: nothing attached to the line, or
\* a third value of `enabled'.
EnableRefused(pin, enabled) ==
    /\ Caller
    /\ enabled = "other" \/ (enabled = "enable" /\ hdrTab[LineOf(pin)].pin = NoPin)
    /\ UNCHANGED vars

\* Any of the three calls with a pin get_pin does not know: -RT_ENOSYS.
UnknownPin(pin) == Caller /\ ~get_pin(pin) /\ UNCHANGED vars

-----------------------------------------------------------------------------
(* The hardware and the interrupt service routines. *)

\* An edge on a pin sets the pending bit of the line if the line watches the
\* pin's port and detects that edge.
Edge(pin, kind) ==
    LET l == LineOf(pin)
    IN  /\ extiPort[l] = PortOf(pin)
        /\ kind \in extiTrig[l]
        /\ extiPend' = extiPend \cup {l}
        /\ srcPin' = [srcPin EXCEPT ![l] = pin]
        /\ fresh' = fresh \cup {l}
        /\ UNCHANGED <<hdrTab, enableMask, nvicEn, extiMask, extiTrig, extiPort,
                       isr, primask, misused>>

\* EXTIx_IRQHandler is entered.  All EXTI vectors have priority 5: none
\* preempts another.
IsrEnter(v) ==
    /\ todo = {}
    /\ ~primask
    /\ v \in nvicEn
    /\ LinesOf(v) \cap extiPend \cap extiMask # {}
    /\ todo' = LinesOf(v)
    /\ UNCHANGED <<hdrTab, enableMask, regs, inHandler, primask, ghost>>

\* EXTI_GetITStatus
Status(l) == l \in extiPend /\ l \in extiMask

\* N32_GPIO_EXTI_IRQHandler for the next line of the vector: a line that is
\* not pending is passed over; a pending line without a callback is cleared;
\* otherwise the callback starts.
IsrScan ==
    LET l == Min(todo)
    IN  /\ todo # {}
        /\ ~inHandler
        /\ \/ /\ ~Status(l)
              /\ todo' = todo \ {l}
              /\ UNCHANGED <<inHandler, extiPend, fresh>>
           \/ /\ Status(l)
              /\ hdrTab[l].hdr = NoHandler
              /\ todo' = todo \ {l}
              /\ extiPend' = extiPend \ {l}
              /\ UNCHANGED <<inHandler, fresh>>
           \/ /\ Status(l)
              /\ hdrTab[l].hdr # NoHandler
              /\ inHandler' = TRUE
              /\ fresh' = fresh \ {l}
              /\ UNCHANGED <<todo, extiPend>>
        /\ UNCHANGED <<hdrTab, enableMask, nvicEn, extiMask, extiTrig, extiPort,
                       primask, srcPin, misused>>

\* The callback returns; `left' lines are still to be looked at.
HandlerReturns(left, pend) ==
    /\ inHandler
    /\ inHandler' = FALSE
    /\ todo' = left
    /\ extiPend' = pend
    /\ UNCHANGED <<hdrTab, enableMask, nvicEn, extiMask, extiTrig, extiPort,
                   primask, ghost>>

\* Mutants: the pending bit not cleared; the vector left after its first callback.
ReturnKeepsPending == HandlerReturns(todo \ {Min(todo)}, extiPend)
ReturnLeavesVector == HandlerReturns({}, extiPend \ {Min(todo)})

\* The code: EXTI_ClrITPendBit after the callback, with whatever edge arrived
\* meanwhile, then the next line.
IsrReturn == HandlerReturns(todo \ {Min(todo)}, extiPend \ {Min(todo)})

-----------------------------------------------------------------------------
Call ==
    \/ \E pin \in Pins, mode \in Modes, hdr \in Handlers :
            n32_pin_attach_irq(pin, mode, hdr)
    \/ \E pin \in Pins : n32_pin_dettach_irq(pin)
    \/ \E pin \in Pins : Enable(pin)
    \/ \E pin \in Pins : EnableUnknownMode(pin)
    \/ \E pin \in Pins : Disable(pin)
    \/ \E pin \in Pins, enabled \in {"enable", "other"} : EnableRefused(pin, enabled)
    \/ UnknownPin(OffTable)

Isr == (\E v \in Vectors : IsrEnter(v)) \/ IsrScan \/ IsrReturn

Next ==
    \/ Call
    \/ \E pin \in Pins, kind \in {"rise", "fall"} : Edge(pin, kind)
    \/ Isr

(***************************************************************************)
(* A pending enabled interrupt is taken, the routine runs to its end and   *)
(* a callback returns.  Nothing makes a client call or an edge happen.     *)
(***************************************************************************)
Fairness ==
    /\ \A v \in Vectors : WF_vars(IsrEnter(v))
    /\ WF_vars(IsrScan)
    /\ WF_vars(IsrReturn)

Spec == Init /\ [][Next]_vars /\ Fairness

-----------------------------------------------------------------------------
(* Properties. *)

\* The callback of line l starts in this step.
Starts(l) == ~inHandler /\ inHandler' /\ l = Min(todo)

\* A vector is enabled in the NVIC exactly as long as one of its lines is
\* enabled by a client: disabling one line of a shared vector
\* (drv_gpio.c:569-587) never silences a sibling, and the last one to go
\* turns the vector off.
VectorFollowsMask ==
    \A v \in Vectors : v \in nvicEn <=> LinesOf(v) \cap enableMask # {}

\* The callback that runs on an enabled line runs for an edge of its own pin,
\* of a kind its mode asked for, not for one latched for another port before:
\* the enable redirects the line and drops what is pending (drv_gpio.c:541-549).
\* It needs clients that keep to the protocol on that line.
EnabledCallbackForOwnPin ==
    [][\A l \in enableMask \ misused :
            Starts(l) => /\ srcPin[l] = hdrTab[l].pin
                         /\ extiTrig[l] = Trigger(hdrTab[l].mode)]_vars

\* A callback is never started twice for one edge: between two starts of the
\* callback of a line an edge was latched (drv_gpio.c:624-628).
OneCallPerEdge ==
    [][\A l \in Lines : Starts(l) => l \in fresh]_vars

Busy(l) == inHandler /\ l = Min(todo)

\* An edge latched on an enabled line while its callback is not running ends
\* in a run of the callback, whatever the other lines of the vector do,
\* unless the line is disabled or detached, a client misuses it, or the
\* interrupts stay disabled (EnableUnknownMode).
EdgeServed ==
    \A l \in Lines :
        (l \in extiPend /\ l \in enableMask /\ ~Busy(l))
            ~> (Busy(l) \/ l \notin enableMask \/ hdrTab[l].pin = NoPin
                        \/ l \in misused \/ primask)

\* dev_pin.h: "enable or disable the pin interrupt".  A callback starts only
\* on a line that is enabled, for clients that keep to the protocol on it.
DisabledPinSilent ==
    [][\A l \in Lines \ misused : Starts(l) => l \in enableMask]_vars
=============================================================================
