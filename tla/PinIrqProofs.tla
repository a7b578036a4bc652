---------------------------- MODULE PinIrqProofs ----------------------------
(***************************************************************************)
(* For every set of pins, handlers and modes: the NVIC follows the clients *)
(* of each shared vector, and the callback of an enabled line runs for an  *)
(* edge of its own pin.                                                    *)
(***************************************************************************)
EXTENDS PinIrq, TLAPS

\* A line some client has enabled, whose clients kept to the protocol.
InUse(l) == l \in enableMask \ misused

\* Such a line has its handler's pin selected in AFIO and its trigger set in
\* EXTI, and what is pending on it came from that pin.
Selected ==
    \A l \in Lines : InUse(l) =>
        /\ hdrTab[l].pin \in Pins /\ LineOf(hdrTab[l].pin) = l
        /\ extiPort[l] = PortOf(hdrTab[l].pin)
        /\ extiTrig[l] = Trigger(hdrTab[l].mode)
        /\ l \in extiPend => srcPin[l] = hdrTab[l].pin

\* An occupied entry of the table is for a pin of its line.
TableLines ==
    \A l \in Lines : hdrTab[l].pin # NoPin => LineOf(hdrTab[l].pin) = l

IInv == TypeOK /\ VectorFollowsMask /\ TableLines /\ Selected

\* The vector of a line is a vector, and the line is one of its lines.
LEMMA VectorOfLine ==
    ASSUME NEW l \in Lines
    PROVE  Vector(l) \in Vectors /\ l \in LinesOf(Vector(l))
BY DEF Vectors, LinesOf

\* A pin of the table is on one of the lines.
LEMMA LineOfPin ==
    ASSUME NEW pin \in Pins
    PROVE  LineOf(pin) \in Lines /\ PortOf(pin) \in Ports
BY DEF Lines, Ports

\* A free entry, and an entry filled by a client.
LEMMA Entries ==
    /\ FreeEntry \in Entry /\ FreeEntry.pin = NoPin
    /\ \A e \in Entry : e.pin # NoPin => e.pin \in Pins /\ e.mode \in Modes
    /\ \A pin \in Pins, hdr \in Handlers, mode \in Modes :
            [pin |-> pin, hdr |-> hdr, mode |-> mode] \in Entry
BY DEF Entry, FreeEntry

\* The edges of every mode.
LEMMA Triggers == \A mode : Trigger(mode) \in SUBSET {"rise", "fall"}
BY DEF Trigger

\* At reset nothing is attached or enabled.
LEMMA InitInv == Init => IInv
<1>1. SUFFICES ASSUME Init PROVE IInv
  OBVIOUS
<1>2. TypeOK
  BY <1>1, Entries DEF Init, TypeOK, Ports
<1>3. VectorFollowsMask
  BY <1>1 DEF Init, VectorFollowsMask
<1>4. TableLines /\ Selected
  BY <1>1, Entries DEF Init, TableLines, Selected, InUse
<1>5. QED
  BY <1>2, <1>3, <1>4 DEF IInv

\* n32_pin_attach_irq fills only a free entry, which no client has in use.
LEMMA AttachKeeps ==
    ASSUME IInv, NEW pin \in Pins, NEW mode \in Modes, NEW hdr \in Handlers,
           n32_pin_attach_irq(pin, mode, hdr)
    PROVE  IInv'
<1> DEFINE l == LineOf(pin)
           new == [pin |-> pin, hdr |-> hdr, mode |-> mode]
<1>1. UNCHANGED <<enableMask, regs, isr, primask, ghost>>
  BY DEF n32_pin_attach_irq
<1>2. hdrTab' = hdrTab \/ (hdrTab[l].pin = NoPin /\ hdrTab' = [hdrTab EXCEPT ![l] = new])
  BY DEF n32_pin_attach_irq
<1>3. l \in Lines /\ new \in Entry /\ new.pin = pin
  BY LineOfPin, Entries
<1> HIDE DEF new
<1>4. TypeOK'
  BY <1>1, <1>2, <1>3 DEF IInv, TypeOK, regs, isr, ghost
<1>5. VectorFollowsMask'
  BY <1>1 DEF IInv, VectorFollowsMask, regs
<1>6. TableLines'
  BY <1>2, <1>3 DEF IInv, TypeOK, TableLines
<1>7. ASSUME NEW k \in Lines, InUse(k)' PROVE hdrTab'[k] = hdrTab[k] /\ InUse(k)
  <2>1. InUse(k)
    BY <1>1, <1>7 DEF InUse, ghost
  <2>2. hdrTab[k].pin # NoPin
    BY <2>1, NamesAssumption DEF IInv, Selected
  <2>3. QED
    BY <1>2, <2>1, <2>2 DEF IInv, TypeOK
<1>8. Selected'
  BY <1>1, <1>7 DEF IInv, Selected, regs, ghost
<1>9. QED
  BY <1>4, <1>5, <1>6, <1>8 DEF IInv

\* n32_pin_dettach_irq empties an entry; a line in use is then misused.
LEMMA DetachKeeps ==
    ASSUME IInv, NEW pin \in Pins, n32_pin_dettach_irq(pin)
    PROVE  IInv'
<1> DEFINE l == LineOf(pin)
<1>1. /\ hdrTab' = [hdrTab EXCEPT ![l] = FreeEntry]
      /\ UNCHANGED <<enableMask, regs, isr, primask, srcPin, fresh>>
      /\ misused' = IF hdrTab[l].pin = pin /\ l \notin enableMask
                    THEN misused ELSE misused \cup {l}
  BY DEF n32_pin_dettach_irq, Misuse
<1>2. l \in Lines
  BY LineOfPin
<1>3. TypeOK'
  BY <1>1, <1>2, Entries DEF IInv, TypeOK, regs, isr
<1>4. VectorFollowsMask'
  BY <1>1 DEF IInv, VectorFollowsMask, regs
<1>5. TableLines'
  BY <1>1, <1>2, Entries DEF IInv, TypeOK, TableLines
<1>6. ASSUME NEW k \in Lines, InUse(k)' PROVE hdrTab'[k] = hdrTab[k] /\ InUse(k)
  <2>1. InUse(k) /\ k # l
    BY <1>1, <1>6 DEF InUse
  <2>2. QED
    BY <1>1, <2>1 DEF IInv, TypeOK
<1>7. Selected'
  BY <1>1, <1>6 DEF IInv, Selected, regs
<1>8. QED
  BY <1>3, <1>4, <1>5, <1>7 DEF IInv

\* n32_pin_irq_enable(PIN_IRQ_ENABLE) selects the port and the trigger and drops
\* what is pending.
LEMMA EnableKeeps ==
    ASSUME IInv, NEW pin \in Pins, Enable(pin)
    PROVE  IInv'
<1> DEFINE l == LineOf(pin)
<1>1. /\ hdrTab[l].pin # NoPin
      /\ extiPort' = [extiPort EXCEPT ![l] = PortOf(pin)]
      /\ extiTrig' = [extiTrig EXCEPT ![l] = Trigger(hdrTab[l].mode)]
      /\ extiMask' = extiMask \cup {l}
      /\ extiPend' = extiPend \ {l}
      /\ nvicEn' = nvicEn \cup {Vector(l)}
      /\ enableMask' = enableMask \cup {l}
      /\ misused' = IF hdrTab[l].pin = pin /\ l \notin enableMask
                    THEN misused ELSE misused \cup {l}
      /\ UNCHANGED <<hdrTab, isr, primask, srcPin, fresh>>
  BY DEF Enable, EnableLine, Misuse
<1>2. l \in Lines /\ PortOf(pin) \in Ports
  BY LineOfPin
<1>3. Vector(l) \in Vectors
  BY <1>2, VectorOfLine
<1>4. TypeOK'
  BY <1>1, <1>2, <1>3, Triggers DEF IInv, TypeOK, isr
<1>5. VectorFollowsMask'
  BY <1>1, <1>2, <1>3, VectorOfLine DEF IInv, VectorFollowsMask, LinesOf
<1>6. TableLines'
  BY <1>1 DEF IInv, TableLines
<1>7. Selected'
  <2>1. SUFFICES ASSUME NEW k \in Lines, InUse(k)'
                 PROVE  /\ hdrTab[k].pin \in Pins /\ LineOf(hdrTab[k].pin) = k
                        /\ extiPort'[k] = PortOf(hdrTab[k].pin)
                        /\ extiTrig'[k] = Trigger(hdrTab[k].mode)
                        /\ k \in extiPend' => srcPin[k] = hdrTab[k].pin
    BY <1>1 DEF Selected
  <2>2. CASE k = l
    <3>1. hdrTab[l].pin = pin
      BY <1>1, <2>1, <2>2 DEF InUse
    <3>2. QED
      BY <1>1, <1>2, <2>2, <3>1 DEF IInv, TypeOK
  <2>3. CASE k # l
    <3>1. InUse(k)
      BY <1>1, <2>1, <2>3 DEF InUse
    <3>2. QED
      BY <1>1, <1>2, <2>3, <3>1 DEF IInv, TypeOK, Selected
  <2>4. QED
    BY <2>2, <2>3
<1>8. QED
  BY <1>4, <1>5, <1>6, <1>7 DEF IInv

\* n32_pin_irq_enable(PIN_IRQ_DISABLE) turns the vector off with its last line.
LEMMA DisableKeeps ==
    ASSUME IInv, NEW pin \in Pins, Disable(pin)
    PROVE  IInv'
<1> DEFINE l == LineOf(pin)
           last == LinesOf(Vector(l)) \cap (enableMask \ {l}) = {}
<1>1. /\ enableMask' = enableMask \ {l}
      /\ nvicEn' = IF last THEN nvicEn \ {Vector(l)} ELSE nvicEn
      /\ misused' = IF hdrTab[l].pin = pin THEN misused ELSE misused \cup {l}
      /\ UNCHANGED <<hdrTab, extiMask, extiTrig, extiPort, extiPend, isr,
                     primask, srcPin, fresh>>
  BY DEF Disable, DisableLine, Misuse
<1>2. l \in Lines
  BY LineOfPin
<1>3. TypeOK'
  BY <1>1, <1>2 DEF IInv, TypeOK, isr
<1>4. VectorFollowsMask'
  <2>1. SUFFICES ASSUME NEW v \in Vectors
                 PROVE  v \in nvicEn' <=> LinesOf(v) \cap enableMask' # {}
    BY DEF VectorFollowsMask
  <2>2. v \in nvicEn <=> LinesOf(v) \cap enableMask # {}
    BY DEF IInv, VectorFollowsMask
  <2>3. CASE v = Vector(l)
    BY <1>1, <2>2, <2>3
  <2>4. CASE v # Vector(l)
    <3>1. l \notin LinesOf(v)
      BY <2>4 DEF LinesOf
    <3>2. QED
      BY <1>1, <2>2, <2>4, <3>1
  <2>5. QED
    BY <2>3, <2>4
<1>5. TableLines'
  BY <1>1 DEF IInv, TableLines
<1>6. \A k \in Lines : InUse(k)' => InUse(k)
  BY <1>1 DEF InUse
<1>7. Selected'
  BY <1>1, <1>6 DEF IInv, Selected
<1>8. QED
  BY <1>3, <1>4, <1>5, <1>7 DEF IInv

\* An edge on a line in use comes from the pin the line watches.
LEMMA EdgeKeeps ==
    ASSUME IInv, NEW pin \in Pins, NEW kind, Edge(pin, kind)
    PROVE  IInv'
<1> DEFINE l == LineOf(pin)
<1>1. /\ extiPort[l] = PortOf(pin)
      /\ extiPend' = extiPend \cup {l}
      /\ srcPin' = [srcPin EXCEPT ![l] = pin]
      /\ fresh' = fresh \cup {l}
      /\ UNCHANGED <<hdrTab, enableMask, nvicEn, extiMask, extiTrig, extiPort,
                     isr, primask, misused>>
  BY DEF Edge
<1>2. l \in Lines
  BY LineOfPin
<1>3. TypeOK'
  BY <1>1, <1>2 DEF IInv, TypeOK, isr
<1>4. VectorFollowsMask' /\ TableLines'
  BY <1>1 DEF IInv, VectorFollowsMask, TableLines
<1>5. Selected'
  <2>1. SUFFICES ASSUME NEW k \in Lines, InUse(k), k \in extiPend'
                 PROVE  srcPin'[k] = hdrTab[k].pin
    BY <1>1 DEF IInv, Selected, InUse
  <2>2. CASE k = l
    BY <1>1, <1>2, <2>1, <2>2, PinsAssumption DEF IInv, TypeOK, Selected
  <2>3. CASE k # l
    BY <1>1, <1>2, <2>1, <2>3 DEF IInv, TypeOK, Selected
  <2>4. QED
    BY <2>2, <2>3
<1>6. QED
  BY <1>3, <1>4, <1>5 DEF IInv

\* The service routine only takes pending bits away.
LEMMA IsrKeeps ==
    ASSUME IInv, Isr
    PROVE  IInv'
<1>1. /\ UNCHANGED <<hdrTab, enableMask, nvicEn, extiMask, extiTrig, extiPort,
                     primask, srcPin, misused>>
      /\ extiPend' \subseteq extiPend
      /\ fresh' \subseteq fresh
      /\ todo' \subseteq Lines
      /\ inHandler' \in BOOLEAN
  <2>1. CASE \E v \in Vectors : IsrEnter(v)
    BY <2>1 DEF IInv, TypeOK, IsrEnter, LinesOf, regs, ghost
  <2>2. CASE IsrScan
    BY <2>2 DEF IInv, TypeOK, IsrScan
  <2>3. CASE IsrReturn
    BY <2>3 DEF IInv, TypeOK, IsrReturn, HandlerReturns, ghost
  <2>4. QED
    BY <2>1, <2>2, <2>3 DEF Isr
<1>2. TypeOK'
  BY <1>1 DEF IInv, TypeOK
<1>3. VectorFollowsMask' /\ TableLines'
  BY <1>1 DEF IInv, VectorFollowsMask, TableLines
<1>4. Selected'
  BY <1>1 DEF IInv, Selected, InUse
<1>5. QED
  BY <1>2, <1>3, <1>4 DEF IInv

\* A step that changes nothing but primask.
LEMMA StutterKeeps ==
    ASSUME IInv, UNCHANGED <<hdrTab, enableMask, regs, isr, ghost>>, primask' \in BOOLEAN
    PROVE  IInv'
<1>1. TypeOK'
  BY DEF IInv, TypeOK, regs, isr, ghost
<1>2. VectorFollowsMask' /\ TableLines' /\ Selected'
  BY DEF IInv, VectorFollowsMask, TableLines, Selected, InUse, regs, ghost
<1>3. QED
  BY <1>1, <1>2 DEF IInv

\* Every step keeps the invariant.
LEMMA NextInv == IInv /\ [Next]_vars => IInv'
<1>1. SUFFICES ASSUME IInv, [Next]_vars PROVE IInv'
  OBVIOUS
<1>2. CASE Call
  <2>1. ASSUME NEW pin \in Pins, EnableUnknownMode(pin) PROVE IInv'
    BY <1>1, <2>1, StutterKeeps DEF EnableUnknownMode
  <2>2. ASSUME UNCHANGED vars PROVE IInv'
    BY <1>1, <2>2, StutterKeeps DEF vars, IInv, TypeOK
  <2>3. QED
    BY <1>1, <1>2, <2>1, <2>2, AttachKeeps, DetachKeeps, EnableKeeps, DisableKeeps
       DEF Call, EnableRefused, UnknownPin
<1>3. ASSUME NEW pin \in Pins, NEW kind \in {"rise", "fall"}, Edge(pin, kind) PROVE IInv'
  BY <1>1, <1>3, EdgeKeeps
<1>4. CASE Isr
  BY <1>1, <1>4, IsrKeeps
<1>5. CASE UNCHANGED vars
  BY <1>1, <1>5, StutterKeeps DEF vars, IInv, TypeOK
<1>6. QED
  BY <1>1, <1>2, <1>3, <1>4, <1>5 DEF Next

\* The interrupt table, the registers and the service routine's state keep
\* their types, whatever the clients call and in whatever order.
THEOREM TypeCorrect == Spec => []TypeOK
<1>1. IInv => TypeOK
  BY DEF IInv
<1>2. QED
  BY <1>1, InitInv, NextInv, PTL DEF Spec

\* Disabling one line of a shared vector never silences another, and no vector
\* stays enabled for nobody.
THEOREM VectorsFollowClients == Spec => []VectorFollowsMask
<1>1. IInv => VectorFollowsMask
  BY DEF IInv
<1>2. QED
  BY <1>1, InitInv, NextInv, PTL DEF Spec

\* A callback of a line in use starts for an edge of its own pin and mode.
LEMMA StartsForOwnPin ==
    ASSUME IInv, [Next]_vars, NEW l \in enableMask \ misused, Starts(l)
    PROVE  srcPin[l] = hdrTab[l].pin /\ extiTrig[l] = Trigger(hdrTab[l].mode)
<1>1. IsrScan /\ l \in extiPend
  <2>1. inHandler' # inHandler /\ l = Min(todo)
    BY DEF Starts
  <2>2. IsrScan
    BY <2>1 DEF Next, Call, Isr, n32_pin_attach_irq, n32_pin_dettach_irq, Enable, EnableLine,
        EnableUnknownMode, Disable, DisableLine, EnableRefused, UnknownPin, Edge, IsrEnter,
        IsrReturn, HandlerReturns, vars, isr, Starts
  <2>3. QED
    BY <2>1, <2>2 DEF IsrScan, Status
<1>2. l \in Lines /\ InUse(l)
  BY DEF IInv, TypeOK, InUse
<1>3. QED
  BY <1>1, <1>2 DEF IInv, Selected

\* No client sees an edge that was latched for another port or mode.
THEOREM CallbackForOwnPin == Spec => EnabledCallbackForOwnPin
<1>1. IInv /\ [Next]_vars =>
        [\A l \in enableMask \ misused :
            Starts(l) => /\ srcPin[l] = hdrTab[l].pin
                         /\ extiTrig[l] = Trigger(hdrTab[l].mode)]_vars
  BY StartsForOwnPin
<1>2. QED
  BY <1>1, InitInv, NextInv, PTL DEF Spec, EnabledCallbackForOwnPin

\* A pending bit stands for an edge no callback has seen, except the one whose
\* callback is running.
PendingIsFresh ==
    /\ inHandler => todo # {}
    /\ \A l \in extiPend : l \in fresh \/ (inHandler /\ l = Min(todo))

\* The service routine clears the bit of the callback that ran.
LEMMA FreshKeeps == PendingIsFresh /\ [Next]_vars => PendingIsFresh'
<1>1. SUFFICES ASSUME PendingIsFresh, [Next]_vars PROVE PendingIsFresh'
  OBVIOUS
<1>2. CASE /\ UNCHANGED <<isr, fresh>> /\ extiPend' \subseteq extiPend
  BY <1>1, <1>2 DEF PendingIsFresh, isr
<1>3. ASSUME NEW pin \in Pins, NEW kind \in {"rise", "fall"}, Edge(pin, kind)
      PROVE  PendingIsFresh'
  BY <1>1, <1>3 DEF Edge, PendingIsFresh, isr
<1>4. ASSUME NEW v \in Vectors, IsrEnter(v) PROVE PendingIsFresh'
  BY <1>1, <1>4 DEF IsrEnter, PendingIsFresh, regs, ghost
<1>5. CASE IsrScan
  <2>1. CASE inHandler'
    BY <1>1, <1>5, <2>1 DEF IsrScan, PendingIsFresh
  <2>2. CASE ~inHandler'
    BY <1>1, <1>5, <2>2 DEF IsrScan, PendingIsFresh
  <2>3. QED
    BY <2>1, <2>2
<1>6. CASE IsrReturn
  BY <1>1, <1>6 DEF IsrReturn, HandlerReturns, PendingIsFresh, ghost
<1>7. CASE Call
  <2>1. UNCHANGED <<isr, fresh>> /\ extiPend' \subseteq extiPend
    BY <1>7 DEF Call, n32_pin_attach_irq, n32_pin_dettach_irq, Enable, EnableLine,
        EnableUnknownMode, Disable, DisableLine, EnableRefused, UnknownPin, regs, ghost, vars
  <2>2. QED
    BY <2>1, <1>2
<1>8. CASE UNCHANGED vars
  BY <1>2, <1>8 DEF vars, regs, ghost
<1>9. QED
  BY <1>1, <1>3, <1>4, <1>5, <1>6, <1>7, <1>8 DEF Next, Isr

\* A callback that starts has an edge of its own.
LEMMA StartsFresh ==
    ASSUME PendingIsFresh, [Next]_vars, NEW l, Starts(l)
    PROVE  l \in fresh
<1>1. inHandler' # inHandler /\ ~inHandler /\ l = Min(todo)
  BY DEF Starts
<1>2. IsrScan
  BY <1>1 DEF Next, Call, Isr, n32_pin_attach_irq, n32_pin_dettach_irq, Enable, EnableLine,
      EnableUnknownMode, Disable, DisableLine, EnableRefused, UnknownPin, Edge, IsrEnter,
      IsrReturn, HandlerReturns, vars, isr, Starts
<1>3. l \in extiPend
  BY <1>1, <1>2 DEF IsrScan, Status
<1>4. QED
  BY <1>1, <1>3 DEF PendingIsFresh

\* However the lines of a vector and the edges interleave, one edge starts at
\* most one callback.
THEOREM NoSecondCall == Spec => OneCallPerEdge
<1>1. Init => PendingIsFresh
  BY DEF Init, PendingIsFresh
<1>2. PendingIsFresh /\ [Next]_vars => [\A l \in Lines : Starts(l) => l \in fresh]_vars
  BY StartsFresh
<1>3. QED
  BY <1>1, <1>2, FreshKeeps, PTL DEF Spec, OneCallPerEdge
=============================================================================
