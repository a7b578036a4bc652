------------------------------- MODULE RxFifo -------------------------------
(***************************************************************************)
(* struct rt_serial_rx_fifo of dev_serial.c: the software receive ring that *)
(* the interrupt service routine fills and rt_device_read empties.  Both   *)
(* run their body under rt_spin_lock_irqsave, so each is one operation.    *)
(***************************************************************************)
EXTENDS Integers

CONSTANT BufSz   \* serial->config.bufsz, RT_SERIAL_RB_BUFSZ (64) in this system

\* With one slot the ring's length is always computed as 0 (dev_serial.c:1488)
\* and no reader would ever be told of a byte.
ASSUME BufSzAssumption == BufSz \in Nat /\ BufSz >= 2

Slots == 0..(BufSz - 1)

\* Mutant: the wrap comes one slot too late.
AdvanceLate(i) == IF i + 1 > BufSz THEN 0 ELSE i + 1

\* index += 1; if (index >= bufsz) index = 0;
Advance(i) == IF i + 1 >= BufSz THEN 0 ELSE i + 1

\* rt_serial_open: rt_memset(buffer, 0) and both indices 0.
EmptyFifo ==
    [buffer |-> [i \in Slots |-> 0], put |-> 0, get |-> 0, isFull |-> FALSE]

\* _serial_int_rx: there is no data.
NoData(f) == f.get = f.put /\ ~f.isFull

\* rt_hw_serial_isr: rx_length.
Length(f) == IF f.put >= f.get THEN f.put - f.get ELSE BufSz - (f.get - f.put)

\* Mutant: the oldest byte is not discarded when the ring is full.
PushOverwrites(f, b) ==
    [buffer |-> [f.buffer EXCEPT ![f.put] = b],
     put    |-> Advance(f.put),
     get    |-> f.get,
     isFull |-> Advance(f.put) = f.get]

\* rt_hw_serial_isr, one byte: stored at put_index; when put_index reaches
\* get_index the oldest byte is discarded and the ring marked full.
Push(f, b) ==
    [buffer |-> [f.buffer EXCEPT ![f.put] = b],
     put    |-> Advance(f.put),
     get    |-> IF Advance(f.put) = f.get THEN Advance(f.get) ELSE f.get,
     isFull |-> f.isFull \/ Advance(f.put) = f.get]

\* _serial_int_rx, one byte.
Front(f) == f.buffer[f.get]
Pop(f) == [buffer |-> f.buffer, put |-> f.put, get |-> Advance(f.get), isFull |-> FALSE]
=============================================================================
