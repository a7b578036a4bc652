------------------------------ MODULE SerialRx ------------------------------
(***************************************************************************)
(* The receive ring in use: the interrupt service routine pushes the bytes *)
(* of the line, numbered as they arrive, and one reader pops them.  It is  *)
(* shown to implement LossyQueue with BufSz - 1 places.                    *)
(***************************************************************************)
EXTENDS RxFifo

CONSTANT MaxBytes   \* bytes the line carries in one behaviour (a bound for TLC)
ASSUME MaxBytesAssumption == MaxBytes \in Nat

VARIABLES
    fifo,   \* *serial->serial_rx
    next,   \* number of the next byte on the line
    out     \* last byte rt_device_read returned, -1 before the first

vars == <<fifo, next, out>>

FifoType == [buffer : [Slots -> Nat], put : Slots, get : Slots, isFull : BOOLEAN]

TypeOK ==
    /\ fifo \in FifoType
    /\ next \in 0..MaxBytes
    /\ out \in -1..MaxBytes

Init == fifo = EmptyFifo /\ next = 0 /\ out = -1

\* rt_hw_serial_isr(RX_IND): one turn of the getc loop.
Receive ==
    /\ next < MaxBytes
    /\ fifo' = Push(fifo, next)
    /\ next' = next + 1
    /\ UNCHANGED out

\* Mutant: the byte is taken after the index has moved.
ReadAhead ==
    /\ ~NoData(fifo)
    /\ out' = Front(Pop(fifo))
    /\ fifo' = Pop(fifo)
    /\ UNCHANGED next

\* _serial_int_rx: one turn of its loop that finds a byte.
Read ==
    /\ ~NoData(fifo)
    /\ out' = Front(fifo)
    /\ fifo' = Pop(fifo)
    /\ UNCHANGED next

Next == Receive \/ Read

Spec == Init /\ [][Next]_vars

-----------------------------------------------------------------------------
\* Slot of the k-th queued byte.
Pos(f, k) == IF f.get + k < BufSz THEN f.get + k ELSE f.get + k - BufSz

\* The ring holds the last bytes that arrived, in order and without a gap, and
\* is marked full only when it holds all it can: the order of the queue
\* survives every wrap of the two indices and every discard.
Content ==
    LET n == Length(fifo)
    IN  /\ n <= next
        /\ \A k \in 0..(n - 1) : fifo.buffer[Pos(fifo, k)] = next - n + k
        /\ fifo.isFull => n = BufSz - 1

\* The ring implements the queue that loses its oldest byte, with BufSz - 1
\* places: no byte is read twice, out of order or after a younger one, and a
\* byte is lost only while BufSz - 1 younger ones wait.
Queue == INSTANCE LossyQueue
            WITH Cap <- BufSz - 1, lo <- next - Length(fifo), hi <- next
ImplementsQueue == Queue!Spec
=============================================================================
