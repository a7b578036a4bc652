----------------------------- MODULE LossyQueue -----------------------------
(***************************************************************************)
(* What the receive path promises: a queue of Cap bytes that never blocks  *)
(* the sender and, when full, loses the OLDEST byte.  A byte is its number *)
(* in the order of arrival, so the queue's content is the interval         *)
(* lo..hi-1.                                                               *)
(***************************************************************************)
EXTENDS Integers

CONSTANT Cap   \* places of the queue, at least one

VARIABLES
    lo,   \* number of the oldest byte still queued
    hi,   \* number of the next byte to arrive
    out   \* number of the byte read last, -1 before the first

vars == <<lo, hi, out>>

Init == lo = 0 /\ hi = 0 /\ out = -1

Arrive ==
    /\ hi' = hi + 1
    /\ lo' = IF hi - lo = Cap THEN lo + 1 ELSE lo
    /\ UNCHANGED out

Deliver ==
    /\ lo < hi
    /\ out' = lo
    /\ lo' = lo + 1
    /\ UNCHANGED hi

Next == Arrive \/ Deliver

Spec == Init /\ [][Next]_vars
=============================================================================
