------------------------------- MODULE CanTx -------------------------------
(***************************************************************************)
(* Sending on the CAN bus without private mode: _can_int_tx (dev_can.c),   *)
(* which shares the send boxes among the writing threads, the semaphore    *)
(* and the completions it waits on, sendmsg (drv_can.c), which puts the    *)
(* frame into the mailbox with the number of the box, and the two          *)
(* interrupts that report the end of a transmission: CAN_TX when a mailbox *)
(* has completed its request, CAN_SCE on an error of the bus.              *)
(*                                                                         *)
(* Both interrupts have the same preemption priority, so neither runs      *)
(* inside the other, and each is one step: a frame takes much longer than  *)
(* the handler.  A thread may be interrupted between any two of its        *)
(* steps: the stretches with interrupts disabled and the assignments       *)
(* between them.                                                           *)
(*                                                                         *)
(* The controller retransmits a frame nobody acknowledged for as long as   *)
(* the mailbox holds it (NART = DISABLE), but the error interrupt already  *)
(* ends the wait of the sender.  The box goes back to the others while     *)
(* the frame is still in the mailbox: such a box is tainted for its next   *)
(* user, who may be told of the old frame's end.                           *)
(***************************************************************************)
EXTENDS Naturals, Sequences, FiniteSets, SequencesExt

CONSTANTS
    Threads,     \* the threads that write to the device
    SndBoxes,    \* config.sndboxnumber: RT_CANSND_BOX_NUM
    Mailboxes    \* mailboxes of the controller: 3

ASSUME BoxesAssumption ==
    /\ SndBoxes \in Nat \ {0} /\ Mailboxes \in Nat
    /\ SndBoxes <= Mailboxes

None  == "none"
Done  == "done"
Empty == "empty"
Old   == "old"     \* a frame whose sender has returned

ASSUME ThreadsAssumption ==
    /\ IsFiniteSet(Threads) /\ Threads # {}
    /\ {None, Done, Empty, Old} \cap Threads = {}

Boxes == 0 .. SndBoxes - 1
MailboxNos == 0 .. Mailboxes - 1

VARIABLES
    pc,         \* where each thread is in _can_int_tx
    box,        \* tx_tosnd: the box it uses (0 when it uses none)
    tainted,    \* threads whose box was not at rest when they took it
    sem,        \* value of tx_fifo->sem
    semq,       \* threads suspended on it, in FIFO order
    freelist,   \* tx_fifo->freelist
    result,     \* result of each box
    comp,       \* completion of each box: None, Done or the thread that waits
    mailbox,    \* what each mailbox transmits: a thread's frame, Empty, Old
    order,      \* the mailboxes that are not empty, as they were requested
    rqcp,       \* RQCPM: mailboxes whose request completed
    txok,       \* TXOKM: mailboxes whose frame was acknowledged
    ackerr      \* ERRINT with LEC = RT_CAN_BUS_ACK_ERR

vars == <<pc, box, tainted, sem, semq, freelist, result, comp, mailbox, order,
          rqcp, txok, ackerr>>

(* Where the box is in the hands of the thread. *)
Using == {"taken", "fresh", "sent", "blocked", "woken", "return", "refused"}

-----------------------------------------------------------------------------
(* rt_can_open: all boxes are free. *)
Init ==
    /\ pc = [t \in Threads |-> "idle"]
    /\ box = [t \in Threads |-> 0]
    /\ tainted = {}
    /\ sem = SndBoxes
    /\ semq = <<>>
    /\ freelist = [i \in 1 .. SndBoxes |-> i - 1]
    /\ result = [b \in Boxes |-> "ok"]
    /\ comp = [b \in Boxes |-> None]
    /\ mailbox = [b \in Boxes |-> Empty]
    /\ order = <<>>
    /\ rqcp = {}
    /\ txok = {}
    /\ ackerr = FALSE

(* rt_can_write up to rt_sem_take: with a frame of its own, the thread gets *)
(* a token of the semaphore or waits for one.                               *)
Write(t) ==
    /\ pc[t] = "idle"
    /\ IF sem > 0
       THEN /\ sem' = sem - 1
            /\ pc' = [pc EXCEPT ![t] = "token"]
            /\ UNCHANGED semq
       ELSE /\ semq' = Append(semq, t)
            /\ pc' = [pc EXCEPT ![t] = "semwait"]
            /\ UNCHANGED sem
    /\ UNCHANGED <<box, tainted, freelist, result, comp, mailbox, order, rqcp,
                   txok, ackerr>>

(* The first box of the list, which the code does not test for emptiness,   *)
(* and its result is WAIT.  (An interrupt between the two is one before     *)
(* both: it touches neither the list nor the box the thread remembers.)     *)
TakeBoxBy(t, rest) ==
    /\ pc[t] = "token"
    /\ pc' = [pc EXCEPT ![t] = "taken"]
    /\ LET b == Head(freelist)
       IN  /\ box' = [box EXCEPT ![t] = b]
           /\ tainted' = IF mailbox[b] = Empty /\ b \notin rqcp
                         THEN tainted ELSE tainted \cup {t}
           /\ result' = [result EXCEPT ![b] = "wait"]
    /\ freelist' = rest
    /\ UNCHANGED <<sem, semq, comp, mailbox, order, rqcp, txok, ackerr>>

TakeBoxLeft(t) == TakeBoxBy(t, freelist)
TakeBox(t) == TakeBoxBy(t, Tail(freelist))

(* rt_completion_init *)
CompletionInit(t) ==
    /\ pc[t] = "taken"
    /\ pc' = [pc EXCEPT ![t] = "fresh"]
    /\ comp' = [comp EXCEPT ![box[t]] = None]
    /\ UNCHANGED <<box, tainted, sem, semq, freelist, result, mailbox, order,
                   rqcp, txok, ackerr>>

(* sendmsg: the frame goes into the mailbox if that is empty.  The request  *)
(* to transmit clears the mailbox's status bits.                            *)
SendMsg(t) ==
    /\ pc[t] = "fresh"
    /\ mailbox[box[t]] = Empty
    /\ pc' = [pc EXCEPT ![t] = "sent"]
    /\ mailbox' = [mailbox EXCEPT ![box[t]] = t]
    /\ order' = Append(order, box[t])
    /\ rqcp' = rqcp \ {box[t]}
    /\ txok' = txok \ {box[t]}
    /\ UNCHANGED <<box, tainted, sem, semq, freelist, result, comp, ackerr>>

(* sendmsg: the mailbox is not empty. *)
SendRefused(t) ==
    /\ pc[t] = "fresh"
    /\ mailbox[box[t]] # Empty
    /\ pc' = [pc EXCEPT ![t] = "refused"]
    /\ UNCHANGED <<box, tainted, sem, semq, freelist, result, comp, mailbox,
                   order, rqcp, txok, ackerr>>

(* rt_completion_wait: a completion that is done is consumed; else the      *)
(* thread registers itself and is suspended.                                *)
CompletionWaitBy(t, done) ==
    /\ pc[t] = "sent"
    /\ pc' = [pc EXCEPT ![t] = IF done THEN "return" ELSE "blocked"]
    /\ comp' = [comp EXCEPT ![box[t]] = IF done THEN None ELSE t]
    /\ UNCHANGED <<box, tainted, sem, semq, freelist, result, mailbox, order,
                   rqcp, txok, ackerr>>

CompletionWaitBlind(t) == CompletionWaitBy(t, FALSE)
CompletionWait(t) == CompletionWaitBy(t, comp[box[t]] = Done)

(* rt_completion_wait after the suspension: __try_again with timeout 0. *)
CompletionRetry(t) ==
    /\ pc[t] = "woken"
    /\ pc' = [pc EXCEPT ![t] = "return"]
    /\ comp' = [comp EXCEPT ![box[t]] = IF @ = Done THEN None ELSE @]
    /\ UNCHANGED <<box, tainted, sem, semq, freelist, result, mailbox, order,
                   rqcp, txok, ackerr>>

(* The box goes back to the list, after the result was read or the frame    *)
(* refused.                                                                 *)
GiveBack(t) ==
    /\ pc[t] \in {"return", "refused"}
    /\ pc' = [pc EXCEPT ![t] =
                 IF @ = "return" /\ result[box[t]] = "ok" THEN "good"
                                                          ELSE "dropped"]
    /\ freelist' = Append(freelist, box[t])
    /\ box' = [box EXCEPT ![t] = 0]
    /\ UNCHANGED <<tainted, sem, semq, result, comp, mailbox, order, rqcp, txok,
                   ackerr>>

(* rt_sem_release: the token goes to the first thread that waits, or the    *)
(* value is incremented.  The write is over: it reported the frame sent or  *)
(* dropped, and a frame still in the mailbox is nobody's.                   *)
SemReleaseBy(t, left) ==
    /\ pc[t] \in {"good", "dropped"}
    /\ IF semq = <<>>
       THEN /\ sem' = sem + 1
            /\ pc' = [pc EXCEPT ![t] = "idle"]
            /\ UNCHANGED semq
       ELSE /\ sem' = left
            /\ pc' = [pc EXCEPT ![t] = "idle", ![Head(semq)] = "token"]
            /\ semq' = Tail(semq)
    /\ tainted' = tainted \ {t}
    /\ mailbox' = [b \in Boxes |-> IF mailbox[b] = t THEN Old ELSE mailbox[b]]
    /\ UNCHANGED <<box, freelist, result, comp, order, rqcp, txok, ackerr>>

SemReleaseTwice(t) == SemReleaseBy(t, sem + 1)
SemRelease(t) == SemReleaseBy(t, sem)

-----------------------------------------------------------------------------
(* The controller transmits in the order of the requests (TXFP = ENABLE).   *)
(* The frame is acknowledged, which also clears the last error code.        *)
Transmit ==
    /\ order # <<>>
    /\ LET b == Head(order)
       IN  /\ mailbox' = [mailbox EXCEPT ![b] = Empty]
           /\ rqcp' = rqcp \cup {b}
           /\ txok' = txok \cup {b}
    /\ order' = Tail(order)
    /\ ackerr' = FALSE
    /\ UNCHANGED <<pc, box, tainted, sem, semq, freelist, result, comp>>

(* Nobody acknowledged the frame; it stays in its mailbox. *)
AckError ==
    /\ order # <<>>
    /\ ackerr' = TRUE
    /\ UNCHANGED <<pc, box, tainted, sem, semq, freelist, result, comp, mailbox,
                   order, rqcp, txok>>

(* rt_hw_can_isr(TX_DONE or TX_FAIL) for the boxes S: the result is         *)
(* written, and rt_completion_done wakes who waits.                         *)
Complete(S, r) ==
    /\ result' = [b \in Boxes |-> IF b \in S THEN r ELSE result[b]]
    /\ comp' = [b \in Boxes |-> IF b \in S THEN Done ELSE comp[b]]
    /\ pc' = [t \in Threads |->
                 IF \E b \in S : comp[b] = t THEN "woken" ELSE pc[t]]

(* CAN_TX_IRQHandler: reports the mailboxes whose request completed, and    *)
(* clears the flags.                                                        *)
TxIsrBy(Completed) ==
    /\ rqcp # {}
    /\ Complete(Completed, "ok")
    /\ rqcp' = {}
    /\ txok' = txok \ rqcp
    /\ UNCHANGED <<box, tainted, sem, semq, freelist, mailbox, order, ackerr>>

TxIsrAll == TxIsrBy(Boxes)
TxIsr == TxIsrBy(rqcp)

(* The mailbox an acknowledgement error is reported for: the first without  *)
(* TXOK, whether or not it transmits anything.                              *)
FirstOf(S) == {b \in S : \A c \in S : b <= c}
FailBoxEmpty ==
    FirstOf({b \in MailboxNos : b \notin Boxes \/ mailbox[b] = Empty})
FailBox == FirstOf(MailboxNos \ txok)

(* CAN_SCE_IRQHandler with the error code of an acknowledgement error. *)
SceIsr ==
    /\ ackerr
    /\ ackerr' = FALSE
    /\ Complete(FailBox, "err")
    /\ UNCHANGED <<box, tainted, sem, semq, freelist, mailbox, order, rqcp,
                   txok>>

Step(t) ==
    \/ TakeBox(t)
    \/ CompletionInit(t)
    \/ SendMsg(t)
    \/ SendRefused(t)
    \/ CompletionWait(t)
    \/ CompletionRetry(t)
    \/ GiveBack(t)
    \/ SemRelease(t)

Next ==
    \/ \E t \in Threads : Write(t) \/ Step(t)
    \/ Transmit
    \/ AckError
    \/ TxIsr
    \/ SceIsr

(* Threads run, pending interrupts are taken, and the bus works: a frame    *)
(* that is retransmitted is acknowledged in the end.                        *)
Fairness ==
    /\ \A t \in Threads : WF_vars(Step(t))
    /\ WF_vars(Transmit)
    /\ WF_vars(TxIsr)

Spec == Init /\ [][Next]_vars /\ Fairness

-----------------------------------------------------------------------------
(* Every variable has its type, and the semaphore counts the boxes: its     *)
(* value and the threads with a token or a box make SndBoxes.               *)
TypeOK ==
    /\ pc \in [Threads ->
                  Using \cup {"idle", "semwait", "token", "good", "dropped"}]
    /\ box \in [Threads -> Boxes]
    /\ tainted \subseteq Threads
    /\ sem \in 0 .. SndBoxes
    /\ semq \in Seq(Threads)
    /\ freelist \in Seq(Boxes)
    /\ result \in [Boxes -> {"ok", "err", "wait"}]
    /\ comp \in [Boxes -> Threads \cup {None, Done}]
    /\ mailbox \in [Boxes -> Threads \cup {Empty, Old}]
    /\ order \in Seq(Boxes) /\ IsInjective(order)
    /\ ToSet(order) = {b \in Boxes : mailbox[b] # Empty}
    /\ rqcp \subseteq Boxes /\ txok \subseteq Boxes
    /\ ackerr \in BOOLEAN
    /\ sem + Cardinality({t \in Threads : pc[t] \notin {"idle", "semwait"}})
           = SndBoxes

(* No box is used twice: the boxes in use are different and not on the free *)
(* list, a thread with a token finds a box on the list, and whoever waits   *)
(* on a completion is the one user of its box ("only one thread can suspend *)
(* on complete").                                                           *)
BoxesNotShared ==
    /\ \A t, u \in Threads : pc[t] \in Using /\ pc[u] \in Using /\ t # u
           => box[t] # box[u]
    /\ \A t \in Threads : pc[t] \in Using => box[t] \notin ToSet(freelist)
    /\ IsInjective(freelist)
    /\ Cardinality({t \in Threads : pc[t] = "token"}) <= Len(freelist)
    /\ \A b \in Boxes : comp[b] \in Threads
           => pc[comp[b]] = "blocked" /\ box[comp[b]] = b
    /\ \A t \in Threads : pc[t] = "blocked" => comp[box[t]] = t

(* The frame of t waits to be transmitted: it was not acknowledged. *)
InMailbox(t) == \E b \in Boxes : mailbox[b] = t

(* A write that reports its frame sent has sent it: no interrupt of another *)
(* box and no earlier state of the box is taken for the end of this frame.  *)
(* The exception is a box that was not at rest when it was taken, because   *)
(* the error interrupt ended the wait of its last user.                     *)
OkMeansSent ==
    \A t \in Threads : pc[t] = "good" /\ t \notin tainted => ~InMailbox(t)

(* The error interrupt names a box that exists: rt_hw_can_isr writes to     *)
(* tx_fifo->buffer[no] without testing the number.                          *)
FailIndexInRange == ackerr => FailBox # {} /\ FailBox \subseteq Boxes

(* Every write returns when the bus works: no completion is lost between    *)
(* sendmsg and rt_completion_wait, no token is lost, no sender is passed    *)
(* over for ever.                                                           *)
SenderReturns == \A t \in Threads : (pc[t] # "idle") ~> (pc[t] = "idle")
=============================================================================
