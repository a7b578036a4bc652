------------------------------- MODULE Mutex -------------------------------
(***************************************************************************)
(* The kernel's mutex with priority inheritance: rt_mutex_take,            *)
(* rt_mutex_release, rt_mutex_setprioceiling and rt_mutex_drop_thread      *)
(* (ipc.c), the thread timer that ends a timed wait, and what the death of *)
(* a thread does to its mutexes (thread.c).                                *)
(*                                                                         *)
(* The kernel runs on one CPU.  A mutex operation holds the scheduler lock *)
(* (rt_spin_lock is rt_enter_critical here), so no other thread runs       *)
(* inside it; the tick interrupt does, but it only takes a thread off a    *)
(* list and makes it ready, which it could as well have done before the    *)
(* operation, and the parts that read the lists disable interrupts.  So    *)
(* each operation is one step up to the point where the thread gives the   *)
(* CPU away: a take that has to wait is two, TakeWait and, if the wait     *)
(* timed out, TakeTimedOut, which runs only when the scheduler picks the   *)
(* thread again.                                                           *)
(*                                                                         *)
(* As in the code a smaller number is a higher priority, and NoPrio stands *)
(* for 0xff.  A take with timeout 0 of a mutex that is not free, a release *)
(* by a thread that does not own it, and a take beyond RT_MUTEX_HOLD_MAX   *)
(* return an error and change nothing.                                     *)
(***************************************************************************)
EXTENDS Integers, Sequences, FiniteSets, SequencesExt

CONSTANTS
    Threads,      \* the threads
    Mutexes,      \* the mutexes, numbers: the order in which they are taken
    InitPrio,     \* init_priority of each thread
    NoPrio,       \* 0xff: larger than every priority
    HoldMax,      \* RT_MUTEX_HOLD_MAX
    Ceilings,     \* the ceilings rt_mutex_setprioceiling is called with
    NoThread,     \* RT_NULL as an owner
    NoMutex       \* RT_NULL as a pending object

ASSUME ThreadsAssumption ==
    /\ IsFiniteSet(Threads) /\ Threads # {}
    /\ NoThread \notin Threads

ASSUME MutexesAssumption ==
    /\ IsFiniteSet(Mutexes) /\ Mutexes \subseteq Nat
    /\ NoMutex \notin Mutexes
    /\ HoldMax \in Nat \ {0}

ASSUME PrioAssumption ==
    /\ NoPrio \in Nat
    /\ InitPrio \in [Threads -> 0 .. NoPrio - 1]
    /\ Ceilings \subseteq 0 .. NoPrio - 1

VARIABLES
    curr,      \* current_priority of each thread
    stat,      \* "ready" (or running), "mutex", "sleep" (suspended), "closed"
    timed,     \* is the thread timer running?
    pending,   \* pending_object of each thread
    owner,     \* owner of each mutex
    hold,      \* how often the owner has taken it
    prio,      \* mutex->priority: the highest priority waiting
    ceiling,   \* mutex->ceiling_priority
    susp,      \* the mutex's suspend_thread list
    leaked     \* history: threads whose inherited priority was not taken back

vars ==
    <<curr, stat, timed, pending, owner, hold, prio, ceiling, susp, leaked>>

-----------------------------------------------------------------------------
(* The scheduler: the running thread is a ready one of the highest priority *)
(* (threads of equal priority share the CPU by time slices).                *)
Runs(t) ==
    /\ stat[t] = "ready"
    /\ \A u \in Threads : stat[u] = "ready" => curr[t] <= curr[u]

(* A running thread that is not inside a take. *)
Calls(t) == Runs(t) /\ pending[t] = NoMutex

Held(t) == {m \in Mutexes : owner[m] = t}

(* rt_susp_list_enqueue with RT_IPC_FLAG_PRIO: before the first thread of a *)
(* lower priority, behind those of its own.                                 *)
Enqueue(q, t, cur) ==
    LET lower == {i \in DOMAIN q : cur[t] < cur[q[i]]}
    IN  InsertAt(q, IF lower = {} THEN Len(q) + 1 ELSE Min(lower), t)

(* A thread whose priority has changed gets its place again. *)
KeepPlace(q, t, cur) == q
Requeue(q, t, cur) == Enqueue(RemoveFirst(q, t), t, cur)

(* _mutex_update_priority: the priority of the first thread that waits. *)
FirstPrio(q, cur) == IF q = <<>> THEN NoPrio ELSE cur[Head(q)]

(* _thread_get_mutex_priority: the highest among the thread's own priority, *)
(* the priorities of the mutexes it holds (held) and their ceilings.        *)
MutexPriority(t, held, mp, ceil) ==
    Min({InitPrio[t]} \cup {mp[m] : m \in held} \cup {ceil[m] : m \in held})

(* One round of the loop of _thread_update_priority: the thread whose       *)
(* priority has changed, if it waits for a mutex, is put in its new place   *)
(* of that mutex's list, and the owner's priority is computed anew.         *)
Round(s) ==
    IF s.thread = NoThread THEN s
    ELSE IF s.waits[s.thread] = NoMutex THEN [s EXCEPT !.thread = NoThread]
    ELSE LET m   == s.waits[s.thread]
             q   == Requeue(s.susp[m], s.thread, s.curr)
             mp  == [s.prio EXCEPT ![m] = FirstPrio(q, s.curr)]
             o   == owner[m]
             p   == MutexPriority(o, Held(o), mp, s.ceiling)
         IN  [s EXCEPT !.susp[m] = q, !.prio = mp, !.curr[o] = p,
                       !.thread = IF p = s.curr[o] THEN NoThread ELSE o]

(* _thread_update_priority(t, p): sets the priority of t and follows the    *)
(* chain of waiting owners until one keeps its priority.  The loop has no   *)
(* bound, and the chain may be a cycle; no thread gets the same priority    *)
(* twice, so Turns are enough.                                              *)
Turns == Cardinality(Threads) * NoPrio

Chain(s) ==
    LET chain[n \in 0 .. Turns] == IF n = 0 THEN s ELSE Round(chain[n - 1])
    IN  chain

UpdatePriority(s, t, p) == Chain([s EXCEPT !.curr[t] = p, !.thread = t])[Turns]

(* A kernel that raises the owner but none of those it waits for. *)
UpdateOwnerOnly(s, t, p) == [s EXCEPT !.curr[t] = p]

(* What the priority functions read and write, w being what each thread     *)
(* waits for: a suspended thread's pending object.                          *)
Lists(w, mp, q, ceil) ==
    [curr |-> curr, prio |-> mp, susp |-> q, ceiling |-> ceil,
     waits |-> w, thread |-> NoThread]

Waits == [t \in Threads |-> IF stat[t] = "mutex" THEN pending[t] ELSE NoMutex]

Apply(s) == curr' = s.curr /\ prio' = s.prio /\ susp' = s.susp

(* A priority that is set again is a correct one. *)
StillLeaked == {t \in leaked : curr'[t] = curr[t]}

-----------------------------------------------------------------------------
Init ==
    /\ curr = InitPrio
    /\ stat = [t \in Threads |-> "ready"]
    /\ timed = [t \in Threads |-> FALSE]
    /\ pending = [t \in Threads |-> NoMutex]
    /\ owner = [m \in Mutexes |-> NoThread]
    /\ hold = [m \in Mutexes |-> 0]
    /\ prio = [m \in Mutexes |-> NoPrio]
    /\ ceiling = [m \in Mutexes |-> NoPrio]
    /\ susp = [m \in Mutexes |-> <<>>]
    /\ leaked = {}

(* rt_mutex_take of a free mutex: the taker becomes the owner and rises to  *)
(* the ceiling.                                                             *)
TakeFree(t, m) ==
    /\ Calls(t)
    /\ owner[m] = NoThread
    /\ owner' = [owner EXCEPT ![m] = t]
    /\ hold' = [hold EXCEPT ![m] = 1]
    /\ prio' = [prio EXCEPT ![m] = NoPrio]
    /\ curr' = IF ceiling[m] < curr[t] THEN [curr EXCEPT ![t] = ceiling[m]]
                                       ELSE curr
    /\ leaked' = StillLeaked
    /\ UNCHANGED <<stat, timed, pending, ceiling, susp>>

(* rt_mutex_take by the owner: the hold count. *)
TakeAgain(t, m) ==
    /\ Calls(t)
    /\ owner[m] = t
    /\ hold[m] < HoldMax
    /\ hold' = [hold EXCEPT ![m] = @ + 1]
    /\ UNCHANGED <<curr, stat, timed, pending, owner, prio, ceiling, susp,
                   leaked>>

(* The application's side: mutexes that are waited for without a timeout    *)
(* are taken in the order of their numbers.                                 *)
InOrder(t, m) == \A h \in Held(t) : h < m

(* rt_mutex_take of a mutex another thread owns, with a timeout (tmo) or    *)
(* RT_WAITING_FOREVER: the thread is queued and suspended, and the mutex    *)
(* and its owner inherit its priority.                                      *)
TakeWaitBy(t, m, tmo, chain) ==
    /\ Calls(t)
    /\ owner[m] \notin {NoThread, t}
    /\ tmo \/ InOrder(t, m)
    /\ stat' = [stat EXCEPT ![t] = "mutex"]
    /\ pending' = [pending EXCEPT ![t] = m]
    /\ timed' = [timed EXCEPT ![t] = tmo]
    /\ LET p == curr[t]
           q == [susp EXCEPT ![m] = Enqueue(@, t, curr)]
           s == Lists([Waits EXCEPT ![t] = m],
                      [prio EXCEPT ![m] = IF p < @ THEN p ELSE @], q, ceiling)
       IN  Apply(IF p < prio[m] /\ p < curr[owner[m]]
                 THEN IF chain THEN UpdatePriority(s, owner[m], p)
                               ELSE UpdateOwnerOnly(s, owner[m], p)
                 ELSE s)
    /\ leaked' = StillLeaked
    /\ UNCHANGED <<owner, hold, ceiling>>

TakeWaitOwnerOnly(t, m, tmo) == TakeWaitBy(t, m, tmo, FALSE)
TakeWait(t, m, tmo) == TakeWaitBy(t, m, tmo, TRUE)

(* What is left to do once t is off the list of the mutex m it waited for:  *)
(* the mutex's priority is that of the next waiter, and the owner's is      *)
(* computed anew, but only if it is equal to that of t.  If t has got       *)
(* another priority since it gave its own to the owner, the owner keeps     *)
(* what it inherited.                                                       *)
WithdrawBy(t, m, q, same) ==
    LET o == owner[m]
        s == Lists([Waits EXCEPT ![t] = NoMutex],
                   [prio EXCEPT ![m] = FirstPrio(q, curr)],
                   [susp EXCEPT ![m] = q], ceiling)
        p == MutexPriority(o, Held(o), s.prio, ceiling)
    IN  /\ Apply(IF o # NoThread /\ same /\ p # curr[o]
                 THEN UpdatePriority(s, o, p) ELSE s)
        /\ leaked' = StillLeaked \cup
               {u \in {o} \ {NoThread} : curr[u] # curr[t] /\ curr[u] < p}

WithdrawNoUpdate(t, m, q) == WithdrawBy(t, m, q, FALSE)
Withdraw(t, m, q) == WithdrawBy(t, m, q, curr[owner[m]] = curr[t])

(* The end of rt_mutex_take after a timeout.  A take whose thread got the   *)
(* mutex has nothing left to do.                                            *)
TakeTimedOut(t) ==
    /\ Runs(t)
    /\ pending[t] # NoMutex
    /\ Withdraw(t, pending[t], susp[pending[t]])
    /\ pending' = [pending EXCEPT ![t] = NoMutex]
    /\ UNCHANGED <<stat, timed, owner, hold, ceiling>>

(* _thread_timeout in the tick interrupt: the thread leaves the list it is  *)
(* suspended on and is ready; the mutex does not hear of it.                *)
TimeoutBy(t, lists) ==
    /\ stat[t] \in {"mutex", "sleep"}
    /\ timed[t]
    /\ stat' = [stat EXCEPT ![t] = "ready"]
    /\ timed' = [timed EXCEPT ![t] = FALSE]
    /\ susp' = lists
    /\ UNCHANGED <<curr, pending, owner, hold, prio, ceiling, leaked>>

TimeoutStillQueued(t) == TimeoutBy(t, susp)
Timeout(t) == TimeoutBy(t, [m \in Mutexes |-> RemoveFirst(susp[m], t)])

(* rt_thread_mdelay, or a wait for something that is not a mutex. *)
Sleep(t) ==
    /\ Calls(t)
    /\ stat' = [stat EXCEPT ![t] = "sleep"]
    /\ timed' = [timed EXCEPT ![t] = TRUE]
    /\ UNCHANGED <<curr, pending, owner, hold, prio, ceiling, susp, leaked>>

(* The owner gives up the mutexes S: each goes to the first thread of its   *)
(* list, which is ready with the mutex in its hands, or is free.            *)
HandOver(S, st, cur) ==
    LET woken == {Head(susp[m]) : m \in {n \in S : susp[n] # <<>>}}
        Next1(m) == IF susp[m] = <<>> THEN NoThread ELSE Head(susp[m])
        Rest(m)  == IF susp[m] = <<>> THEN <<>> ELSE Tail(susp[m])
    IN  /\ owner' = [m \in Mutexes |-> IF m \in S THEN Next1(m) ELSE owner[m]]
        /\ hold' = [m \in Mutexes |->
                       IF m \in S THEN IF susp[m] = <<>> THEN 0 ELSE 1
                                  ELSE hold[m]]
        /\ susp' = [m \in Mutexes |-> IF m \in S THEN Rest(m) ELSE susp[m]]
        /\ prio' = [m \in Mutexes |-> IF m \in S THEN FirstPrio(Rest(m), cur)
                                                 ELSE prio[m]]
        /\ stat' = [t \in Threads |-> IF t \in woken THEN "ready" ELSE st[t]]
        /\ timed' = [t \in Threads |-> t \notin woken /\ timed[t]]
        /\ pending' = [t \in Threads |-> IF t \in woken THEN NoMutex
                                                        ELSE pending[t]]

(* rt_mutex_release of a mutex taken more than once. *)
ReleaseNested(t, m) ==
    /\ Calls(t)
    /\ owner[m] = t
    /\ hold[m] > 1
    /\ hold' = [hold EXCEPT ![m] = @ - 1]
    /\ UNCHANGED <<curr, stat, timed, pending, owner, prio, ceiling, susp,
                   leaked>>

(* _check_and_update_prio: the owner's priority is computed anew when the   *)
(* mutex has a ceiling or the priority of the owner.                        *)
Restored(t, m) ==
    IF ceiling[m] # NoPrio \/ curr[t] = prio[m]
    THEN [curr EXCEPT ![t] = MutexPriority(t, Held(t) \ {m}, prio, ceiling)]
    ELSE curr

(* The last rt_mutex_release: the mutex changes hands. *)
Release(t, m) ==
    /\ Calls(t)
    /\ owner[m] = t
    /\ hold[m] = 1
    /\ curr' = Restored(t, m)
    /\ HandOver({m}, stat, curr')
    /\ leaked' = StillLeaked
    /\ UNCHANGED ceiling

(* rt_mutex_setprioceiling, by any thread: the owner's priority follows. *)
SetCeiling(t, m, c) ==
    /\ Calls(t)
    /\ ceiling' = [ceiling EXCEPT ![m] = c]
    /\ LET o == owner[m]
           s == Lists(Waits, prio, susp, ceiling')
           p == MutexPriority(o, Held(o), prio, ceiling')
       IN  Apply(IF o # NoThread /\ p # curr[o]
                 THEN UpdatePriority(s, o, p) ELSE s)
    /\ leaked' = StillLeaked
    /\ UNCHANGED <<stat, timed, pending, owner, hold>>

(* _thread_exit: the thread ends and releases what it holds, however often  *)
(* it took it.  (Nobody reads the priority of a closed thread again.)       *)
Exit(t) ==
    /\ Calls(t)
    /\ HandOver(Held(t), [stat EXCEPT ![t] = "closed"], curr)
    /\ UNCHANGED <<curr, ceiling, leaked>>

(* rt_thread_detach (or delete) of t by another thread u.  The wait of t    *)
(* ends (rt_mutex_drop_thread), but the mutexes it holds stay with it:      *)
(* rt_mutex_release compares the owner with the thread that calls it, and   *)
(* that is u.                                                               *)
Detach(u, t) ==
    /\ Calls(u)
    /\ u # t
    /\ stat[t] # "closed"
    /\ stat' = [stat EXCEPT ![t] = "closed"]
    /\ timed' = [timed EXCEPT ![t] = FALSE]
    /\ pending' = [pending EXCEPT ![t] = NoMutex]
    /\ hold' = [m \in Mutexes |-> IF owner[m] = t THEN 1 ELSE hold[m]]
    /\ IF pending[t] = NoMutex
       THEN UNCHANGED <<curr, prio, susp, leaked>>
       ELSE Withdraw(t, pending[t], RemoveFirst(susp[pending[t]], t))
    /\ UNCHANGED <<owner, ceiling>>

Next ==
    \/ \E t \in Threads, m \in Mutexes :
          \/ TakeFree(t, m)
          \/ TakeAgain(t, m)
          \/ \E tmo \in BOOLEAN : TakeWait(t, m, tmo)
          \/ ReleaseNested(t, m)
          \/ Release(t, m)
          \/ \E c \in Ceilings : SetCeiling(t, m, c)
    \/ \E t \in Threads :
          \/ TakeTimedOut(t)
          \/ Timeout(t)
          \/ Sleep(t)
          \/ Exit(t)
          \/ \E u \in Threads : Detach(u, t)

Spec == Init /\ [][Next]_vars

-----------------------------------------------------------------------------
(* Every variable has its type: a suspended thread is on the list of the    *)
(* mutex it waits for and on no other, and a free mutex is held 0 times.    *)
TypeOK ==
    /\ curr \in [Threads -> 0 .. NoPrio - 1]
    /\ stat \in [Threads -> {"ready", "mutex", "sleep", "closed"}]
    /\ timed \in [Threads -> BOOLEAN]
    /\ pending \in [Threads -> Mutexes \cup {NoMutex}]
    /\ owner \in [Mutexes -> Threads \cup {NoThread}]
    /\ hold \in [Mutexes -> 0 .. HoldMax]
    /\ prio \in [Mutexes -> 0 .. NoPrio]
    /\ ceiling \in [Mutexes -> Ceilings \cup {NoPrio}]
    /\ susp \in [Mutexes -> Seq(Threads)]
    /\ leaked \subseteq Threads
    /\ \A m \in Mutexes :
          /\ (hold[m] = 0) <=> (owner[m] = NoThread)
          /\ IsInjective(susp[m])
          /\ ToSet(susp[m]) =
                 {t \in Threads : stat[t] = "mutex" /\ pending[t] = m}

(* Priority inheritance: whoever holds a mutex runs at least at the         *)
(* priority of every thread that waits for it, also when that thread's own  *)
(* priority was inherited, through any chain of owners that wait            *)
(* themselves, and after timeouts and the death of waiters.                 *)
Inheritance ==
    \A m \in Mutexes : \A i \in DOMAIN susp[m] :
        curr[owner[m]] <= curr[susp[m][i]]

(* What was inherited is given back: a thread that holds no mutex runs at   *)
(* its own priority.  The exception is a thread that kept too high a        *)
(* priority when a waiter whose priority was not its own withdrew.          *)
PriorityRestored ==
    \A t \in Threads :
        stat[t] # "closed" /\ Held(t) = {} /\ t \notin leaked
            => curr[t] = InitPrio[t]

(* A mutex that threads wait for is never left free, and changes hands only *)
(* to the waiter of the highest priority, whatever happened to the          *)
(* priorities since they queued.                                            *)
HandOffToHighest ==
    [][\A m \in Mutexes :
          susp[m] # <<>> /\ owner'[m] # owner[m]
              => /\ owner'[m] \in ToSet(susp[m])
                 /\ \A t \in ToSet(susp[m]) : curr[owner'[m]] <= curr[t]]_vars
=============================================================================
