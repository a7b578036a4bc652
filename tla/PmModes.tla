------------------------------ MODULE PmModes ------------------------------
(***************************************************************************)
(* The power manager of pm.c: the requests that keep the system out of the *)
(* deeper sleep modes, the mode the idle thread selects from them, the     *)
(* devices and the application it tells, and the running mode.             *)
(*                                                                         *)
(* A call is one action: requests and releases change the manager with     *)
(* interrupts disabled; the list of devices and the callback are changed   *)
(* without, by threads, which the idle thread does not preempt (two such   *)
(* calls at once are left out).  Calls of threads and interrupt handlers   *)
(* come between any two steps of the idle thread, and none while the       *)
(* processor sleeps.  Time is an input here (which delays have expired,    *)
(* how near the next timeout is): PmTickless models it.                    *)
(***************************************************************************)
EXTENDS Naturals, FiniteSetsExt

CONSTANTS
    CountMax,   \* 255, where the request counts saturate
    MaxOwed,    \* outstanding requests of one mode (a bound for TLC)
    ReqModes,   \* sleep modes that clients request
    RunModes,   \* running modes that clients enter
    MaxListed,  \* entries of one device in the list (a bound for TLC)
    Modules,    \* module ids
    Devices     \* devices with PM operations

\* Sleep modes, the deeper the greater.
NONE == 0
IDLE == 1
LIGHT == 2
DEEP == 3
SleepModes == 0..5
Deepest == 5          \* PM_SLEEP_MODE_SHUTDOWN
TableModes == SleepModes \ {Deepest}   \* modes of sleep_status
NORMAL_SPEED == 1     \* RT_PM_DEFAULT_RUN_MODE
PM_POWER_ID == 1

ASSUME ModesAssumption ==
    /\ CountMax \in Nat \ {0} /\ MaxOwed \in Nat /\ MaxListed \in Nat
    /\ ReqModes \subseteq SleepModes
    /\ RunModes \subseteq 0..4   \* rt_pm_run_enter lets PM_RUN_MODE_MAX pass

VARIABLES
    modes,         \* _pm.modes: request counts
    table,         \* _pm.sleep_status: the modules that hold each mode
    reqStatus,     \* modules with module_status[].req_status
    busy,          \* modules with module_status[].busy_flag
    defaultSleep,  \* _pm_default_sleep
    runMode,       \* _pm.run_mode
    pending,       \* RT_PM_FREQUENCY_PENDING
    hwRun,         \* running mode last given to ops->run
    devs,          \* _pm.device_list: how often each device is in it
    suspendedFor,  \* sleep mode each device is suspended for, NONE if it is not
    notify,        \* an application callback is set
    told,          \* the application was told ENTER, and not EXIT yet
    idle,          \* next step of the idle thread: "scale", "sleep" or "wake"
    asleep,        \* mode the processor sleeps in, NONE while it runs
    \* History variables, read by the properties only.
    owed,          \* requests not released yet
    saturated      \* modes whose count has left out a request

reqVars == <<modes, table, reqStatus, busy, defaultSleep, owed, saturated>>
runVars == <<runMode, pending, hwRun>>
devVars == <<devs, suspendedFor, notify, told>>
vars == <<reqVars, runVars, devVars, idle, asleep>>

TypeOK ==
    /\ modes \in [SleepModes -> 0..CountMax]
    /\ table \in [TableModes -> SUBSET Modules]
    /\ reqStatus \subseteq Modules
    /\ busy \subseteq Modules
    /\ defaultSleep \in SleepModes
    /\ runMode \in 0..4 /\ pending \in BOOLEAN /\ hwRun \in 0..4
    /\ devs \in [Devices -> 0..MaxListed]
    /\ suspendedFor \in [Devices -> SleepModes]
    /\ notify \in BOOLEAN /\ told \in BOOLEAN
    /\ idle \in {"scale", "sleep", "wake"}
    /\ asleep \in SleepModes
    /\ owed \in [SleepModes -> Nat]
    /\ saturated \subseteq SleepModes

\* rt_system_pm_init: the power-on request of RT_PM_DEFAULT_SLEEP_MODE.
Init ==
    /\ modes = [m \in SleepModes |-> IF m = LIGHT THEN 1 ELSE 0]
    /\ table = [m \in TableModes |-> {}]
    /\ reqStatus = Modules \cap {PM_POWER_ID}
    /\ busy = {}
    /\ defaultSleep = LIGHT
    /\ runMode = NORMAL_SPEED /\ pending = FALSE /\ hwRun = NORMAL_SPEED
    /\ devs = [d \in Devices |-> 0]
    /\ suspendedFor = [d \in Devices |-> NONE]
    /\ notify = FALSE /\ told = FALSE
    /\ idle = "scale"
    /\ asleep = NONE
    /\ owed = modes
    /\ saturated = {}

-----------------------------------------------------------------------------
(* Requests and releases. *)

Call == idle # "wake"

Counted(m, count) ==
    /\ owed[m] < MaxOwed
    /\ modes' = [modes EXCEPT ![m] = count]
    /\ owed' = [owed EXCEPT ![m] = @ + 1]
    /\ saturated' = IF modes[m] < CountMax THEN saturated ELSE saturated \cup {m}

\* Mutant: no limit.
CountUpUnlimited(m) == Counted(m, modes[m] + 1)

\* One count up, if it is not at its limit.
CountUp(m) == Counted(m, IF modes[m] < CountMax THEN modes[m] + 1 ELSE modes[m])

\* One count down, if it is not zero.
CountDown(m) ==
    /\ modes' = [modes EXCEPT ![m] = IF @ > 0 THEN @ - 1 ELSE 0]
    /\ owed' = [owed EXCEPT ![m] = IF @ > 0 THEN @ - 1 ELSE 0]
    /\ UNCHANGED saturated

CountClear(m) ==
    /\ modes' = [modes EXCEPT ![m] = 0]
    /\ owed' = [owed EXCEPT ![m] = 0]
    /\ saturated' = saturated \ {m}

rt_pm_request(m) ==
    /\ Call /\ CountUp(m)
    /\ UNCHANGED <<table, reqStatus, busy, defaultSleep, runVars, devVars, idle, asleep>>

rt_pm_release(m) ==
    /\ Call /\ CountDown(m)
    /\ UNCHANGED <<table, reqStatus, busy, defaultSleep, runVars, devVars, idle, asleep>>

rt_pm_release_all(m) ==
    /\ Call /\ CountClear(m)
    /\ UNCHANGED <<table, reqStatus, busy, defaultSleep, runVars, devVars, idle, asleep>>

rt_pm_module_request(i, m) ==
    /\ Call /\ CountUp(m)
    /\ reqStatus' = reqStatus \cup {i}
    /\ UNCHANGED <<table, busy, defaultSleep, runVars, devVars, idle, asleep>>

rt_pm_module_release(i, m) ==
    /\ Call /\ CountDown(m)
    /\ reqStatus' = IF modes'[m] = 0 THEN reqStatus \ {i} ELSE reqStatus
    /\ UNCHANGED <<table, busy, defaultSleep, runVars, devVars, idle, asleep>>

rt_pm_module_release_all(i, m) ==
    /\ Call /\ CountClear(m)
    /\ reqStatus' = reqStatus \ {i}
    /\ UNCHANGED <<table, busy, defaultSleep, runVars, devVars, idle, asleep>>

\* -RT_EINVAL for the deepest mode.
rt_pm_sleep_request(i, m) ==
    /\ Call /\ m \in TableModes
    /\ table' = [table EXCEPT ![m] = @ \cup {i}]
    /\ UNCHANGED <<modes, reqStatus, busy, defaultSleep, owed, saturated, runVars, devVars, idle, asleep>>

rt_pm_sleep_release(i, m) ==
    /\ Call /\ m \in TableModes
    /\ table' = [table EXCEPT ![m] = @ \ {i}]
    /\ UNCHANGED <<modes, reqStatus, busy, defaultSleep, owed, saturated, runVars, devVars, idle, asleep>>

rt_pm_module_delay_sleep(i) ==
    /\ Call
    /\ busy' = busy \cup {i}
    /\ UNCHANGED <<modes, table, reqStatus, defaultSleep, owed, saturated, runVars, devVars, idle, asleep>>

rt_pm_default_set(m) ==
    /\ Call
    /\ defaultSleep' = m
    /\ UNCHANGED <<modes, table, reqStatus, busy, owed, saturated, runVars, devVars, idle, asleep>>

-----------------------------------------------------------------------------
(* The running mode, the devices and the application. *)

RunEnter(mode, flag) ==
    /\ Call
    /\ runMode' = mode
    /\ hwRun' = IF mode < runMode THEN mode ELSE hwRun
    /\ pending' = flag
    /\ UNCHANGED <<reqVars, devVars, idle, asleep>>

\* Mutant: the flag overwritten by the last call.
RunEnterOverwrites(mode) == RunEnter(mode, mode > runMode)

\* A higher speed is set at once, another one is left to the idle thread.
rt_pm_run_enter(mode) == RunEnter(mode, IF mode < runMode THEN pending ELSE TRUE)

Listed == {d \in Devices : devs[d] > 0}

\* Appended to the list, also when it is there already.
rt_pm_device_register(d) ==
    /\ Call /\ devs[d] < MaxListed
    /\ devs' = [devs EXCEPT ![d] = @ + 1]
    /\ UNCHANGED <<reqVars, runVars, suspendedFor, notify, told, idle, asleep>>

\* The first entry of the device is removed.
rt_pm_device_unregister(d) ==
    /\ Call /\ d \in Listed
    /\ devs' = [devs EXCEPT ![d] = @ - 1]
    /\ UNCHANGED <<reqVars, runVars, suspendedFor, notify, told, idle, asleep>>

rt_pm_notify_set(on) ==
    /\ Call
    /\ notify' = on
    /\ UNCHANGED <<reqVars, runVars, devs, suspendedFor, told, idle, asleep>>

-----------------------------------------------------------------------------
(* The idle thread: rt_system_power_manager. *)

Scaling(run) ==
    /\ idle = "scale"
    /\ hwRun' = run
    /\ pending' = FALSE
    /\ idle' = "sleep"
    /\ UNCHANGED <<reqVars, runMode, devVars, asleep>>

\* Mutant: the flag is cleared and ops->run not called.
ScalingSkipped == Scaling(hwRun)

_pm_frequency_scaling == Scaling(IF pending THEN runMode ELSE hwRun)

\* _judge_sleep_mode: the lightest mode of the table.
Judged == {m \in TableModes : table[m] # {}}

\* Mutant: the deepest requested mode.
SelectDeepest ==
    LET requested == {m \in SleepModes : modes[m] > 0}
    IN  Min({IF requested = {} THEN DEEP ELSE Max(requested)} \cup Judged)

\* The lightest requested mode, _pm_default_deepsleep when there is none.
_pm_select_sleep_mode ==
    LET requested == {m \in SleepModes : modes[m] > 0}
    IN  Min({IF requested = {} THEN DEEP ELSE Min(requested)} \cup Judged)

\* A busy module keeps the system in IDLE.
Capped(still) ==
    IF still # {} /\ IDLE < _pm_select_sleep_mode THEN IDLE ELSE _pm_select_sleep_mode

\* pm_get_sleep_threshold_mode: DEEP, the mode with a timer, gives way when the
\* next timeout is near.
Threshold(mode, near) == IF mode = DEEP THEN near ELSE mode

\* _pm_change_sleep_mode until the processor sleeps: `still' are the modules
\* whose delay has not expired, `near' the mode the threshold times allow,
\* `refusing' the devices not suspended (the failing one and those after it).
ChangeSleepMode(still, near, refusing) ==
    LET mode == Capped(still)
    IN  /\ idle = "sleep"
        /\ still \subseteq busy
        /\ busy' = still
        /\ refusing \subseteq Listed
        /\ \/ /\ mode = NONE
              /\ idle' = "scale"
              /\ UNCHANGED <<asleep, suspendedFor, told>>
           \/ /\ mode # NONE
              /\ idle' = "wake"
              /\ asleep' = Threshold(mode, near)
              /\ told' = notify
              /\ suspendedFor' = [d \in Devices |->
                    IF d \in Listed \ refusing THEN mode ELSE suspendedFor[d]]
        /\ UNCHANGED <<modes, table, reqStatus, defaultSleep, owed, saturated, runVars, devs, notify>>

\* After the wake-up: every device is resumed, those that were not suspended too.
Resume(who) ==
    /\ idle = "wake"
    /\ idle' = "scale"
    /\ asleep' = NONE
    /\ suspendedFor' = [d \in Devices |-> IF d \in who THEN NONE ELSE suspendedFor[d]]
    /\ told' = FALSE
    /\ UNCHANGED <<reqVars, runVars, devs, notify>>

\* Mutant: only the devices suspended for the mode that was entered.
WakeResumesMode == Resume({d \in Listed : suspendedFor[d] = asleep})

Wake == Resume(Listed)

-----------------------------------------------------------------------------
Idle ==
    \/ _pm_frequency_scaling
    \/ \E still \in SUBSET busy, near \in {IDLE, LIGHT, DEEP}, refusing \in SUBSET Listed :
            ChangeSleepMode(still, near, refusing)
    \/ Wake

Request ==
    \/ \E m \in ReqModes :
        \/ rt_pm_request(m) \/ rt_pm_release(m) \/ rt_pm_release_all(m) \/ rt_pm_default_set(m)
        \/ \E i \in Modules :
            \/ rt_pm_module_request(i, m) \/ rt_pm_module_release(i, m)
            \/ rt_pm_module_release_all(i, m)
            \/ rt_pm_sleep_request(i, m) \/ rt_pm_sleep_release(i, m)
    \/ \E i \in Modules : rt_pm_module_delay_sleep(i)

Next ==
    \/ Request
    \/ \E mode \in RunModes : rt_pm_run_enter(mode)
    \/ \E d \in Devices : rt_pm_device_register(d) \/ rt_pm_device_unregister(d)
    \/ \E on \in BOOLEAN : rt_pm_notify_set(on)
    \/ Idle

(***************************************************************************)
(* The idle thread runs whenever the others block, and an interrupt ends   *)
(* every sleep (the tick in IDLE and LIGHT, the LPTIM in DEEP).            *)
(***************************************************************************)
Spec == Init /\ [][Next]_vars /\ WF_vars(Idle)

-----------------------------------------------------------------------------
(* Properties. *)

\* "requests the system stall in corresponding power mode" (pm.c:483): as long
\* as a request of a mode is not released the processor sleeps in no deeper
\* mode, nor deeper than a mode a module holds in the table, nor deeper than
\* IDLE while a module is busy.  A mode that was requested more often than its
\* count can hold is excepted.
SleepHonoursRequests ==
    /\ \A m \in SleepModes \ saturated : owed[m] > 0 => asleep <= m
    /\ \A m \in TableModes : table[m] # {} => asleep <= m
    /\ busy # {} => asleep <= IDLE

\* While threads run no registered device is suspended and the application was
\* told of the end of the last sleep, also after a sleep the threshold made
\* lighter than the one announced (pm.c:397-459).
AwakeTogether ==
    idle # "wake" => /\ \A d \in Devices : suspendedFor[d] = NONE
                     /\ ~told

\* A request for a running mode is not lost between rt_pm_run_enter and the idle
\* thread: what ops->run was last given is the running mode, or the idle thread
\* will apply it (pm.c:172-189, 938-971).
RunModePending == hwRun = runMode \/ pending

\* A change of the running mode left to the idle thread reaches ops->run, also
\* when further calls replace it before the idle thread gets to
\* _pm_frequency_scaling.
RunModeApplied == pending ~> (hwRun = runMode)

\* pm.c:859: "This function set default sleep mode when no pm_request".  When
\* it has been called, and there is no request, the processor sleeps no deeper
\* than the mode it was given.
DefaultWhenNoRequest ==
    (defaultSleep # LIGHT /\ \A m \in SleepModes : modes[m] = 0) => asleep <= defaultSleep
=============================================================================
