---------------------------- MODULE PmModesProofs ----------------------------
(***************************************************************************)
(* For every set of modules and devices, every set of requested modes and  *)
(* every limit of the counts: the processor sleeps no deeper than the      *)
(* outstanding requests allow, every device it suspended is resumed before *)
(* a thread runs, and no running mode is forgotten.                        *)
(***************************************************************************)
EXTENDS PmModes, WellFoundedInduction, TLAPS

-----------------------------------------------------------------------------
(* The selection of the sleep mode. *)

\* A set of natural numbers has a least element, which Min is.
LEMMA MinOfNats ==
    ASSUME NEW S \in SUBSET Nat, S # {}
    PROVE  Min(S) \in S /\ \A y \in S : Min(S) <= y
<1> DEFINE R == {ss \in Nat \X Nat : ss[1] < ss[2]}
<1>1. IsWellFoundedOn(R, Nat)
  BY NatLessThanWellFounded, Zenon DEF OpToRel
<1> HIDE DEF R
<1>2. \E x \in S : \A y \in S : ~(<<y, x>> \in R)
  BY <1>1, WFMin, Zenon
<1>3. PICK x \in S : \A y \in S : ~(<<y, x>> \in R)
  BY <1>2
<1>4. ASSUME NEW y \in S PROVE x <= y
  <2>1. <<y, x>> \notin R
    BY <1>3
  <2>2. <<y, x>> \in Nat \X Nat /\ <<y, x>>[1] = y /\ <<y, x>>[2] = x
    OBVIOUS
  <2>3. ~(y < x)
    BY <2>1, <2>2, Zenon DEF R
  <2>4. QED
    BY <2>3
<1>5. QED
  BY <1>4 DEF Min

\* _pm_select_sleep_mode returns a sleep mode, and none deeper than a mode with
\* a count or with a module in the table.
LEMMA SelectedMode ==
    ASSUME TypeOK
    PROVE  /\ _pm_select_sleep_mode \in SleepModes
           /\ \A m \in SleepModes : modes[m] > 0 => _pm_select_sleep_mode <= m
           /\ \A m \in TableModes : table[m] # {} => _pm_select_sleep_mode <= m
<1> DEFINE requested == {m \in SleepModes : modes[m] > 0}
           first == IF requested = {} THEN DEEP ELSE Min(requested)
           S == {first} \cup Judged
<1>1. requested \in SUBSET Nat /\ requested \subseteq SleepModes
  BY DEF SleepModes
<1>2. requested # {} => Min(requested) \in requested /\ \A y \in requested : Min(requested) <= y
  BY <1>1, MinOfNats
<1> HIDE DEF requested
<1>3. first \in SleepModes /\ \A m \in requested : first <= m
  <2>1. CASE requested = {}
    BY <2>1 DEF SleepModes, DEEP
  <2>2. CASE requested # {}
    <3>1. first = Min(requested)
      BY <2>2
    <3>2. QED
      BY <1>1, <1>2, <2>2, <3>1
  <2>3. QED
    BY <2>1, <2>2
<1> HIDE DEF first
<1>4. S \in SUBSET Nat /\ S # {} /\ S \subseteq SleepModes /\ first \in S /\ Judged \subseteq S
  BY <1>3 DEF Judged, TableModes, SleepModes
<1> HIDE DEF S
<1>5. Min(S) \in S /\ \A y \in S : Min(S) <= y
  BY <1>4, MinOfNats
<1>6. _pm_select_sleep_mode = Min(S)
  BY DEF _pm_select_sleep_mode, S, first, requested
<1>7. Min(S) \in SleepModes /\ Min(S) <= first
  BY <1>4, <1>5
<1>8. ASSUME NEW m \in SleepModes, modes[m] > 0 PROVE Min(S) <= m
  <2>1. m \in requested
    BY <1>8 DEF requested
  <2>2. first <= m /\ first \in SleepModes
    BY <2>1, <1>3
  <2>3. QED
    BY <2>2, <1>7 DEF SleepModes
<1>9. ASSUME NEW m \in TableModes, table[m] # {} PROVE Min(S) <= m
  BY <1>9, <1>4, <1>5 DEF Judged
<1>10. QED
  BY <1>6, <1>7, <1>8, <1>9

\* The processor sleeps in the selected mode or in a lighter one.
LEMMA EnteredMode ==
    ASSUME TypeOK, NEW still, NEW near \in {IDLE, LIGHT, DEEP}
    PROVE  /\ Capped(still) \in SleepModes
           /\ Threshold(Capped(still), near) \in SleepModes
           /\ Threshold(Capped(still), near) <= Capped(still)
           /\ Capped(still) <= _pm_select_sleep_mode
           /\ still # {} => Capped(still) <= IDLE
<1>1. _pm_select_sleep_mode \in SleepModes
  BY SelectedMode
<1>2. /\ Capped(still) \in SleepModes
      /\ Capped(still) <= _pm_select_sleep_mode
      /\ still # {} => Capped(still) <= IDLE
  BY <1>1 DEF Capped, SleepModes, IDLE
<1>3. QED
  BY <1>2 DEF Threshold, SleepModes, IDLE, LIGHT, DEEP

-----------------------------------------------------------------------------
(* The inductive invariant. *)

\* The count of a mode is the number of its outstanding requests, unless it has
\* left one out.
CountsAreOwed == \A m \in SleepModes \ saturated : modes[m] = owed[m]

\* While threads run the processor does not sleep.
AwakeRuns == idle # "wake" => asleep = NONE

\* A suspended device is in the list that the wake-up walks.
SuspendedListed == \A d \in Devices : suspendedFor[d] # NONE => d \in Listed

IInv ==
    /\ TypeOK
    /\ CountsAreOwed /\ AwakeRuns /\ SuspendedListed
    /\ SleepHonoursRequests /\ AwakeTogether /\ RunModePending

\* After rt_system_pm_init.
LEMMA InitInv == Init => IInv
<1> SUFFICES ASSUME Init PROVE IInv
  OBVIOUS
<1>1. TypeOK
  <2>1. modes \in [SleepModes -> 0..CountMax] /\ owed \in [SleepModes -> Nat]
    BY ModesAssumption DEF Init
  <2>2. LIGHT \in SleepModes /\ NONE \in SleepModes /\ NORMAL_SPEED \in 0..4
    BY DEF SleepModes, LIGHT, NONE, NORMAL_SPEED
  <2>3. devs \in [Devices -> 0..MaxListed]
    BY ModesAssumption DEF Init
  <2>4. QED
    BY <2>1, <2>2, <2>3 DEF Init, TypeOK
<1>2. CountsAreOwed /\ AwakeRuns /\ SuspendedListed /\ AwakeTogether /\ RunModePending
  BY DEF Init, CountsAreOwed, AwakeRuns, SuspendedListed, AwakeTogether, RunModePending
<1>3. SleepHonoursRequests
  BY DEF Init, SleepHonoursRequests, SleepModes, TableModes, NONE, IDLE
<1>4. QED
  BY <1>1, <1>2, <1>3 DEF IInv

\* A call of a thread or an interrupt handler leaves the idle thread where it
\* is and the devices as they are, and so leaves every clause about the sleep.
LEMMA CallKeeps ==
    ASSUME IInv, Call, UNCHANGED <<idle, asleep, told, suspendedFor>>
    PROVE  AwakeRuns' /\ SuspendedListed' /\ SleepHonoursRequests' /\ AwakeTogether'
<1>1. asleep' = NONE
  BY DEF IInv, AwakeRuns, Call
<1>2. SleepHonoursRequests'
  BY <1>1 DEF SleepHonoursRequests, SleepModes, TableModes, NONE, IDLE
<1>3. QED
  BY <1>1, <1>2 DEF IInv, AwakeRuns, SuspendedListed, AwakeTogether, Call

\* Counting a request keeps count and requests equal, or marks the mode.
LEMMA CountUpKeeps ==
    ASSUME TypeOK, CountsAreOwed, NEW m \in SleepModes, CountUp(m)
    PROVE  /\ modes' \in [SleepModes -> 0..CountMax] /\ owed' \in [SleepModes -> Nat]
           /\ saturated' \subseteq SleepModes
           /\ CountsAreOwed'
<1>1. modes[m] \in 0..CountMax /\ owed[m] \in Nat
  BY DEF TypeOK
<1>2. CASE modes[m] < CountMax
  BY <1>1, <1>2, ModesAssumption DEF TypeOK, CountsAreOwed, CountUp, Counted
<1>3. CASE ~(modes[m] < CountMax)
  BY <1>1, <1>3, ModesAssumption DEF TypeOK, CountsAreOwed, CountUp, Counted
<1>4. QED
  BY <1>2, <1>3

\* A release takes one off both, or leaves both at zero.
LEMMA CountDownKeeps ==
    ASSUME TypeOK, CountsAreOwed, NEW m \in SleepModes, CountDown(m)
    PROVE  /\ modes' \in [SleepModes -> 0..CountMax] /\ owed' \in [SleepModes -> Nat]
           /\ saturated' \subseteq SleepModes
           /\ CountsAreOwed'
<1>1. modes[m] \in 0..CountMax /\ owed[m] \in Nat
  BY DEF TypeOK
<1>2. QED
  BY <1>1, ModesAssumption DEF TypeOK, CountsAreOwed, CountDown

\* Releasing all puts both at zero.
LEMMA CountClearKeeps ==
    ASSUME TypeOK, CountsAreOwed, NEW m \in SleepModes, CountClear(m)
    PROVE  /\ modes' \in [SleepModes -> 0..CountMax] /\ owed' \in [SleepModes -> Nat]
           /\ saturated' \subseteq SleepModes
           /\ CountsAreOwed'
BY ModesAssumption DEF TypeOK, CountsAreOwed, CountClear

\* What the requests and releases leave alone.
LEMMA CountsKeep ==
    ASSUME IInv, Call, NEW m \in SleepModes, CountUp(m) \/ CountDown(m) \/ CountClear(m),
           reqStatus' \subseteq Modules,
           UNCHANGED <<table, busy, defaultSleep, runVars, devVars, idle, asleep>>
    PROVE  IInv'
<1>1. /\ modes' \in [SleepModes -> 0..CountMax] /\ owed' \in [SleepModes -> Nat]
      /\ saturated' \subseteq SleepModes
      /\ CountsAreOwed'
  BY CountUpKeeps, CountDownKeeps, CountClearKeeps DEF IInv
<1>2. AwakeRuns' /\ SuspendedListed' /\ SleepHonoursRequests' /\ AwakeTogether'
  BY CallKeeps DEF devVars
<1>3. TypeOK' /\ RunModePending'
  BY <1>1 DEF IInv, TypeOK, RunModePending, runVars, devVars
<1>4. QED
  BY <1>1, <1>2, <1>3 DEF IInv

\* The calls of threads and interrupt handlers.
LEMMA RequestKeeps == ASSUME IInv, Request PROVE IInv'
<1>1. ASSUME NEW m \in ReqModes, rt_pm_request(m) \/ rt_pm_release(m) \/ rt_pm_release_all(m)
      PROVE  IInv'
  <2>1. m \in SleepModes /\ reqStatus \subseteq Modules
    BY ModesAssumption DEF IInv, TypeOK
  <2>2. /\ Call /\ (CountUp(m) \/ CountDown(m) \/ CountClear(m))
        /\ reqStatus' \subseteq Modules
        /\ UNCHANGED <<table, busy, defaultSleep, runVars, devVars, idle, asleep>>
    BY <1>1, <2>1 DEF rt_pm_request, rt_pm_release, rt_pm_release_all
  <2>3. QED
    BY <2>1, <2>2, CountsKeep
<1>2. ASSUME NEW m \in ReqModes, NEW i \in Modules,
             \/ rt_pm_module_request(i, m) \/ rt_pm_module_release(i, m)
             \/ rt_pm_module_release_all(i, m)
      PROVE  IInv'
  <2>1. m \in SleepModes /\ reqStatus \subseteq Modules
    BY ModesAssumption DEF IInv, TypeOK
  <2>2. /\ Call /\ (CountUp(m) \/ CountDown(m) \/ CountClear(m))
        /\ reqStatus' \subseteq Modules
        /\ UNCHANGED <<table, busy, defaultSleep, runVars, devVars, idle, asleep>>
    BY <1>2, <2>1 DEF rt_pm_module_request, rt_pm_module_release, rt_pm_module_release_all
  <2>3. QED
    BY <2>1, <2>2, CountsKeep
<1>3. ASSUME NEW m \in ReqModes, NEW i \in Modules,
             rt_pm_sleep_request(i, m) \/ rt_pm_sleep_release(i, m)
      PROVE  IInv'
  <2>1. table' \in [TableModes -> SUBSET Modules]
    BY <1>3 DEF IInv, TypeOK, rt_pm_sleep_request, rt_pm_sleep_release
  <2>2. AwakeRuns' /\ SuspendedListed' /\ SleepHonoursRequests' /\ AwakeTogether'
    BY <1>3, CallKeeps DEF rt_pm_sleep_request, rt_pm_sleep_release, devVars
  <2>3. TypeOK' /\ CountsAreOwed' /\ RunModePending'
    BY <1>3, <2>1 DEF IInv, TypeOK, CountsAreOwed, RunModePending, rt_pm_sleep_request,
        rt_pm_sleep_release, runVars, devVars
  <2>4. QED
    BY <2>2, <2>3 DEF IInv
<1>4. ASSUME \/ \E i \in Modules : rt_pm_module_delay_sleep(i)
             \/ \E m \in ReqModes : rt_pm_default_set(m)
      PROVE  IInv'
  <2>1. AwakeRuns' /\ SuspendedListed' /\ SleepHonoursRequests' /\ AwakeTogether'
    BY <1>4, CallKeeps DEF rt_pm_module_delay_sleep, rt_pm_default_set, devVars
  <2>2. TypeOK' /\ CountsAreOwed' /\ RunModePending'
    BY <1>4, ModesAssumption DEF IInv, TypeOK, CountsAreOwed, RunModePending,
        rt_pm_module_delay_sleep, rt_pm_default_set, runVars, devVars
  <2>3. QED
    BY <2>1, <2>2 DEF IInv
<1>5. QED
  BY <1>1, <1>2, <1>3, <1>4 DEF Request

\* The running mode, the list of devices and the application's callback.
LEMMA SettingsKeep ==
    ASSUME IInv,
           \/ \E mode \in RunModes : rt_pm_run_enter(mode)
           \/ \E d \in Devices : rt_pm_device_register(d) \/ rt_pm_device_unregister(d)
           \/ \E on \in BOOLEAN : rt_pm_notify_set(on)
    PROVE  IInv'
<1>1. AwakeRuns' /\ SuspendedListed' /\ SleepHonoursRequests' /\ AwakeTogether'
  BY CallKeeps DEF rt_pm_run_enter, RunEnter, rt_pm_device_register, rt_pm_device_unregister,
      rt_pm_notify_set, devVars
<1>2. CountsAreOwed'
  BY DEF IInv, CountsAreOwed, rt_pm_run_enter, RunEnter, rt_pm_device_register,
      rt_pm_device_unregister, rt_pm_notify_set, reqVars
<1>3. CASE \E mode \in RunModes : rt_pm_run_enter(mode)
  <2>1. TypeOK' /\ RunModePending'
    BY <1>3, ModesAssumption DEF IInv, TypeOK, RunModePending, rt_pm_run_enter, RunEnter,
        reqVars, devVars
  <2>2. QED
    BY <1>1, <1>2, <2>1 DEF IInv
<1>4. CASE ~\E mode \in RunModes : rt_pm_run_enter(mode)
  <2>1. devs' \in [Devices -> 0..MaxListed]
    BY <1>4, ModesAssumption DEF IInv, TypeOK, rt_pm_device_register, rt_pm_device_unregister,
        rt_pm_notify_set, Listed
  <2>2. TypeOK' /\ RunModePending'
    BY <1>4, <2>1 DEF IInv, TypeOK, RunModePending, rt_pm_device_register,
        rt_pm_device_unregister, rt_pm_notify_set, reqVars, runVars
  <2>3. QED
    BY <1>1, <1>2, <2>2 DEF IInv
<1>5. QED
  BY <1>3, <1>4

\* The idle thread applies the running mode it finds pending.
LEMMA ScalingKeeps == ASSUME IInv, _pm_frequency_scaling PROVE IInv'
<1>1. TypeOK' /\ CountsAreOwed' /\ RunModePending'
  BY DEF IInv, TypeOK, CountsAreOwed, RunModePending, _pm_frequency_scaling, Scaling,
      reqVars, devVars
<1>2. AwakeRuns' /\ SuspendedListed' /\ SleepHonoursRequests' /\ AwakeTogether'
  BY DEF IInv, AwakeRuns, SuspendedListed, SleepHonoursRequests, AwakeTogether,
      _pm_frequency_scaling, Scaling, reqVars, devVars
<1>3. QED
  BY <1>1, <1>2 DEF IInv

\* The idle thread goes to sleep in a mode no request forbids, or does not sleep.
LEMMA ChangeKeeps ==
    ASSUME IInv, NEW still, NEW near \in {IDLE, LIGHT, DEEP}, NEW refusing,
           ChangeSleepMode(still, near, refusing)
    PROVE  IInv'
<1> DEFINE mode == Capped(still)
           entered == Threshold(mode, near)
<1>1. /\ mode \in SleepModes /\ entered \in SleepModes /\ entered <= mode
      /\ mode <= _pm_select_sleep_mode
      /\ still # {} => mode <= IDLE
  BY EnteredMode DEF IInv
<1>2. /\ _pm_select_sleep_mode \in SleepModes
      /\ \A m \in SleepModes : modes[m] > 0 => _pm_select_sleep_mode <= m
      /\ \A m \in TableModes : table[m] # {} => _pm_select_sleep_mode <= m
  BY SelectedMode DEF IInv
<1>3. /\ idle = "sleep" /\ still \subseteq busy /\ busy' = still
      /\ UNCHANGED <<modes, table, reqStatus, defaultSleep, owed, saturated, runVars, devs, notify>>
      /\ \/ mode = NONE /\ idle' = "scale" /\ UNCHANGED <<asleep, suspendedFor, told>>
         \/ /\ idle' = "wake" /\ asleep' = entered /\ told' = notify
            /\ suspendedFor' = [d \in Devices |->
                    IF d \in Listed \ refusing THEN mode ELSE suspendedFor[d]]
  BY DEF ChangeSleepMode
<1> HIDE DEF mode, entered
<1>4. TypeOK'
  BY <1>1, <1>3 DEF IInv, TypeOK, runVars
<1>5. CountsAreOwed' /\ RunModePending'
  BY <1>3 DEF IInv, CountsAreOwed, RunModePending, runVars
<1>6. AwakeRuns' /\ AwakeTogether'
  BY <1>3 DEF IInv, AwakeRuns, AwakeTogether
<1>7. SuspendedListed'
  BY <1>3 DEF IInv, SuspendedListed, Listed
<1>8. SleepHonoursRequests'
  <2>1. CASE asleep' = NONE
    BY <2>1 DEF SleepHonoursRequests, SleepModes, TableModes, NONE, IDLE
  <2>2. CASE asleep' = entered
    <3>1. ASSUME NEW m \in SleepModes \ saturated', owed'[m] > 0 PROVE asleep' <= m
      <4>1. modes[m] > 0 /\ m \in SleepModes
        BY <1>3, <3>1 DEF IInv, CountsAreOwed
      <4>2. _pm_select_sleep_mode <= m
        BY <4>1, <1>2
      <4>3. QED
        BY <1>1, <1>2, <2>2, <4>2 DEF SleepModes
    <3>2. ASSUME NEW m \in TableModes, table'[m] # {} PROVE asleep' <= m
      <4>1. _pm_select_sleep_mode <= m
        BY <3>2, <1>2, <1>3
      <4>2. QED
        BY <1>1, <1>2, <2>2, <4>1 DEF SleepModes, TableModes
    <3>3. ASSUME busy' # {} PROVE asleep' <= IDLE
      BY <1>1, <1>3, <2>2, <3>3 DEF SleepModes, IDLE
    <3>4. QED
      BY <3>1, <3>2, <3>3 DEF SleepHonoursRequests
  <2>3. QED
    BY <1>3, <2>1, <2>2 DEF IInv, AwakeRuns
<1>9. QED
  BY <1>4, <1>5, <1>6, <1>7, <1>8 DEF IInv

\* The wake-up resumes the whole list.
LEMMA WakeKeeps == ASSUME IInv, Wake PROVE IInv'
<1>1. asleep' = NONE
  BY DEF Wake, Resume
<1>2. SleepHonoursRequests'
  BY <1>1 DEF SleepHonoursRequests, SleepModes, TableModes, NONE, IDLE
<1>3. TypeOK' /\ CountsAreOwed' /\ RunModePending'
  <2>1. NONE \in SleepModes
    BY DEF NONE, SleepModes
  <2>2. QED
    BY <1>1, <2>1 DEF IInv, TypeOK, CountsAreOwed, RunModePending, Wake, Resume, reqVars, runVars
<1>4. AwakeRuns' /\ SuspendedListed' /\ AwakeTogether'
  BY <1>1 DEF IInv, TypeOK, AwakeRuns, SuspendedListed, AwakeTogether, Wake, Resume
<1>5. QED
  BY <1>2, <1>3, <1>4 DEF IInv

\* Every step preserves the invariant.
LEMMA NextInv == IInv /\ [Next]_vars => IInv'
<1> SUFFICES ASSUME IInv, [Next]_vars PROVE IInv'
  OBVIOUS
<1>1. CASE UNCHANGED vars
  <2>1. TypeOK' /\ CountsAreOwed' /\ AwakeRuns' /\ SuspendedListed'
    BY <1>1 DEF IInv, TypeOK, CountsAreOwed, AwakeRuns, SuspendedListed, Listed, vars, reqVars,
        runVars, devVars
  <2>2. SleepHonoursRequests' /\ AwakeTogether' /\ RunModePending'
    BY <1>1 DEF IInv, SleepHonoursRequests, AwakeTogether, RunModePending, vars, reqVars,
        runVars, devVars
  <2>3. QED
    BY <2>1, <2>2 DEF IInv
<1>2. CASE Idle
  BY <1>2, ScalingKeeps, ChangeKeeps, WakeKeeps DEF Idle
<1>3. QED
  BY <1>1, <1>2, RequestKeeps, SettingsKeep DEF Next

-----------------------------------------------------------------------------
(* The theorems. *)

\* The state keeps its types: no count leaves 0..CountMax however the requests,
\* the releases and the module variants of pm.c mix.
THEOREM TypeCorrect == Spec => []TypeOK
<1>1. IInv => TypeOK
  BY DEF IInv
<1>2. QED
  BY <1>1, InitInv, NextInv, PTL DEF Spec

\* The processor sleeps no deeper than every outstanding request, table entry
\* and busy module allows, whatever came between the requests and the sleep.
THEOREM RequestsHonoured == Spec => []SleepHonoursRequests
<1>1. IInv => SleepHonoursRequests
  BY DEF IInv
<1>2. QED
  BY <1>1, InitInv, NextInv, PTL DEF Spec

\* No thread runs while a registered device is suspended or the application
\* believes the system asleep.
THEOREM DevicesResumed == Spec => []AwakeTogether
<1>1. IInv => AwakeTogether
  BY DEF IInv
<1>2. QED
  BY <1>1, InitInv, NextInv, PTL DEF Spec

\* A running mode that ops->run was not given is one the idle thread will apply.
THEOREM RunModeNotLost == Spec => []RunModePending
<1>1. IInv => RunModePending
  BY DEF IInv
<1>2. QED
  BY <1>1, InitInv, NextInv, PTL DEF Spec
=============================================================================
