--------------------------- MODULE LowPower_proofs ---------------------------
(* Safety of sleep, for either mode of work and any number of messages on the *)
(* way.  The DSP takes no lock, so what the M3 has read of it may be stale by  *)
(* the next step; what makes the sleep safe is that everything the DSP does   *)
(* after it has left a sleep leaves a trace in an interrupt.                  *)
EXTENDS LowPower, TLAPS

-----------------------------------------------------------------------------
(* The inductive invariant                                                    *)

\* What DSP_LPM_STATE says at each step of the DSP.
StateOK ==
  /\ dsp.pc = "run" => DSP_LPM_STATE = "ALIVE"
  /\ dsp.pc = "settle" => DSP_LPM_STATE \in {"ALIVE", Asleep(dsp.want)}
  /\ dsp.pc \in {"asleep", "woken"} => DSP_LPM_STATE = Asleep(dsp.want)

\* The M3 is awake, or has work pending, for every message.
Announced == fromDsp # << >> => ipc

\* In the section that leads to deep sleep what was asked for at its start holds.
Quiet ==
  idle \in {"enough", "mask", "save", "verify", "sleep"}
    => HAVE_FREE_LOCK /\ ~ processing /\ ~ toDsp

\* A DSP that went through another sleep has made an interrupt pending.
SameSleep ==
  idle \in {"verify", "sleep"} /\ ~ Pending /\ dsp.pc \in {"settle", "asleep", "woken"}
    => DEEPSLEEP /\ saved

\* The chip goes off in the WFI of deep sleep only.
OffInSleep ==
  chip = "off" => idle = "sleep" /\ ~ Pending /\ dsp.pc \in {"off", "asleep"}

\* Its last word on deep sleep is known, or the last message on the way.
WordKept ==
  dsp.pc \in {"settle", "asleep"} /\ dsp.want # "standby" /\ ~ poke
    => IF fromDsp = << >> THEN ready.deep ELSE fromDsp[Len(fromDsp)] = dsp.want

\* Whatever it lingers in standby for is still there.
Lingers ==
  dsp.pc \in {"settle", "asleep"} /\ dsp.want = "standby" /\ ~ poke /\ HAVE_FREE_LOCK
    => paging

Safe ==
  StateOK /\ Announced /\ Quiet /\ SameSleep /\ OffInSleep /\ WordKept /\ Lingers

-----------------------------------------------------------------------------
(* Type correctness, in parts                                                 *)

UsersOK ==
  /\ HAVE_FREE_LOCK \in BOOLEAN /\ processing \in BOOLEAN
  /\ veto \in BOOLEAN /\ standby_lock \in BOOLEAN

FlagsOK ==
  /\ ready \in [deep : BOOLEAN, standby : BOOLEAN]
  /\ slot \in {"none", "ps", "ps_cb", "own"}
  /\ off_request \in BOOLEAN

WiresOK ==
  /\ utc \in BOOLEAN /\ ipc \in BOOLEAN
  /\ fromDsp \in Seq(Sleep \cup {"data"}) /\ Len(fromDsp) <= MaxMsg
  /\ toDsp \in BOOLEAN /\ poke \in BOOLEAN

StackOK ==
  /\ DSP_LPM_STATE \in {"NOT_LOADED", "ALIVE", "STANDBY_READY", "DEEPSLEEP_READY"}
  /\ dsp \in [pc : {"off", "run", "settle", "asleep", "woken"},
              want : Sleep, near : BOOLEAN]
  /\ dsp.pc = "off" <=> DSP_LPM_STATE = "NOT_LOADED"
  /\ paging \in BOOLEAN

RestOK ==
  /\ idle \in Threads \cup Critical
  /\ masked \in BOOLEAN /\ saved \in BOOLEAN
  /\ chip \in {"on", "off"} /\ asserted \in BOOLEAN

Typed == UsersOK /\ FlagsOK /\ WiresOK /\ StackOK /\ RestOK

\* TypeOK, taken apart for the prover.
LEMMA TypeSplit == TypeOK <=> Typed
BY DEF TypeOK, Typed, UsersOK, FlagsOK, WiresOK, StackOK, RestOK

\* The rings are empty at the start.
LEMMA EmptyIsQueue == << >> \in Seq(Sleep \cup {"data"}) /\ Len(<< >>) <= MaxMsg
BY MaxMsgAssumption

\* The initial states have their types.
LEMMA TypeInit == Init => Typed
PROOF
  <1> SUFFICES ASSUME Init PROVE Typed
    OBVIOUS
  <1>1. UsersOK
    BY DEF Init, UsersOK
  <1>2. FlagsOK
    BY DEF Init, FlagsOK
  <1>3. WiresOK
    BY EmptyIsQueue DEF Init, WiresOK
  <1>4. StackOK
    BY WorkModeAssumption DEF Init, StackOK, Sleep
  <1>5. RestOK
    BY DEF Init, RestOK, Threads
  <1> QED
    BY <1>1, <1>2, <1>3, <1>4, <1>5 DEF Typed

\* Every step keeps the types.
LEMMA TypeStep == Typed /\ [Next]_vars => Typed'
PROOF
  <1> SUFFICES ASSUME UsersOK, FlagsOK, WiresOK, StackOK, RestOK, [Next]_vars
               PROVE  UsersOK' /\ FlagsOK' /\ WiresOK' /\ StackOK' /\ RestOK'
    BY DEF Typed
  <1> USE MaxMsgAssumption DEF users, flags, wires, stack, fate, Threads, Critical
  <1>1. CASE vApplicationIdleHook
    BY <1>1 DEF vApplicationIdleHook, icm_buf_check, WiresOK, RestOK, UsersOK,
       FlagsOK, StackOK
  <1>2. CASE Choose
    BY <1>2 DEF Choose, Choice, RestOK, UsersOK, FlagsOK, WiresOK, StackOK
  <1>3. CASE ShutdownCheck
    BY <1>3 DEF ShutdownCheck, icm_buf_check, WiresOK, RestOK, UsersOK, FlagsOK,
       StackOK
  <1>4. CASE PowerOff
    <2>1. FlagsOK'
      BY <1>4 DEF PowerOff, NOT_LOADED, FlagsOK
    <2>2. WiresOK'
      BY <1>4 DEF PowerOff, NOT_LOADED, WiresOK
    <2>3. StackOK'
      BY <1>4 DEF PowerOff, NOT_LOADED, StackOK
    <2>4. RestOK'
      BY <1>4 DEF PowerOff, NOT_LOADED, RestOK
    <2>5. UsersOK'
      BY <1>4 DEF PowerOff, UsersOK
    <2> QED
      BY <2>1, <2>2, <2>3, <2>4, <2>5
  <1>5. CASE DeepCheck
    BY <1>5 DEF DeepCheck, icm_buf_check, WiresOK, RestOK, UsersOK, FlagsOK, StackOK
  <1>6. CASE TimeEnough
    <2>1. FlagsOK'
      BY <1>6 DEF TimeEnough, Leave, WakeDsp, FlagsOK
    <2>2. WiresOK'
      BY <1>6 DEF TimeEnough, Leave, WakeDsp, WiresOK
    <2>3. RestOK'
      BY <1>6 DEF TimeEnough, Leave, WakeDsp, RestOK
    <2>4. UsersOK' /\ StackOK'
      BY <1>6 DEF TimeEnough, UsersOK, StackOK
    <2> QED
      BY <2>1, <2>2, <2>3, <2>4
  <1>7. CASE Mask
    <2>1. RestOK'
      BY <1>7 DEF Mask, Leave, RestOK
    <2>2. UsersOK' /\ FlagsOK' /\ WiresOK' /\ StackOK'
      BY <1>7 DEF Mask, UsersOK, FlagsOK, WiresOK, StackOK
    <2> QED
      BY <2>1, <2>2
  <1>8. CASE Save
    <2>1. RestOK'
      BY <1>8 DEF Save, Leave, RestOK
    <2>2. UsersOK' /\ FlagsOK' /\ WiresOK' /\ StackOK'
      BY <1>8 DEF Save, UsersOK, FlagsOK, WiresOK, StackOK
    <2> QED
      BY <2>1, <2>2
  <1>9. CASE Verify
    <2>1. RestOK'
      BY <1>9 DEF Verify, RestOK
    <2>2. UsersOK' /\ FlagsOK' /\ WiresOK' /\ StackOK'
      BY <1>9 DEF Verify, UsersOK, FlagsOK, WiresOK, StackOK
    <2> QED
      BY <2>1, <2>2
  <1>10. CASE FallsAsleep
    BY <1>10 DEF FallsAsleep, RestOK, UsersOK, FlagsOK, WiresOK, StackOK
  <1>11. CASE FallsThrough
    <2>1. FlagsOK'
      BY <1>11 DEF FallsThrough, Leave, WakeDsp, FlagsOK
    <2>2. WiresOK'
      BY <1>11 DEF FallsThrough, Leave, WakeDsp, WiresOK
    <2>3. RestOK'
      BY <1>11 DEF FallsThrough, Leave, WakeDsp, RestOK
    <2>4. UsersOK' /\ StackOK'
      BY <1>11 DEF FallsThrough, UsersOK, StackOK
    <2> QED
      BY <2>1, <2>2, <2>3, <2>4
  <1>12. CASE StandbyCheck
    <2>1. FlagsOK'
      BY <1>12 DEF StandbyCheck, icm_buf_check, NotAsleep, Leave, FlagsOK
    <2>2. WiresOK'
      BY <1>12 DEF StandbyCheck, icm_buf_check, NotAsleep, Leave, WiresOK
    <2>3. RestOK'
      BY <1>12 DEF StandbyCheck, icm_buf_check, NotAsleep, Leave, RestOK
    <2>4. UsersOK' /\ StackOK'
      BY <1>12 DEF StandbyCheck, UsersOK, StackOK
    <2> QED
      BY <2>1, <2>2, <2>3, <2>4
  <1>13. CASE SingleCheck
    BY <1>13 DEF SingleCheck, Leave, FlagsOK, RestOK, UsersOK, WiresOK, StackOK
  <1>14. CASE StandbyMask
    <2>1. RestOK'
      BY <1>14 DEF StandbyMask, RestOK
    <2>2. UsersOK' /\ FlagsOK' /\ WiresOK' /\ StackOK'
      BY <1>14 DEF StandbyMask, UsersOK, FlagsOK, WiresOK, StackOK
    <2> QED
      BY <2>1, <2>2
  <1>15. CASE StandbyUnmask
    BY <1>15 DEF StandbyUnmask, NOT_LOADED, RestOK, UsersOK, FlagsOK, WiresOK,
       StackOK
  <1>16. CASE StandbyEnds
    BY <1>16 DEF StandbyEnds, RestOK, UsersOK, FlagsOK, WiresOK, StackOK
  <1>17. CASE StandbyExit
    <2>1. FlagsOK'
      BY <1>17 DEF StandbyExit, Leave, NotAsleep, NOT_LOADED, FlagsOK
    <2>2. RestOK'
      BY <1>17 DEF StandbyExit, Leave, NotAsleep, NOT_LOADED, RestOK
    <2>3. UsersOK' /\ WiresOK' /\ StackOK'
      BY <1>17 DEF StandbyExit, UsersOK, WiresOK, StackOK
    <2> QED
      BY <2>1, <2>2, <2>3
  <1>18. CASE WfiCheck
    BY <1>18 DEF WfiCheck, icm_buf_check, Leave, FlagsOK, WiresOK, RestOK, UsersOK,
       StackOK
  <1>19. CASE WfiEnds
    BY <1>19 DEF WfiEnds, Leave, FlagsOK, RestOK, UsersOK, WiresOK, StackOK
  <1>20. CASE Read
    <2>1. FlagsOK'
      <3>1. CASE fromDsp = << >> \/ Head(fromDsp) = "data"
        BY <1>20, <3>1 DEF Read, FlagsOK
      <3>2. CASE fromDsp # << >> /\ Head(fromDsp) # "data"
        <4>1. lpm_msg_process(Head(fromDsp)) /\ UNCHANGED off_request
          BY <1>20, <3>2 DEF Read
        <4>2. /\ (Head(fromDsp) # "standby") \in BOOLEAN
              /\ (Head(fromDsp) = "standby") \in BOOLEAN
          OBVIOUS
        <4>3. ready' \in [deep : BOOLEAN, standby : BOOLEAN]
          BY <4>1, <4>2, Zenon DEF lpm_msg_process
        <4>4. slot' \in {"none", "ps", "ps_cb", "own"}
          BY <4>1 DEF lpm_msg_process
        <4> QED
          BY <4>1, <4>3, <4>4 DEF FlagsOK
      <3> QED
        BY <3>1, <3>2
    <2>2. WiresOK'
      <3>1. CASE fromDsp = << >>
        BY <1>20, <3>1 DEF Read, WiresOK
      <3>2. CASE fromDsp # << >>
        <4>1. fromDsp' = Tail(fromDsp)
          BY <1>20, <3>2 DEF Read
        <4>2. fromDsp' \in Seq(Sleep \cup {"data"}) /\ Len(fromDsp') <= MaxMsg
          BY <3>2, <4>1 DEF WiresOK
        <4> QED
          BY <1>20, <3>2, <4>2 DEF Read, WiresOK
      <3> QED
        BY <3>1, <3>2
    <2>3. UsersOK' /\ StackOK' /\ RestOK'
      BY <1>20 DEF Read, UsersOK, StackOK, RestOK
    <2> QED
      BY <2>1, <2>2, <2>3
  <1>21. CASE ClockHandler
    <2>1. FlagsOK'
      BY <1>21 DEF ClockHandler, FlagsOK
    <2>2. WiresOK'
      BY <1>21 DEF ClockHandler, WiresOK
    <2>3. UsersOK' /\ StackOK' /\ RestOK'
      BY <1>21 DEF ClockHandler, UsersOK, StackOK, RestOK
    <2> QED
      BY <2>1, <2>2, <2>3
  <1>22. CASE TakeLock
    <2>1. UsersOK'
      BY <1>22 DEF TakeLock, UsersOK
    <2>2. FlagsOK' /\ WiresOK' /\ StackOK' /\ RestOK'
      BY <1>22 DEF TakeLock, FlagsOK, WiresOK, StackOK, RestOK
    <2> QED
      BY <2>1, <2>2
  <1>23. CASE ReleaseLock
    BY <1>23 DEF ReleaseLock, NOT_LOADED, UsersOK, WiresOK, FlagsOK, StackOK, RestOK
  <1>24. CASE AtCommand
    BY <1>24 DEF AtCommand, UsersOK, FlagsOK, WiresOK, StackOK, RestOK
  <1>25. CASE Hooks
    <2>1. UsersOK'
      BY <1>25 DEF Hooks, UsersOK
    <2>2. FlagsOK' /\ WiresOK' /\ StackOK' /\ RestOK'
      BY <1>25 DEF Hooks, FlagsOK, WiresOK, StackOK, RestOK
    <2> QED
      BY <2>1, <2>2
  <1>26. CASE SendToDsp
    BY <1>26 DEF SendToDsp, WiresOK, UsersOK, FlagsOK, StackOK, RestOK
  <1>27. CASE shut_down_dsp_core
    BY <1>27 DEF shut_down_dsp_core, FlagsOK, UsersOK, WiresOK, StackOK, RestOK
  <1>28. CASE dynamic_load_up_dsp
    <2>1. FlagsOK'
      BY <1>28 DEF dynamic_load_up_dsp, FlagsOK
    <2>2. WiresOK'
      BY <1>28 DEF dynamic_load_up_dsp, WiresOK
    <2>3. StackOK'
      BY <1>28 DEF dynamic_load_up_dsp, StackOK
    <2>4. RestOK'
      BY <1>28 DEF dynamic_load_up_dsp, RestOK
    <2>5. UsersOK'
      BY <1>28 DEF dynamic_load_up_dsp, UsersOK
    <2> QED
      BY <2>1, <2>2, <2>3, <2>4, <2>5
  <1>29. CASE DspReads
    <2>1. WiresOK'
      BY <1>29 DEF DspReads, Dsp, WiresOK
    <2>2. UsersOK' /\ FlagsOK' /\ StackOK' /\ RestOK'
      BY <1>29 DEF DspReads, UsersOK, FlagsOK, StackOK, RestOK
    <2> QED
      BY <2>1, <2>2
  <1>30. CASE DspDecides
    <2>1. WiresOK'
      <3>1. PICK w \in Sleep : fromDsp' = Append(fromDsp, w)
        BY <1>30 DEF DspDecides
      <3>2. /\ fromDsp' \in Seq(Sleep \cup {"data"})
            /\ Len(fromDsp') <= MaxMsg
        BY <1>30, <3>1 DEF DspDecides, WiresOK
      <3> QED
        BY <1>30, <3>2 DEF DspDecides, WiresOK
    <2>2. StackOK'
      BY <1>30 DEF DspDecides, Asleep, Sleep, Dsp, StackOK
    <2>3. UsersOK' /\ FlagsOK' /\ RestOK'
      BY <1>30 DEF DspDecides, UsersOK, FlagsOK, RestOK
    <2> QED
      BY <2>1, <2>2, <2>3
  <1>31. CASE DspSleeps
    BY <1>31 DEF DspSleeps, Asleep, Sleep, Dsp, StackOK, UsersOK, FlagsOK, WiresOK,
       RestOK
  <1>32. CASE DspPoked
    BY <1>32 DEF DspPoked, Dsp, StackOK, UsersOK, FlagsOK, WiresOK, RestOK
  <1>33. CASE DspAlive
    <2>1. StackOK'
      BY <1>33 DEF DspAlive, Dsp, StackOK
    <2>2. RestOK'
      BY <1>33 DEF DspAlive, Dsp, RestOK
    <2>3. UsersOK' /\ FlagsOK' /\ WiresOK'
      BY <1>33 DEF DspAlive, UsersOK, FlagsOK, WiresOK
    <2> QED
      BY <2>1, <2>2, <2>3
  <1>34. CASE Alarm
    BY <1>34 DEF Alarm, WiresOK, UsersOK, FlagsOK, StackOK, RestOK
  <1>35. CASE DspSendsData
    BY <1>35 DEF DspSendsData, Dsp, Sleep, WiresOK, UsersOK, FlagsOK, StackOK,
       RestOK
  <1>36. CASE PagingChanges
    BY <1>36 DEF PagingChanges, Dsp, StackOK, UsersOK, FlagsOK, WiresOK, RestOK
  <1>37. CASE DspTimeNears
    <2>1. StackOK'
      BY <1>37 DEF DspTimeNears, Dsp, StackOK
    <2>2. UsersOK' /\ FlagsOK' /\ WiresOK' /\ RestOK'
      BY <1>37 DEF DspTimeNears, UsersOK, FlagsOK, WiresOK, RestOK
    <2> QED
      BY <2>1, <2>2
  <1>38. CASE DspDue
    BY <1>38 DEF DspDue, Dsp, WiresOK, StackOK, UsersOK, FlagsOK, RestOK
  <1>39. CASE Boot
    BY <1>39, EmptyIsQueue, WorkModeAssumption
    DEF Boot, Sleep, UsersOK, FlagsOK, WiresOK, StackOK, RestOK
  <1>40. CASE UNCHANGED vars
    BY <1>40 DEF vars, UsersOK, FlagsOK, WiresOK, StackOK, RestOK
  <1> QED
    BY <1>1, <1>2, <1>3, <1>4, <1>5, <1>6, <1>7, <1>8, <1>9, <1>10, <1>11, <1>12,
       <1>13, <1>14, <1>15, <1>16, <1>17, <1>18, <1>19, <1>20, <1>21, <1>22, <1>23,
       <1>24, <1>25, <1>26, <1>27, <1>28, <1>29, <1>30, <1>31, <1>32, <1>33, <1>34,
       <1>35, <1>36, <1>37, <1>38, <1>39, <1>40
    DEF Next, IdleStep, ThreadStep, DspStep, World
-----------------------------------------------------------------------------
(* Every step keeps the invariant                                             *)

\* At the start nothing sleeps and nothing is on the way.
LEMMA SafeInit == Init => Safe
BY DEF Init, Safe, StateOK, Announced, Quiet, SameSleep, OffInSleep, WordKept, Lingers, Pending

\* Every step keeps what was said of the DSP and of the idle task.
LEMMA SafeStep == Typed /\ Safe /\ [Next]_vars => Safe'
PROOF
  <1> SUFFICES ASSUME UsersOK, FlagsOK, WiresOK, StackOK, RestOK,
                      StateOK, Announced, Quiet, SameSleep, OffInSleep, WordKept, Lingers,
                      [Next]_vars
               PROVE  /\ StateOK' /\ Announced' /\ Quiet' /\ SameSleep'
                      /\ OffInSleep' /\ WordKept' /\ Lingers'
    BY DEF Typed, Safe
  <1> USE DEF users, flags, wires, stack, fate, Threads, Critical, On, ThreadsRun, Idle,
              Dsp, Pending, NOT_LOADED, DEEPSLEEP, STANDBY, Asleep
  <1>1. CASE vApplicationIdleHook
    BY <1>1
    DEF vApplicationIdleHook, icm_buf_check, Announced, Quiet, SameSleep, StateOK,
        OffInSleep, WordKept, Lingers
  <1>2. CASE Choose
    BY <1>2
    DEF Choose, Choice, Quiet, SameSleep, StateOK, OffInSleep, Announced, WordKept,
        Lingers
  <1>3. CASE ShutdownCheck
    BY <1>3
    DEF ShutdownCheck, icm_buf_check, Announced, Quiet, SameSleep, StateOK,
        OffInSleep, WordKept, Lingers
  <1>4. CASE PowerOff
    BY <1>4 DEF PowerOff, StateOK, Quiet, SameSleep, OffInSleep, WordKept, Lingers,
       Announced
  <1>5. CASE DeepCheck
    BY <1>5
    DEF DeepCheck, icm_buf_check, Deepsleep_Allow_Critical, Deepsleep_Allow,
        BufBusy, Announced, Quiet, SameSleep, StateOK, OffInSleep, WordKept, Lingers
  <1>6. CASE TimeEnough
    BY <1>6
    DEF TimeEnough, Leave, WakeDsp, Quiet, SameSleep, StateOK, OffInSleep, WordKept,
        Lingers, Announced
  <1>7. CASE Mask
    BY <1>7 DEF Mask, Leave, Quiet, SameSleep, StateOK, OffInSleep, Announced,
       WordKept, Lingers
  <1>8. CASE Save
    BY <1>8 DEF Save, Leave, Quiet, SameSleep, StateOK, OffInSleep, Announced,
       WordKept, Lingers
  <1>9. CASE Verify
    BY <1>9 DEF Verify, Quiet, SameSleep, StateOK, OffInSleep, Announced, WordKept,
       Lingers
  <1>10. CASE FallsAsleep
    BY <1>10
    DEF FallsAsleep, OffInSleep, StateOK, Announced, Quiet, SameSleep, WordKept,
        Lingers
  <1>11. CASE FallsThrough
    BY <1>11
    DEF FallsThrough, Leave, WakeDsp, Quiet, SameSleep, StateOK, OffInSleep,
        WordKept, Lingers, Announced
  <1>12. CASE StandbyCheck
    <2>1. Announced'
      BY <1>12 DEF StandbyCheck, icm_buf_check, NotAsleep, Leave, Announced
    <2>2. Quiet'
      BY <1>12 DEF StandbyCheck, icm_buf_check, NotAsleep, Leave, Quiet
    <2>3. SameSleep'
      BY <1>12 DEF StandbyCheck, icm_buf_check, NotAsleep, Leave, SameSleep, StateOK
    <2>4. OffInSleep'
      BY <1>12 DEF StandbyCheck, icm_buf_check, NotAsleep, Leave, OffInSleep
    <2>5. WordKept'
      <3>1. ~ poke' => ~ poke
        BY <1>12 DEF StandbyCheck, icm_buf_check
      <3>2. UNCHANGED << dsp, fromDsp >>
        BY <1>12 DEF StandbyCheck
      <3>3. ready'.deep = ready.deep
        BY <1>12 DEF StandbyCheck, NotAsleep, FlagsOK
      <3> QED
        BY <3>1, <3>2, <3>3 DEF WordKept
    <2>6. Lingers'
      BY <1>12 DEF StandbyCheck, icm_buf_check, NotAsleep, Leave, Lingers
    <2>7. StateOK'
      BY <1>12 DEF StandbyCheck, StateOK
    <2> QED
      BY <2>1, <2>2, <2>3, <2>4, <2>5, <2>6, <2>7
  <1>13. CASE SingleCheck
    BY <1>13
    DEF SingleCheck, Leave, Quiet, SameSleep, StateOK, OffInSleep, Announced,
        WordKept, Lingers
  <1>14. CASE StandbyMask
    BY <1>14
    DEF StandbyMask, Quiet, SameSleep, StateOK, OffInSleep, Announced, WordKept,
        Lingers
  <1>15. CASE StandbyUnmask
    BY <1>15
    DEF StandbyUnmask, Quiet, SameSleep, StateOK, OffInSleep, Announced, WordKept,
        Lingers
  <1>16. CASE StandbyEnds
    BY <1>16
    DEF StandbyEnds, Quiet, SameSleep, StateOK, OffInSleep, Announced, WordKept,
        Lingers
  <1>17. CASE StandbyExit
    BY <1>17
    DEF StandbyExit, Leave, NotAsleep, Quiet, SameSleep, StateOK, OffInSleep,
        WordKept, Announced, Lingers
  <1>18. CASE WfiCheck
    BY <1>18
    DEF WfiCheck, icm_buf_check, Leave, Announced, Quiet, SameSleep, StateOK,
        OffInSleep, WordKept, Lingers
  <1>19. CASE WfiEnds
    BY <1>19
    DEF WfiEnds, Leave, Quiet, SameSleep, StateOK, OffInSleep, Announced, WordKept,
        Lingers
  <1>20. CASE Read
    <2>1. Announced'
      BY <1>20 DEF Read, lpm_msg_process, Sleep, Announced
    <2>2. SameSleep'
      BY <1>20 DEF Read, lpm_msg_process, Sleep, SameSleep, StateOK
    <2>3. OffInSleep'
      BY <1>20 DEF Read, lpm_msg_process, Sleep, OffInSleep
    <2>4. WordKept'
      <3>1. UNCHANGED << dsp, poke >>
        BY <1>20 DEF Read
      <3>2. CASE fromDsp = << >>
        BY <1>20, <3>1, <3>2 DEF Read, WordKept
      <3>3. CASE fromDsp # << >>
        <4>1. fromDsp' = Tail(fromDsp)
          BY <1>20, <3>3 DEF Read
        <4>2. fromDsp' # << >> => fromDsp'[Len(fromDsp')] = fromDsp[Len(fromDsp)]
          BY <3>3, <4>1 DEF WiresOK
        <4>3. fromDsp' = << >> => Head(fromDsp) = fromDsp[Len(fromDsp)]
          <5>1. Len(fromDsp) \in Nat \ {0} /\ Len(Tail(fromDsp)) = Len(fromDsp) - 1
            BY <3>3 DEF WiresOK
          <5>2. fromDsp' = << >> => Len(fromDsp) = 1
            BY <4>1, <5>1
          <5>3. Head(fromDsp) = fromDsp[1]
            BY <3>3 DEF WiresOK
          <5> QED
            BY <5>2, <5>3
        <4>4. ASSUME Head(fromDsp) \in {"deep", "forever"} PROVE ready'.deep
          <5>1. Head(fromDsp) # "data" /\ Head(fromDsp) # "standby"
            BY <4>4
          <5>2. lpm_msg_process(Head(fromDsp))
            BY <1>20, <3>3, <5>1 DEF Read
          <5> QED
            BY <5>1, <5>2 DEF lpm_msg_process
        <4>5. dsp.want \in {"deep", "forever", "standby"}
          BY DEF StackOK, Sleep
        <4> QED
          BY <3>1, <3>3, <4>2, <4>3, <4>4, <4>5 DEF WordKept
      <3> QED
        BY <3>2, <3>3
    <2>5. StateOK' /\ Quiet' /\ Lingers'
      BY <1>20 DEF Read, StateOK, Quiet, Lingers
    <2> QED
      BY <2>1, <2>2, <2>3, <2>4, <2>5
  <1>21. CASE ClockHandler
    <2>1. SameSleep'
      BY <1>21 DEF ClockHandler, SameSleep, StateOK
    <2>2. OffInSleep'
      BY <1>21 DEF ClockHandler, OffInSleep
    <2>3. WordKept'
      <3>1. ~ poke' => ~ poke
        BY <1>21 DEF ClockHandler
      <3>2. UNCHANGED << dsp, fromDsp, ready >>
        BY <1>21 DEF ClockHandler
      <3> QED
        BY <3>1, <3>2 DEF WordKept
    <2>4. Lingers'
      <3>1. ~ poke' => ~ poke
        BY <1>21 DEF ClockHandler
      <3>2. UNCHANGED << dsp, HAVE_FREE_LOCK, paging >>
        BY <1>21 DEF ClockHandler
      <3> QED
        BY <3>1, <3>2 DEF Lingers
    <2>5. StateOK' /\ Announced' /\ Quiet'
      BY <1>21 DEF ClockHandler, StateOK, Announced, Quiet
    <2> QED
      BY <2>1, <2>2, <2>3, <2>4, <2>5
  <1>22. CASE TakeLock
    BY <1>22 DEF TakeLock, Quiet, Lingers, StateOK, Announced, SameSleep,
       OffInSleep, WordKept
  <1>23. CASE ReleaseLock
    <2>1. Quiet'
      BY <1>23 DEF ReleaseLock, Quiet
    <2>2. WordKept'
      BY <1>23 DEF ReleaseLock, WordKept
    <2>3. Lingers'
      <3>1. dsp' = dsp /\ (poke' = TRUE \/ NOT_LOADED)
        BY <1>23 DEF ReleaseLock
      <3> QED
        BY <3>1 DEF StackOK, Lingers
    <2>4. StateOK' /\ Announced' /\ SameSleep' /\ OffInSleep'
      BY <1>23 DEF ReleaseLock, StateOK, Announced, SameSleep, OffInSleep
    <2> QED
      BY <2>1, <2>2, <2>3, <2>4
  <1>24. CASE AtCommand
    BY <1>24 DEF AtCommand, Quiet, StateOK, Announced, SameSleep, OffInSleep,
       WordKept, Lingers
  <1>25. CASE Hooks
    BY <1>25 DEF Hooks, StateOK, Announced, Quiet, SameSleep, OffInSleep, WordKept,
       Lingers
  <1>26. CASE SendToDsp
    BY <1>26 DEF SendToDsp, Quiet, WordKept, Lingers, StateOK, Announced, SameSleep,
       OffInSleep
  <1>27. CASE shut_down_dsp_core
    BY <1>27
    DEF shut_down_dsp_core, StateOK, Announced, Quiet, SameSleep, OffInSleep,
        WordKept, Lingers
  <1>28. CASE dynamic_load_up_dsp
    BY <1>28
    DEF dynamic_load_up_dsp, StateOK, SameSleep, OffInSleep, WordKept, Lingers,
        Announced, Quiet
  <1>29. CASE DspReads
    BY <1>29 DEF DspReads, Quiet, StateOK, Announced, SameSleep, OffInSleep,
       WordKept, Lingers
  <1>30. CASE DspDecides
    BY <1>30
    DEF DspDecides, Sleep, StateOK, Announced, SameSleep, OffInSleep, WordKept,
        Lingers, Quiet
  <1>31. CASE DspSleeps
    BY <1>31
    DEF DspSleeps, Sleep, StateOK, SameSleep, OffInSleep, WordKept, Lingers,
        Announced, Quiet
  <1>32. CASE DspPoked
    BY <1>32 DEF DspPoked, StateOK, SameSleep, OffInSleep, WordKept, Lingers,
       Announced, Quiet
  <1>33. CASE DspAlive
    BY <1>33 DEF DspAlive, StateOK, SameSleep, OffInSleep, WordKept, Lingers,
       Announced, Quiet
  <1>34. CASE Alarm
    BY <1>34 DEF Alarm, SameSleep, StateOK, OffInSleep, Announced, Quiet, WordKept,
       Lingers
  <1>35. CASE DspSendsData
    BY <1>35
    DEF DspSendsData, Sleep, Announced, SameSleep, StateOK, OffInSleep, WordKept,
        Quiet, Lingers
  <1>36. CASE PagingChanges
    BY <1>36
    DEF PagingChanges, Lingers, StateOK, Announced, Quiet, SameSleep, OffInSleep,
        WordKept
  <1>37. CASE DspTimeNears
    BY <1>37
    DEF DspTimeNears, StateOK, SameSleep, OffInSleep, WordKept, Lingers, Announced,
        Quiet
  <1>38. CASE DspDue
    BY <1>38 DEF DspDue, StateOK, SameSleep, OffInSleep, WordKept, Lingers,
       Announced, Quiet
  <1>39. CASE Boot
    BY <1>39 DEF Boot, StateOK, Announced, Quiet, SameSleep, OffInSleep, WordKept,
       Lingers
  <1>40. CASE UNCHANGED vars
    BY <1>40 DEF vars, StateOK, Announced, Quiet, SameSleep, OffInSleep, WordKept,
       Lingers
  <1> QED
    BY <1>1, <1>2, <1>3, <1>4, <1>5, <1>6, <1>7, <1>8, <1>9, <1>10, <1>11, <1>12,
       <1>13, <1>14, <1>15, <1>16, <1>17, <1>18, <1>19, <1>20, <1>21, <1>22, <1>23,
       <1>24, <1>25, <1>26, <1>27, <1>28, <1>29, <1>30, <1>31, <1>32, <1>33, <1>34,
       <1>35, <1>36, <1>37, <1>38, <1>39, <1>40
    DEF Next, IdleStep, ThreadStep, DspStep, World

-----------------------------------------------------------------------------
(* Theorems                                                                   *)

(* The invariant of which all that follows is a consequence: the sections of  *)
(* lpm_func.c hold what they have asked for, or an interrupt is pending.       *)
THEOREM Invariant == Spec => [](Typed /\ Safe)
PROOF
  <1>1. Init => Typed /\ Safe
    BY TypeInit, SafeInit
  <1>2. (Typed /\ Safe) /\ [Next]_vars => (Typed /\ Safe)'
    BY TypeStep, SafeStep
  <1> QED
    BY <1>1, <1>2, PTL DEF Spec

(* Every variable keeps its type; in particular the state word says "not      *)
(* loaded" exactly while the DSP is off (dsp_process.c:434).                  *)
THEOREM TypeCorrect == Spec => []TypeOK
PROOF
  <1>1. Typed /\ Safe => TypeOK
    BY TypeSplit
  <1> QED
    BY <1>1, Invariant, PTL

(* The chip does not go off over an unread message (lpm_func.c:1363): what    *)
(* the DSP has sent since the check has left an interrupt pending.            *)
THEOREM NoMessageSleptOver == Spec => []NothingUnread
PROOF
  <1>1. Typed /\ Safe => NothingUnread
    BY DEF Safe, Announced, Quiet, OffInSleep, Pending, NothingUnread
  <1> QED
    BY <1>1, Invariant, PTL

(* With the DSP loaded the chip goes off only after the variables of its      *)
(* present deep sleep were written (lpm_func.c:1485).                         *)
THEOREM NothingUnsaved == Spec => []SavedBeforeOff
PROOF
  <1>1. Typed /\ Safe => SavedBeforeOff
    BY DEF Typed, Safe, StackOK, SameSleep, OffInSleep, Pending, SavedBeforeOff,
       NOT_LOADED
  <1> QED
    BY <1>1, Invariant, PTL

(* A lock taken after the choice of deep sleep prevents it (lpm_func.c:1365). *)
THEOREM NoLockSleptOver == Spec => []LocksRespected
PROOF
  <1>1. Typed /\ Safe => LocksRespected
    BY DEF Safe, Quiet, OffInSleep, LocksRespected
  <1> QED
    BY <1>1, Invariant, PTL

(* Neither core waits for the other: a DSP in deep sleep is known to be       *)
(* there, or has been poked to say so again (lpm_func.c:1576-1580).           *)
THEOREM SleepIsKnown == Spec => []DeepSleepKnown
PROOF
  <1>1. Typed /\ Safe => DeepSleepKnown
    BY DEF Safe, StateOK, WordKept, DeepSleepKnown, DEEPSLEEP, Asleep
  <1> QED
    BY <1>1, Invariant, PTL

(* A DSP does not stay in standby for a lock that is released                 *)
(* (at_worklock.c:283).                                                       *)
THEOREM NoLingering == Spec => []NoIdleStandby
PROOF
  <1>1. Typed /\ Safe => NoIdleStandby
    BY DEF Typed, Safe, StackOK, StateOK, Lingers, NoIdleStandby, STANDBY, Asleep,
       Sleep
  <1> QED
    BY <1>1, Invariant, PTL
=============================================================================
