------------------------------ MODULE WorkLock ------------------------------
(* The work locks of SYSAPP/at_cmd/src/at_worklock.c, which keep the chip out *)
(* of deep sleep.  Applications and platform threads take and release locks   *)
(* under lock_mux, the thread at_ctl does so for the external MCU and, in the *)
(* operator's version, for the cloud clients, and the timer task of FreeRTOS  *)
(* releases the delay lock.                                                   *)
(* What is done under lock_mux is one step, up to a call of the timer: a      *)
(* timer can expire between osTimerIsRunning and the call it decides on.      *)
EXTENDS Integers, Sequences

CONSTANTS
  AppUser,       \* threads that use LOCK_DEFAULT, in matched pairs
  LocalUser,     \* threads that use LOCK_XY_LOCAL, in matched pairs
  Mcu, Cdp,      \* who uses LOCK_EXT: the external MCU, the cloud client
  MaxHold,       \* bound: locks that one user holds at a time
  MaxWait,       \* send_rai_proxy waits so often for uplink data (10)
  OPERATION_VER, \* the operator's version of the firmware
  Paired,        \* the MCU too gives back only locks that it asked for
  UnlockAll,     \* applications call xy_unlock_all
  DynamicLoad    \* work_mode is not 0: the DSP is loaded and shut down

User == AppUser \cup LocalUser \cup {Mcu, Cdp}

ASSUME UserAssumption ==
  /\ AppUser \cap LocalUser = {} /\ Mcu # Cdp
  /\ {Mcu, Cdp} \cap (AppUser \cup LocalUser) = {}
ASSUME BoundAssumption == MaxHold \in Nat \ {0} /\ MaxWait \in Nat
ASSUME VersionAssumption ==
  /\ OPERATION_VER \in BOOLEAN /\ Paired \in BOOLEAN
  /\ UnlockAll \in BOOLEAN /\ DynamicLoad \in BOOLEAN

VARIABLES
  num,            \* lock_head[type].num
  HAVE_FREE_LOCK, \* nothing forbids deep sleep
  have_lock_ext,  \* the first AT+WORKLOCK=1 has been seen
  at_lock,        \* the first AT command has taken LOCK_EXT
  timer,          \* deepsleep_delay_timer: not created, idle or running
  timer_call,     \* the holder of lock_mux is about to call the timer so
  cmdq,           \* commands to the timer task
  callback,       \* the timer task waits for lock_mux in the callback
  asserted,       \* an assertion has stopped the system
  at,             \* the thread at_ctl: its next step, the command it handles
  hold,           \* locks asked for by each user and not given back
  dsp, dspLock,   \* the DSP is loaded; it believes that a user holds a lock
  told,           \* and has been told so since it was loaded
  user_lock_state,
  rai,            \* send_rai_proxy: its next step, delay_num
  needRai         \* a RAI is to follow the last release

lockVars == << num, HAVE_FREE_LOCK, have_lock_ext >>
timerVars == << timer, timer_call, cmdq, callback, asserted >>
dspVars == << dsp, dspLock, told, user_lock_state >>
raiVars == << rai, needRai >>
vars == << lockVars, at_lock, timerVars, at, hold, dspVars, raiVars >>

LockType == {"LOCK_DEFAULT", "LOCK_XY_LOCAL", "LOCK_DELAY", "LOCK_EXT"}

TypeOf(u) == IF u \in AppUser THEN "LOCK_DEFAULT"
             ELSE IF u \in LocalUser THEN "LOCK_XY_LOCAL" ELSE "LOCK_EXT"

TypeOK ==
  /\ num \in [LockType -> Nat]
  /\ HAVE_FREE_LOCK \in BOOLEAN /\ have_lock_ext \in BOOLEAN /\ at_lock \in BOOLEAN
  /\ callback \in BOOLEAN /\ asserted \in BOOLEAN /\ needRai \in BOOLEAN
  /\ dsp \in BOOLEAN /\ dspLock \in BOOLEAN /\ told \in BOOLEAN /\ user_lock_state \in BOOLEAN
  /\ timer \in {"none", "idle", "running"}
  /\ timer_call \in {"none", "start", "stop"}
  /\ cmdq \in Seq({"start", "stop"})
  /\ at \in [pc : {"idle", "delay", "autolock", "handle"},
             cmd : {"boot", "other", "lock", "unlock", "register", "deregister"}]
  /\ hold \in [User -> 0 .. MaxHold]
  /\ rai \in [pc : {"none", "check", "wait", "exit"}, delay_num : 0 .. MaxWait]

\* nv_restore and restore_RTC_list set HAVE_FREE_LOCK and user_lock_state by
\* the cause of the start; unless it was the RTC, at_ctl takes the delay lock.
Init ==
  /\ num = [type \in LockType |-> 0]
  /\ HAVE_FREE_LOCK \in BOOLEAN
  /\ have_lock_ext = FALSE /\ at_lock = FALSE
  /\ timer = "none" /\ timer_call = "none" /\ cmdq = << >>
  /\ callback = FALSE /\ asserted = FALSE
  /\ at \in {[pc |-> "delay", cmd |-> "boot"], [pc |-> "idle", cmd |-> "boot"]}
  /\ hold = [u \in User |-> 0]
  /\ dsp = ~ DynamicLoad
  /\ user_lock_state \in BOOLEAN /\ dspLock = user_lock_state /\ told = FALSE
  /\ rai = [pc |-> "none", delay_num |-> 0] /\ needRai = FALSE

-----------------------------------------------------------------------------
(* What the handlers do, under lock_mux                                       *)

DspLock == {"LOCK_DEFAULT", "LOCK_EXT"}
DspLocks(n) == n["LOCK_DEFAULT"] + n["LOCK_EXT"]
BusyLocks(n) == DspLocks(n) + n["LOCK_XY_LOCAL"]
Locks(n) == BusyLocks(n) + n["LOCK_DELAY"]

\* The MSG_LOCK or MSG_UNLOCK that send_shm_msg sends, unless the DSP is not loaded.
Tell(locked) ==
  /\ user_lock_state' = locked
  /\ IF dsp THEN dspLock' = locked /\ told' = TRUE ELSE UNCHANGED << dspLock, told >>
  /\ UNCHANGED dsp

\* xy_delaylock_suspend: the delay lock is given back and its timer stopped.
Suspended(n) == [n EXCEPT !["LOCK_DELAY"] = 0]
Suspend(n) ==
  timer_call' = IF n["LOCK_DELAY"] # 0 /\ timer = "running" THEN "stop" ELSE "none"

\* create_send_rai_task: only if the last one has ended.
create_send_rai_task ==
  /\ rai' = IF rai.pc = "none" THEN [pc |-> "check", delay_num |-> 0] ELSE rai
  /\ needRai' = TRUE

\* The first AT+WORKLOCK=1 is taken for the lock of the first AT command.
FirstExt(type) == type = "LOCK_EXT" /\ num[type] = 1 /\ ~ have_lock_ext

\* Mutant: the DSP is told of the first LOCK_EXT only.
FirstDspLock_Ext(type, n) == type = "LOCK_EXT" /\ n[type] = 1

FirstDspLock(type, n) == type \in DspLock /\ DspLocks(n) = 1

increase_worklock(type) ==
  LET n == [num EXCEPT ![type] = @ + 1]
  IN  /\ HAVE_FREE_LOCK' = FALSE
      /\ needRai' = FALSE /\ UNCHANGED rai
      /\ IF FirstExt(type)
         THEN have_lock_ext' = TRUE /\ timer_call' = "none" /\ UNCHANGED << num, dspVars >>
         ELSE /\ UNCHANGED have_lock_ext
              /\ num' = IF type = "LOCK_EXT" THEN Suspended(n) ELSE n
              /\ IF type = "LOCK_EXT" THEN Suspend(n) ELSE timer_call' = "none"
              /\ IF FirstDspLock(type, n) /\ dsp THEN Tell(TRUE) ELSE UNCHANGED dspVars

Released(type) == [num EXCEPT ![type] = IF @ > 0 THEN @ - 1 ELSE 0]

NoDspLock(type) == type \in DspLock /\ DspLocks(Released(type)) = 0

\* Mutant: without the repair of at_worklock.c:249.
ExtSeen_NoRepair(type) == have_lock_ext

\* An AT+WORKLOCK=0 that gives back the lock of the first AT command.
ExtSeen(type) == have_lock_ext \/ (type = "LOCK_EXT" /\ num[type] = 1)

LastLock(type, n) == Locks(n) = 0

decrease_worklock(type) ==
  LET n == IF NoDspLock(type) THEN Suspended(Released(type)) ELSE Released(type)
  IN  /\ num' = n
      /\ have_lock_ext' = ExtSeen(type)
      /\ IF NoDspLock(type) THEN Suspend(num) ELSE timer_call' = "none"
      /\ IF NoDspLock(type) /\ dsp THEN Tell(FALSE) ELSE UNCHANGED dspVars
      /\ IF type \in DspLock /\ BusyLocks(n) = 0 /\ dsp
         THEN create_send_rai_task ELSE UNCHANGED raiVars
      /\ HAVE_FREE_LOCK' = (HAVE_FREE_LOCK \/ LastLock(type, n))

do_unlock_all ==
  /\ num' = [type \in LockType |-> 0]
  /\ Suspend(num)
  /\ HAVE_FREE_LOCK' = TRUE
  /\ Tell(FALSE)
  /\ create_send_rai_task
  /\ UNCHANGED have_lock_ext

-----------------------------------------------------------------------------
(* Threads: the timer task has the highest priority of all                    *)

TimerTaskReady == IF callback THEN timer_call = "none" ELSE cmdq # << >>
ThreadsRun == ~ asserted /\ ~ TimerTaskReady
LockFree == ThreadsRun /\ timer_call = "none"

\* osTimerStart, or osTimerStop, which asserts that the timer runs; lock_mux is
\* released.
TimerCall ==
  /\ ThreadsRun
  /\ timer_call # "none"
  /\ timer_call' = "none"
  /\ IF timer_call = "stop" /\ timer # "running"
     THEN asserted' = TRUE /\ UNCHANGED << timer, cmdq >>
     ELSE /\ cmdq' = Append(cmdq, timer_call)
          /\ timer' = IF timer = "none" THEN "idle" ELSE timer
          /\ UNCHANGED asserted
  /\ UNCHANGED << lockVars, at_lock, callback, at, hold, dspVars, raiVars >>

\* xy_work_lock and xy_work_unlock
xy_work_lock(u) ==
  /\ LockFree
  /\ hold[u] < MaxHold
  /\ increase_worklock(TypeOf(u))
  /\ hold' = [hold EXCEPT ![u] = @ + 1]
  /\ UNCHANGED << at_lock, timer, cmdq, callback, asserted, at >>

xy_work_unlock(u) ==
  /\ LockFree
  /\ hold[u] > 0
  /\ decrease_worklock(TypeOf(u))
  /\ hold' = [hold EXCEPT ![u] = @ - 1]
  /\ UNCHANGED << at_lock, timer, cmdq, callback, asserted, at >>

xy_unlock_all ==
  /\ LockFree
  /\ UnlockAll
  /\ do_unlock_all
  /\ hold' = [u \in User |-> 0]
  /\ UNCHANGED << at_lock, timer, cmdq, callback, asserted, at >>

-----------------------------------------------------------------------------
(* The thread at_ctl                                                          *)

AtGoto(pc) == at' = [at EXCEPT !.pc = pc]

\* An AT command of the MCU; those of the cloud clients take locks themselves.
AtCommand(cmd) ==
  /\ LockFree
  /\ at.pc = "idle"
  /\ cmd \in {"register", "deregister"} => OPERATION_VER
  /\ cmd = "unlock" /\ Paired => hold[Mcu] > 0
  /\ at' = [pc |-> "delay", cmd |-> cmd]
  /\ UNCHANGED << lockVars, at_lock, timerVars, hold, dspVars, raiVars >>

\* Mutant: the delay lock is taken although its timer runs.
TakesDelay_Again == num["LOCK_DELAY"] <= MaxHold

TakesDelay == timer # "running"

\* Mutant: the delay lock is counted without xy_work_lock.
xy_delaylock_active_NoClear ==
  /\ LockFree
  /\ at.pc = "delay" /\ num["LOCK_EXT"] = 0
  /\ AtGoto(IF at.cmd = "boot" THEN "idle" ELSE "autolock")
  /\ num' = [num EXCEPT !["LOCK_DELAY"] = @ + 1]
  /\ timer_call' = "start"
  /\ UNCHANGED << HAVE_FREE_LOCK, have_lock_ext, at_lock, timer, cmdq, callback,
                  asserted, hold, dspVars, raiVars >>

\* xy_delaylock_active: unless LOCK_EXT is held, start the timer anew, and take
\* the delay lock if it did not run.
xy_delaylock_active ==
  /\ LockFree
  /\ at.pc = "delay"
  /\ AtGoto(IF at.cmd = "boot" THEN "idle" ELSE "autolock")
  /\ IF num["LOCK_EXT"] >= 1
     THEN UNCHANGED << lockVars, timer_call, dspVars, raiVars >>
     ELSE /\ timer_call' = "start"
          /\ IF TakesDelay
             THEN /\ num' = [num EXCEPT !["LOCK_DELAY"] = @ + 1]
                  /\ HAVE_FREE_LOCK' = FALSE /\ needRai' = FALSE
             ELSE UNCHANGED << num, HAVE_FREE_LOCK, needRai >>
          /\ UNCHANGED << have_lock_ext, dspVars, rai >>
  /\ UNCHANGED << at_lock, timer, cmdq, callback, asserted, hold >>

\* set_lock_by_MCU_at, after xy_delaylock_active: the first AT command takes
\* LOCK_EXT.
set_lock_by_MCU_at ==
  /\ LockFree
  /\ at.pc = "autolock"
  /\ AtGoto("handle")
  /\ IF ~ OPERATION_VER /\ ~ at_lock
     THEN increase_worklock("LOCK_EXT") /\ at_lock' = TRUE
     ELSE UNCHANGED << lockVars, at_lock, timer_call, dspVars, raiVars >>
  /\ UNCHANGED << timer, cmdq, callback, asserted, hold >>

\* at_WORKLOCK_req, or a registration of a cloud client and its end.
AtLock(u, cmd) ==
  /\ at.cmd = cmd
  /\ hold[u] < MaxHold
  /\ increase_worklock("LOCK_EXT")
  /\ hold' = [hold EXCEPT ![u] = @ + 1]

AtUnlock(u, cmd) ==
  /\ at.cmd = cmd
  /\ decrease_worklock("LOCK_EXT")
  /\ hold' = [hold EXCEPT ![u] = IF @ > 0 THEN @ - 1 ELSE 0]

AtHandle ==
  /\ LockFree
  /\ at.pc = "handle"
  /\ AtGoto("idle")
  /\ \/ AtLock(Mcu, "lock")
     \/ AtUnlock(Mcu, "unlock")
     \/ hold[Cdp] = 0 /\ AtLock(Cdp, "register")
     \/ hold[Cdp] = 1 /\ AtUnlock(Cdp, "deregister")
     \/ /\ \/ at.cmd = "other"
           \/ at.cmd = "lock" /\ hold[Mcu] = MaxHold
           \/ at.cmd = "register" /\ hold[Cdp] = 1
           \/ at.cmd = "deregister" /\ hold[Cdp] = 0
        /\ UNCHANGED << lockVars, timer_call, hold, dspVars, raiVars >>
  /\ UNCHANGED << at_lock, timer, cmdq, callback, asserted >>

-----------------------------------------------------------------------------
(* The timer task, and the thread send_rai_process                            *)

\* prvProcessReceivedCommands
TimerCommand ==
  /\ ~ asserted /\ ~ callback
  /\ cmdq # << >>
  /\ timer' = IF Head(cmdq) = "start" THEN "running" ELSE "idle"
  /\ cmdq' = Tail(cmdq)
  /\ UNCHANGED << lockVars, at_lock, timer_call, callback, asserted, at, hold, dspVars, raiVars >>

\* prvProcessExpiredTimer
TimerExpires ==
  /\ ~ asserted /\ ~ callback
  /\ cmdq = << >>
  /\ timer = "running"
  /\ timer' = "idle" /\ callback' = TRUE
  /\ UNCHANGED << lockVars, at_lock, timer_call, cmdq, asserted, at, hold, dspVars, raiVars >>

deepsleep_delay_callback ==
  /\ ~ asserted
  /\ callback /\ timer_call = "none"
  /\ decrease_worklock("LOCK_DELAY")
  /\ callback' = FALSE
  /\ UNCHANGED << at_lock, timer, cmdq, asserted, at, hold >>

RaiGoto(pc) == rai' = [rai EXCEPT !.pc = pc]

\* send_rai_proxy: while no lock is held, send the RAI when no uplink data is
\* outstanding, or has been waited for long enough.
RaiSends ==
  /\ ThreadsRun
  /\ rai.pc = "check" /\ HAVE_FREE_LOCK
  /\ RaiGoto("exit") /\ needRai' = FALSE
  /\ UNCHANGED << lockVars, at_lock, timerVars, at, hold, dspVars >>

RaiWaits ==
  /\ ThreadsRun
  /\ rai.pc = "check" /\ HAVE_FREE_LOCK /\ rai.delay_num < MaxWait
  /\ rai' = [pc |-> "wait", delay_num |-> rai.delay_num + 1]
  /\ UNCHANGED << lockVars, at_lock, timerVars, at, hold, dspVars, needRai >>

RaiWakes ==
  /\ ThreadsRun
  /\ rai.pc = "wait"
  /\ RaiGoto("check")
  /\ UNCHANGED << lockVars, at_lock, timerVars, at, hold, dspVars, needRai >>

RaiGivesUp ==
  /\ ThreadsRun
  /\ rai.pc = "check" /\ ~ HAVE_FREE_LOCK
  /\ RaiGoto("exit")
  /\ UNCHANGED << lockVars, at_lock, timerVars, at, hold, dspVars, needRai >>

RaiEnds ==
  /\ ThreadsRun
  /\ rai.pc = "exit"
  /\ rai' = [pc |-> "none", delay_num |-> 0]
  /\ UNCHANGED << lockVars, at_lock, timerVars, at, hold, dspVars, needRai >>

RaiStep == RaiSends \/ RaiWaits \/ RaiWakes \/ RaiGivesUp \/ RaiEnds

-----------------------------------------------------------------------------
(* The DSP: loaded, it reads user_lock_state                                  *)

dynamic_load_up_dsp ==
  /\ ThreadsRun
  /\ DynamicLoad /\ ~ dsp
  /\ dsp' = TRUE /\ dspLock' = user_lock_state /\ told' = FALSE
  /\ UNCHANGED << lockVars, at_lock, timerVars, at, hold, user_lock_state, raiVars >>

shut_down_dspcore_process ==
  /\ ThreadsRun
  /\ DynamicLoad /\ dsp
  /\ dsp' = FALSE
  /\ UNCHANGED << lockVars, at_lock, timerVars, at, hold, dspLock, told, user_lock_state, raiVars >>

AtStep == xy_delaylock_active \/ set_lock_by_MCU_at \/ AtHandle
TimerStep == TimerCommand \/ deepsleep_delay_callback \/ TimerExpires

Next ==
  \/ \E u \in AppUser \cup LocalUser : xy_work_lock(u) \/ xy_work_unlock(u)
  \/ xy_unlock_all
  \/ \E cmd \in {"other", "lock", "unlock", "register", "deregister"} : AtCommand(cmd)
  \/ AtStep \/ TimerCall \/ TimerStep
  \/ RaiStep
  \/ dynamic_load_up_dsp \/ shut_down_dspcore_process

Spec == Init /\ [][Next]_vars

(* Threads that are ready run, lock_mux is handed on, and timers expire.      *)
FairSpec ==
  /\ Spec
  /\ WF_vars(TimerCall) /\ WF_vars(TimerCommand) /\ WF_vars(deepsleep_delay_callback)
  /\ WF_vars(TimerExpires)
  /\ SF_vars(AtStep)
  /\ SF_vars(RaiSends \/ RaiWaits \/ RaiGivesUp) /\ SF_vars(RaiWakes) /\ SF_vars(RaiEnds)

-----------------------------------------------------------------------------
(* Properties                                                                 *)

(* Deep sleep is allowed only if no lock of any kind is counted: every path   *)
(* that sets HAVE_FREE_LOCK (at_worklock.c:281, 361) agrees with every path   *)
(* that counts.                                                               *)
FreeMeansNone == HAVE_FREE_LOCK => Locks(num) = 0

(* The step that takes away the last lock, whichever it is, also allows deep  *)
(* sleep (at_worklock.c:279-281): otherwise the chip would stay awake until   *)
(* somebody locks and unlocks again.                                          *)
LastReleaseFrees == [][Locks(num) # 0 /\ Locks(num') = 0 => HAVE_FREE_LOCK']_vars

(* A user of the DSP holds a lock only with the DSP's knowledge               *)
(* (at_worklock.c:219: while such a lock exists, the DSP must be told).       *)
DspKnowsOfLock == dsp /\ DspLocks(num) > 0 => dspLock

(* And the DSP, once told anything, does not believe in a lock that nobody    *)
(* holds (at_worklock.c:254).                                                 *)
DspKnowsOfRelease == dsp /\ told /\ DspLocks(num) = 0 => ~ dspLock

(* xy_system.h:193: "as long as every service uses its locks in pairs, the    *)
(* flow is right": the chip does not fall asleep under a user who asked for a *)
(* lock and has not given it back.                                            *)
UsersKeepAwake == (\E u \in User : hold[u] > 0) => ~ HAVE_FREE_LOCK

(* factory_nv.h:384: after an AT command the chip waits deepsleep_delay       *)
(* before deep sleep: it may not sleep while the timer runs.                  *)
DelayKeepsAwake ==
  timer = "running" /\ timer_call = "none" /\ cmdq = << >> => ~ HAVE_FREE_LOCK

(* osal.c:1619: osTimerStop asserts that it stops a running timer.            *)
NoAssert == ~ asserted

(* The delay lock is not for ever: if nobody else holds a lock and the MCU is *)
(* silent, deep sleep is allowed at last.                                     *)
OnlyDelay == num["LOCK_DELAY"] > 0 /\ BusyLocks(num) = 0
DelayEnds == <>[](at.pc = "idle") =>
               (OnlyDelay ~> (HAVE_FREE_LOCK \/ BusyLocks(num) > 0 \/ asserted))

(* xy_system.h:204: the platform sends a RAI after the release, unless a lock *)
(* is taken again.                                                            *)
RaiSent == needRai ~> (~ needRai \/ asserted)
=============================================================================
