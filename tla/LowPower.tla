------------------------------ MODULE LowPower ------------------------------
(* Sleeping: the idle hook of SYSAPP/lpm/src/low_power.c, which chooses among *)
(* deep sleep, standby and WFI, and the functions of lpm_func.c behind it;    *)
(* the words of the DSP about its own sleep (lpm_msg_process); loading the    *)
(* DSP and shutting it down (SYSAPP/system/src/dsp_process.c).                *)
(* A section between lpm_EnterCritical and lpm_ExitCritical masks the         *)
(* interrupts of the M3: no thread runs in it, but the DSP does, and time     *)
(* passes.  What the sections read of the DSP is therefore a step each time.  *)
(* The DSP image is not part of the sources; of it the model knows what the   *)
(* M3 relies on.                                                              *)
EXTENDS Integers, Sequences

CONSTANTS
  work_mode,  \* 0: the DSP is loaded at the start and stays loaded
  MaxMsg      \* bound: unread messages from the DSP

ASSUME WorkModeAssumption == work_mode \in {0, 1}
ASSUME MaxMsgAssumption == MaxMsg \in Nat \ {0}

VARIABLES
  idle,            \* the idle task of the M3: its next step
  HAVE_FREE_LOCK, processing, \* no work lock is held; an AT command is processed
  veto,            \* user_allow_deepsleep_hook, or a setting, forbids deep sleep
  standby_lock,    \* xy_StandbyStateCheck or user_allow_standby_hook says no
  ready,           \* g_deepsleep_dsp_ready and g_standby_dsp_ready
  slot,            \* the event RTC_TIMER_LPM: whose it is, or none
  off_request,     \* g_dsp_off_request
  utc,             \* the interrupt of the clock is pending at the M3
  ipc,             \* that of the DSP is, or the thread it wakes has work to do
  fromDsp, toDsp,  \* unread messages, to the M3 and to the DSP
  poke,            \* the interrupt of the M3 is pending at the DSP
  masked,          \* 0xA0110002: the clock does not wake the DSP
  DSP_LPM_STATE,
  dsp,             \* the DSP: its next step, the sleep it goes to, and whether
                   \* its time comes within AP_DEEPSLEEP_MIN
  paging,          \* the stack has to listen for paging: no deep sleep
  saved,           \* the flash holds the variables of the DSP's present sleep
  chip,            \* on, or off in deep sleep
  asserted         \* xy_assert has stopped the system

users == << HAVE_FREE_LOCK, processing, veto, standby_lock >>
flags == << ready, slot, off_request >>
wires == << utc, ipc, fromDsp, toDsp, poke >>
stack == << DSP_LPM_STATE, dsp, paging >>
fate == << chip, asserted >>
vars == << idle, users, flags, wires, masked, stack, saved, fate >>

Threads == {"hook", "off", "choose", "deep", "standby", "single", "wfi"}
Critical == {"power", "enough", "mask", "save", "verify", "sleep",
             "s_mask", "s_unmask", "s_sleep", "s_exit", "w_sleep"}

\* What the DSP goes to: deep sleep until the clock wakes it for paging, deep
\* sleep without such a time (or with the TAU's, and set_tau_rtc is 0), standby.
Sleep == {"deep", "forever", "standby"}

TypeOK ==
  /\ idle \in Threads \cup Critical
  /\ HAVE_FREE_LOCK \in BOOLEAN /\ processing \in BOOLEAN
  /\ veto \in BOOLEAN /\ standby_lock \in BOOLEAN
  /\ ready \in [deep : BOOLEAN, standby : BOOLEAN]
  /\ slot \in {"none", "ps", "ps_cb", "own"}
  /\ off_request \in BOOLEAN /\ utc \in BOOLEAN /\ ipc \in BOOLEAN
  /\ fromDsp \in Seq(Sleep \cup {"data"}) /\ Len(fromDsp) <= MaxMsg
  /\ toDsp \in BOOLEAN /\ poke \in BOOLEAN /\ masked \in BOOLEAN
  /\ DSP_LPM_STATE \in {"NOT_LOADED", "ALIVE", "STANDBY_READY", "DEEPSLEEP_READY"}
  /\ dsp \in [pc : {"off", "run", "settle", "asleep", "woken"},
              want : Sleep, near : BOOLEAN]
  /\ dsp.pc = "off" <=> DSP_LPM_STATE = "NOT_LOADED"
  /\ paging \in BOOLEAN /\ saved \in BOOLEAN
  /\ chip \in {"on", "off"} /\ asserted \in BOOLEAN

NOT_LOADED == DSP_LPM_STATE = "NOT_LOADED"
DEEPSLEEP == DSP_LPM_STATE = "DEEPSLEEP_READY"
STANDBY == DSP_LPM_STATE = "STANDBY_READY"

Init ==
  /\ idle = "hook"
  /\ HAVE_FREE_LOCK \in BOOLEAN /\ processing = FALSE
  /\ veto = FALSE /\ standby_lock = FALSE
  /\ ready = [deep |-> FALSE, standby |-> FALSE] /\ slot = "none"
  /\ off_request = FALSE
  /\ utc = FALSE /\ ipc = FALSE /\ fromDsp = << >> /\ toDsp = FALSE /\ poke = FALSE
  /\ masked = FALSE
  /\ DSP_LPM_STATE = IF work_mode = 0 THEN "ALIVE" ELSE "NOT_LOADED"
  /\ dsp = [pc |-> IF work_mode = 0 THEN "run" ELSE "off", want |-> "standby", near |-> FALSE]
  /\ paging = FALSE /\ saved = FALSE
  /\ chip = "on" /\ asserted = FALSE

On == chip = "on" /\ ~ asserted
ThreadsRun == On /\ idle \in Threads
Pending == utc \/ ipc
\* Interrupts, and the threads they make ready, come before the idle task.
Idle(pc) == On /\ idle = pc /\ (pc \in Threads => ~ Pending)

-----------------------------------------------------------------------------
(* What the idle hook asks                                                    *)

BufBusy == toDsp \/ fromDsp # << >>

\* icm_buf_check: wake whoever has not read its messages.
icm_buf_check ==
  /\ poke' = (poke \/ (toDsp /\ DSP_LPM_STATE # "ALIVE"))
  /\ ipc' = (ipc \/ (~ toDsp /\ fromDsp # << >>))

Deepsleep_Allow == HAVE_FREE_LOCK /\ ~ veto /\ (NOT_LOADED \/ ready.deep)

\* Mutant: the decision made before the critical section is good enough.
Deepsleep_Allow_Critical_Trusting == ~ BufBusy

Deepsleep_Allow_Critical == Deepsleep_Allow /\ ~ processing /\ ~ BufBusy
Standby_Allow == ready.standby /\ ~ standby_lock
SingleCore_Allow == NOT_LOADED /\ ~ standby_lock

Choice == CASE Deepsleep_Allow -> "deep"
            [] ~ Deepsleep_Allow /\ Standby_Allow -> "standby"
            [] ~ Deepsleep_Allow /\ ~ Standby_Allow /\ SingleCore_Allow -> "single"
            [] OTHER -> "wfi"

vApplicationIdleHook ==
  /\ Idle("hook")
  /\ icm_buf_check
  /\ idle' = IF off_request THEN "off" ELSE "choose"
  /\ UNCHANGED << users, flags, utc, fromDsp, toDsp, masked, stack, saved, fate >>

Choose ==
  /\ Idle("choose")
  /\ idle' = Choice
  /\ UNCHANGED << users, flags, wires, masked, stack, saved, fate >>

\* shut_down_dspcore_process: not before the messages are read.
ShutdownCheck ==
  /\ Idle("off")
  /\ icm_buf_check
  /\ idle' = IF BufBusy THEN "hook" ELSE "power"
  /\ UNCHANGED << users, flags, utc, fromDsp, toDsp, masked, stack, saved, fate >>

PowerOff ==
  /\ Idle("power")
  /\ DSP_LPM_STATE' = "NOT_LOADED"
  /\ dsp' = [dsp EXCEPT !.pc = "off", !.near = FALSE]
  /\ ready' = [deep |-> FALSE, standby |-> FALSE]
  /\ off_request' = FALSE
  /\ poke' = FALSE
  /\ idle' = "hook"
  /\ UNCHANGED << users, slot, utc, ipc, fromDsp, toDsp, masked, paging, saved, fate >>

-----------------------------------------------------------------------------
(* LPM_Deepsleep_Process                                                      *)

\* Returns, with or without sleep, from the section.
Leave == idle' = "hook"

DeepCheck ==
  /\ Idle("deep")
  /\ icm_buf_check
  /\ idle' = IF Deepsleep_Allow_Critical THEN "enough" ELSE "hook"
  /\ UNCHANGED << users, flags, utc, fromDsp, toDsp, masked, stack, saved, fate >>

\* Mutant: a DSP that has not fallen asleep is not waked to say so again.
WakeDsp_NoPoke ==
  /\ ready' = IF NOT_LOADED THEN ready ELSE [ready EXCEPT !.deep = FALSE]
  /\ UNCHANGED poke

\* lpm_func.c:1576: the DSP is to say again when it can sleep.
WakeDsp ==
  /\ ready' = IF NOT_LOADED THEN ready ELSE [ready EXCEPT !.deep = FALSE]
  /\ poke' = (poke \/ ~ NOT_LOADED)

TimeEnough ==
  /\ Idle("enough")
  /\ IF NOT_LOADED \/ (DEEPSLEEP /\ ~ dsp.near)
     THEN idle' = "mask" /\ UNCHANGED << ready, poke >>
     ELSE Leave /\ WakeDsp
  /\ UNCHANGED << users, slot, off_request, utc, ipc, fromDsp, toDsp, masked, stack, saved, fate >>

\* save_nv_in_deepsleep asks twice, and leaves the mask when the answers differ.
Mask ==
  /\ Idle("mask")
  /\ IF DEEPSLEEP \/ NOT_LOADED
     THEN idle' = "save" /\ masked' = TRUE
     ELSE Leave /\ UNCHANGED masked
  /\ UNCHANGED << users, flags, wires, stack, saved, fate >>

Save ==
  /\ Idle("save")
  /\ IF DEEPSLEEP \/ NOT_LOADED
     THEN idle' = "verify" /\ saved' = TRUE
     ELSE Leave /\ UNCHANGED saved
  /\ UNCHANGED << users, flags, wires, masked, stack, fate >>

\* Mutant: clears the pending interrupts, as force_into_deep_sleep does.
Verify_Clears ==
  /\ Idle("verify")
  /\ IF DEEPSLEEP \/ NOT_LOADED
     THEN /\ masked' = FALSE
          /\ idle' = "sleep" /\ utc' = FALSE /\ ipc' = FALSE
          /\ UNCHANGED asserted
     ELSE asserted' = TRUE /\ UNCHANGED << idle, masked, utc, ipc >>
  /\ UNCHANGED << users, flags, fromDsp, toDsp, poke, stack, saved, chip >>

\* The write has taken a while: the DSP must have slept through it.
Verify ==
  /\ Idle("verify")
  /\ IF DEEPSLEEP \/ NOT_LOADED
     THEN /\ masked' = FALSE
          /\ idle' = IF utc THEN "hook" ELSE "sleep"
          /\ UNCHANGED asserted
     ELSE asserted' = TRUE /\ UNCHANGED << idle, masked >>
  /\ UNCHANGED << users, flags, wires, stack, saved, chip >>

\* LPM_ARM_Entry_Deep_Sleep: the chip goes off once both cores sleep, but a
\* pending interrupt ends the WFI although it is masked.
FallsAsleep ==
  /\ Idle("sleep")
  /\ ~ Pending
  /\ dsp.pc = "off" \/ (dsp.pc = "asleep" /\ ~ poke)
  /\ chip' = "off"
  /\ UNCHANGED << idle, users, flags, wires, masked, stack, saved, asserted >>

FallsThrough ==
  /\ Idle("sleep")
  /\ Pending
  /\ Leave /\ WakeDsp
  /\ UNCHANGED << users, slot, off_request, utc, ipc, fromDsp, toDsp, masked, stack, saved, fate >>

-----------------------------------------------------------------------------
(* LPM_Standby_Process, LPM_Standby_Process_SingleCore, LPM_Wfi_Process       *)

\* A DSP that has left standby has to announce it again.
NotAsleep == IF STANDBY THEN ready ELSE [ready EXCEPT !.standby = FALSE]

\* Characters at the AT pin, or a task that is due soon, prevent it as well.
StandbyCheck ==
  /\ Idle("standby")
  /\ icm_buf_check
  /\ \/ Leave /\ UNCHANGED << ready, slot >>
     \/ /\ ~ BufBusy /\ Standby_Allow /\ ~ Deepsleep_Allow
        /\ IF STANDBY THEN slot' = "own" /\ idle' = "s_mask" /\ UNCHANGED ready
           ELSE Leave /\ ready' = NotAsleep /\ UNCHANGED slot
  /\ UNCHANGED << users, off_request, utc, fromDsp, toDsp, masked, stack, saved, fate >>

SingleCheck ==
  /\ Idle("single")
  /\ \/ SingleCore_Allow /\ ~ Deepsleep_Allow /\ slot' = "own" /\ idle' = "s_mask"
     \/ Leave /\ UNCHANGED slot
  /\ UNCHANGED << users, ready, off_request, wires, masked, stack, saved, fate >>

\* LPM_ARM_Entry_Standby: while the AT pin, if it is used, changes its function,
\* the clock must not wake the DSP; a character on the pin ends it anywhere.
StandbyMask ==
  /\ Idle("s_mask")
  /\ \/ (STANDBY \/ NOT_LOADED) /\ idle' = "s_unmask" /\ masked' \in {masked, TRUE}
     \/ idle' = "s_exit" /\ UNCHANGED masked
  /\ UNCHANGED << users, flags, wires, stack, saved, fate >>

StandbyUnmask ==
  /\ Idle("s_unmask")
  /\ masked' = NOT_LOADED
  /\ \/ (STANDBY \/ NOT_LOADED) /\ idle' = "s_sleep"
     \/ idle' = "s_exit"
  /\ UNCHANGED << users, flags, wires, stack, saved, fate >>

StandbyEnds ==
  /\ Idle("s_sleep")
  /\ Pending
  /\ idle' = "s_exit"
  /\ UNCHANGED << users, flags, wires, masked, stack, saved, fate >>

StandbyExit ==
  /\ Idle("s_exit")
  /\ masked' = NOT_LOADED
  /\ slot' = "none"
  /\ ready' = IF NOT_LOADED THEN ready ELSE NotAsleep
  /\ Leave
  /\ UNCHANGED << users, off_request, wires, stack, saved, fate >>

WfiCheck ==
  /\ Idle("wfi")
  /\ icm_buf_check
  /\ \/ /\ ~ (BufBusy \/ Deepsleep_Allow \/ Standby_Allow \/ SingleCore_Allow)
        /\ slot' = "own" /\ idle' = "w_sleep"
     \/ Leave /\ UNCHANGED slot
  /\ UNCHANGED << users, ready, off_request, utc, fromDsp, toDsp, masked, stack, saved, fate >>

WfiEnds ==
  /\ Idle("w_sleep")
  /\ Pending
  /\ slot' = "none"
  /\ Leave
  /\ UNCHANGED << users, ready, off_request, wires, masked, stack, saved, fate >>

IdleStep ==
  \/ vApplicationIdleHook \/ Choose \/ ShutdownCheck \/ PowerOff
  \/ DeepCheck \/ TimeEnough \/ Mask \/ Save \/ Verify \/ FallsAsleep \/ FallsThrough
  \/ StandbyCheck \/ SingleCheck \/ StandbyMask \/ StandbyUnmask \/ StandbyEnds
  \/ StandbyExit \/ WfiCheck \/ WfiEnds

-----------------------------------------------------------------------------
(* Interrupts and threads of the M3                                           *)

\* lpm_msg_process
lpm_msg_process(m) ==
  /\ ready' = [deep |-> m # "standby", standby |-> m = "standby"]
  /\ slot' = CASE m = "standby" -> "ps_cb"
               [] m = "deep" /\ work_mode = 0 -> "ps"
               [] OTHER -> "none"

\* The threads that the interrupt of the DSP wakes read until nothing is left.
Read ==
  /\ ThreadsRun
  /\ ipc
  /\ IF fromDsp = << >>
     THEN ipc' = FALSE /\ UNCHANGED << fromDsp, ready, slot >>
     ELSE /\ fromDsp' = Tail(fromDsp)
          /\ IF Head(fromDsp) = "data" THEN UNCHANGED << ready, slot >>
             ELSE lpm_msg_process(Head(fromDsp))
          /\ UNCHANGED ipc
  /\ UNCHANGED << idle, users, off_request, utc, toDsp, poke, masked, stack, saved, fate >>

\* rtc_int_handler; the event RTC_TIMER_LPM, which is the DSP's time, may be
\* the one that is due, and psm_standby_cb its callback.
ClockHandler ==
  /\ ThreadsRun
  /\ utc
  /\ utc' = FALSE
  /\ \/ UNCHANGED << slot, poke >>
     \/ /\ slot # "none" /\ (dsp.pc \in {"settle", "asleep"} => dsp.near)
        /\ slot' = "none" /\ poke' = (poke \/ slot = "ps_cb")
  /\ UNCHANGED << idle, users, ready, off_request, ipc, fromDsp, toDsp, masked, stack, saved, fate >>

TakeLock ==
  /\ ThreadsRun
  /\ HAVE_FREE_LOCK' = FALSE
  /\ UNCHANGED << idle, processing, veto, standby_lock, flags, wires, masked, stack, saved, fate >>

\* Mutant: without the interrupt of at_worklock.c:286.
ReleaseLock_NoPoke ==
  /\ ThreadsRun
  /\ ~ HAVE_FREE_LOCK
  /\ HAVE_FREE_LOCK' = TRUE
  /\ UNCHANGED << idle, processing, veto, standby_lock, flags, wires, masked, stack, saved, fate >>

\* The end of decrease_worklock when no lock is left.
ReleaseLock ==
  /\ ThreadsRun
  /\ ~ HAVE_FREE_LOCK
  /\ HAVE_FREE_LOCK' = TRUE
  /\ poke' = (poke \/ ~ NOT_LOADED)
  /\ UNCHANGED << idle, processing, veto, standby_lock, flags, utc, ipc, fromDsp, toDsp, masked, stack, saved, fate >>

\* An AT command is taken up, or answered.
AtCommand ==
  /\ ThreadsRun
  /\ processing' = ~ processing
  /\ UNCHANGED << idle, HAVE_FREE_LOCK, veto, standby_lock, flags, wires, masked, stack, saved, fate >>

\* The hooks look at the world outside, such as a pin of the MCU; AT commands
\* change the settings.
Hooks ==
  /\ On
  /\ \/ veto' = ~ veto /\ UNCHANGED standby_lock
     \/ standby_lock' = ~ standby_lock /\ UNCHANGED veto
  /\ UNCHANGED << idle, HAVE_FREE_LOCK, processing, flags, wires, masked, stack, saved, fate >>

\* IpcMsg_Write
SendToDsp ==
  /\ ThreadsRun
  /\ ~ NOT_LOADED /\ ~ toDsp
  /\ toDsp' = TRUE /\ poke' = TRUE
  /\ UNCHANGED << idle, users, flags, utc, ipc, fromDsp, masked, stack, saved, fate >>

\* The DSP has answered AT+CFUN=5; it is to be shut down.  (A command of the MCU
\* at the stack would make it assert; that is the matter of AtCtl.)
shut_down_dsp_core ==
  /\ ThreadsRun
  /\ work_mode # 0 /\ ~ NOT_LOADED
  /\ dsp.pc = "run"
  /\ off_request' = TRUE
  /\ UNCHANGED << idle, users, ready, slot, wires, masked, stack, saved, fate >>

\* A DSP that is loaded already is left alone.
dynamic_load_up_dsp ==
  /\ ThreadsRun
  /\ NOT_LOADED /\ work_mode # 0
  /\ DSP_LPM_STATE' = "ALIVE"
  /\ dsp' = [dsp EXCEPT !.pc = "run"]
  /\ ready' = [deep |-> FALSE, standby |-> FALSE]
  /\ slot' = "none" /\ poke' = FALSE /\ saved' = FALSE
  /\ UNCHANGED << idle, users, off_request, utc, ipc, fromDsp, toDsp, masked, paging, fate >>

ThreadStep ==
  \/ TakeLock \/ ReleaseLock \/ AtCommand \/ Hooks \/ SendToDsp
  \/ shut_down_dsp_core \/ dynamic_load_up_dsp

-----------------------------------------------------------------------------
(* The DSP, and the world                                                     *)

Dsp(pc) == On /\ dsp.pc = pc

DspReads ==
  /\ Dsp("run") /\ toDsp
  /\ toDsp' = FALSE
  /\ UNCHANGED << idle, users, flags, utc, ipc, fromDsp, poke, masked, stack, saved, fate >>

DspSendsData ==
  /\ Dsp("run")
  /\ Len(fromDsp) < MaxMsg
  /\ fromDsp' = Append(fromDsp, "data") /\ ipc' = TRUE
  /\ UNCHANGED << idle, users, flags, utc, toDsp, poke, masked, stack, saved, fate >>

PagingChanges ==
  /\ Dsp("run")
  /\ paging' = ~ paging
  /\ UNCHANGED << idle, users, flags, wires, masked, DSP_LPM_STATE, dsp, saved, fate >>

Asleep(w) == IF w = "standby" THEN "STANDBY_READY" ELSE "DEEPSLEEP_READY"

\* Without work it announces its sleep: deep, unless it has to listen for
\* paging or a lock makes it linger.  It may write its state before or after.
DspDecides ==
  /\ Dsp("run") /\ ~ toDsp
  /\ Len(fromDsp) < MaxMsg
  /\ \E w \in Sleep, near \in BOOLEAN :
       /\ IF w = "standby" THEN paging \/ ~ HAVE_FREE_LOCK ELSE ~ paging
       /\ dsp' = [dsp EXCEPT !.pc = "settle", !.want = w, !.near = near]
       /\ fromDsp' = Append(fromDsp, w) /\ ipc' = TRUE
       /\ DSP_LPM_STATE' \in {DSP_LPM_STATE, Asleep(w)}
  /\ poke' = FALSE
  /\ UNCHANGED << idle, users, flags, utc, toDsp, masked, paging, saved, fate >>

DspSleeps ==
  /\ Dsp("settle")
  /\ DSP_LPM_STATE' = Asleep(dsp.want)
  /\ dsp' = [dsp EXCEPT !.pc = "asleep"]
  /\ UNCHANGED << idle, users, flags, wires, masked, paging, saved, fate >>

DspTimeNears ==
  /\ Dsp("settle") \/ Dsp("asleep")
  /\ ~ dsp.near
  /\ dsp' = [dsp EXCEPT !.near = TRUE]
  /\ UNCHANGED << idle, users, flags, wires, masked, DSP_LPM_STATE, paging, saved, fate >>

\* Its time has come, which is not between two adjacent instructions of the M3
\* if it was AP_DEEPSLEEP_MIN away at the first.
DspDue ==
  /\ Dsp("asleep")
  /\ dsp.near /\ ~ masked /\ idle # "mask"
  /\ dsp' = [dsp EXCEPT !.pc = "woken"] /\ utc' = TRUE
  /\ UNCHANGED << idle, users, flags, ipc, fromDsp, toDsp, poke, masked, DSP_LPM_STATE, paging, saved, fate >>

DspPoked ==
  /\ Dsp("asleep") /\ poke
  /\ dsp' = [dsp EXCEPT !.pc = "woken"]
  /\ UNCHANGED << idle, users, flags, wires, masked, DSP_LPM_STATE, paging, saved, fate >>

\* Waking takes it a while, and then it says so.
DspAlive ==
  /\ Dsp("woken")
  /\ DSP_LPM_STATE' = "ALIVE"
  /\ dsp' = [dsp EXCEPT !.pc = "run", !.near = FALSE]
  /\ saved' = FALSE
  /\ UNCHANGED << idle, users, flags, wires, masked, paging, fate >>

DspStep == \/ DspReads \/ DspDecides \/ DspSleeps \/ DspPoked \/ DspAlive

\* The clock interrupts the M3: at the end of a sleep, or for an application.
Alarm ==
  /\ On /\ ~ utc
  /\ utc' = TRUE
  /\ UNCHANGED << idle, users, flags, ipc, fromDsp, toDsp, poke, masked, stack, saved, fate >>

\* The clock or a pin switches the chip on again.
Boot ==
  /\ chip = "off"
  /\ idle' = "hook" /\ HAVE_FREE_LOCK' \in BOOLEAN
  /\ processing' = FALSE /\ veto' = FALSE /\ standby_lock' = FALSE
  /\ ready' = [deep |-> FALSE, standby |-> FALSE] /\ slot' = "none"
  /\ off_request' = FALSE
  /\ utc' = FALSE /\ ipc' = FALSE /\ fromDsp' = << >> /\ toDsp' = FALSE /\ poke' = FALSE
  /\ masked' = FALSE
  /\ DSP_LPM_STATE' = IF work_mode = 0 THEN "ALIVE" ELSE "NOT_LOADED"
  /\ dsp' = [pc |-> IF work_mode = 0 THEN "run" ELSE "off", want |-> "standby", near |-> FALSE]
  /\ paging' = FALSE /\ saved' = FALSE
  /\ chip' = "on" /\ UNCHANGED asserted

World == DspSendsData \/ PagingChanges \/ DspTimeNears \/ DspDue \/ Boot

Next == IdleStep \/ Read \/ ClockHandler \/ ThreadStep \/ DspStep \/ Alarm \/ World

Spec == Init /\ [][Next]_vars

-----------------------------------------------------------------------------
(* Properties                                                                 *)

(* The chip does not go off over an unread message, either way, although the  *)
(* DSP may wake, send and sleep again between the last look at the rings      *)
(* (lpm_func.c:1363) and the WFI.                                             *)
NothingUnread == chip = "off" => fromDsp = << >> /\ ~ toDsp

(* With the DSP loaded the chip goes off only if the DSP sleeps deeply, and   *)
(* after its variables of this very sleep were written (lpm_func.c:1485).     *)
SavedBeforeOff == chip = "off" /\ ~ NOT_LOADED => DEEPSLEEP /\ saved

(* A lock that is taken, or an AT command that begins, after the idle hook    *)
(* has chosen deep sleep still prevents it (lpm_func.c:1365).                 *)
LocksRespected == chip = "off" => HAVE_FREE_LOCK /\ ~ processing

(* A DSP that sleeps deeply, with nothing on its way between the cores, is    *)
(* known to do so: a refused sleep that takes the flag back also makes the    *)
(* DSP speak again (lpm_func.c:1576-1580).  Otherwise both would wait for     *)
(* each other, and the M3 would stay awake as long as the DSP sleeps.         *)
DeepSleepKnown ==
  DEEPSLEEP /\ dsp.pc = "asleep" /\ ~ poke /\ fromDsp = << >> => ready.deep

(* at_worklock.c:283: a DSP does not linger in standby on account of a lock   *)
(* that is held no more.                                                      *)
NoIdleStandby ==
  STANDBY /\ dsp.pc = "asleep" /\ ~ poke /\ HAVE_FREE_LOCK => paging

(* lpm_func.c:1498: no DSP wakes while the M3 writes for deep sleep.          *)
NoAssert == ~ asserted

(* lpm_func.c:351: the event that wakes the chip for DRX must be set.         *)
DrxWakeupSet ==
  chip = "off" /\ work_mode = 0 /\ dsp.want = "deep" => slot = "ps"
=============================================================================
