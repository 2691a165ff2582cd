------------------------------ MODULE RtcTimer ------------------------------
(* The software timers of SYSAPP/rtc_tmr/src/rtc_tmr.c: a table of events,    *)
(* kept over deep sleep, that share one alarm of the RTC hardware.  Threads   *)
(* add and delete events under g_rtc_mutex, the thread rtc_tmr handles those  *)
(* that are due, and the idle hook borrows the slot RTC_TIMER_LPM, without    *)
(* the mutex, to be woken from WFI.  The alarm compares for equality with a   *)
(* register of Tick ms resolution: set too late, it does not fire.            *)
EXTENDS Integers, FiniteSets

CONSTANTS
  Timer,          \* timer_id: the slots of ap_rtc_event_arry, numbers
  RTC_TIMER_LPM,  \* the slot that low power uses
  Thread,         \* threads that add and delete events
  Rtc, NoThread,  \* the thread rtc_tmr, and nobody
  Tick,           \* ms per unit of the alarm register (10)
  Second,         \* ms per second (1000)
  Start, Horizon, \* bounds of the clock, in ms
  Delay,          \* offsets that threads ask for, in ms
  IdleTime        \* lpm_GetExpectedIdleTick, in ms

ASSUME TimerAssumption ==
  Timer \subseteq Nat /\ IsFiniteSet(Timer) /\ RTC_TIMER_LPM \in Timer
ASSUME ThreadAssumption ==
  Rtc \notin Thread /\ NoThread \notin Thread /\ Rtc # NoThread
ASSUME TickAssumption == Tick \in Nat \ {0} /\ Tick + 1 < Second
ASSUME SecondAssumption ==
  Second \in Nat /\ Second % Tick = 0 /\ Second + Tick + 1 < 65536
ASSUME ClockAssumption == Start \in Nat \ {0} /\ Horizon \in Nat /\ Start <= Horizon
\* AP_TICKLESS_MIN keeps the idle hook from sleeping for less than the alarm
\* can be set ahead.  (While the DSP is not loaded shorter sleeps are possible,
\* with the finer alarm of rtc_alarm_reset_accurate: not modelled.)
ASSUME DelayAssumption == Delay \subseteq Nat /\ IdleTime \subseteq Nat
                          /\ \A d \in IdleTime : d > Tick

VARIABLES
  now,         \* the RTC's clock, in ms
  event,       \* rtc_msec of each slot, 0 if it is free
  alarm,       \* the alarm register, in units of Tick, 0 if disabled
  utc_irq,     \* the alarm has fired and its handler has not run
  g_rtc_sem, g_rtc_mutex,
  thr,         \* of each thread and of rtc_tmr: the next step, its arguments
  mode,        \* the M3 core runs, waits for an interrupt, or is in deep sleep
  g_need_offtime  \* the clock was lost with the power: AT+OFFTIME sets it

vars == << now, event, alarm, utc_irq, g_rtc_sem, g_rtc_mutex, thr, mode,
           g_need_offtime >>

RTC_ALARM_INVALID == 0
Time == Start .. Horizon
NoCall == [pc |-> "idle", id |-> RTC_TIMER_LPM, at |-> 0]

TypeOK ==
  /\ now \in Time
  /\ event \in [Timer -> Time \cup {0}]
  /\ alarm \in 0 .. Horizon
  /\ utc_irq \in BOOLEAN
  /\ g_rtc_sem \in 0 .. 1
  /\ g_rtc_mutex \in Thread \cup {Rtc, NoThread}
  /\ thr \in [Thread \cup {Rtc} ->
                [pc : {"idle", "insert", "delete", "reset", "forge",
                       "lock", "scan", "callback"},
                 id : Timer, at : Time \cup {0}]]
  /\ mode \in {"run", "wfi", "deepsleep"}
  /\ g_need_offtime \in BOOLEAN

\* rtc_tmr_entry releases the semaphore once when it starts.
Init ==
  /\ now = Start
  /\ event = [i \in Timer |-> 0]
  /\ alarm = 0
  /\ utc_irq = FALSE
  /\ g_rtc_sem = 1
  /\ g_rtc_mutex = NoThread
  /\ thr = [t \in Thread \cup {Rtc} |-> NoCall]
  /\ mode = "run"
  /\ g_need_offtime \in BOOLEAN

-----------------------------------------------------------------------------
(* The table                                                                  *)

Used(ev) == {i \in Timer : ev[i] # 0}

\* rtc_get_next_event: the first slot of those with the earliest time.
Next_event(ev) == CHOOSE i \in Used(ev) :
                    \A j \in Used(ev) : ev[i] < ev[j] \/ (ev[i] = ev[j] /\ i <= j)

IsNext(ev, i) == i \in Used(ev) /\ i = Next_event(ev)

NextTime(ev) == IF Used(ev) = {} THEN RTC_ALARM_INVALID ELSE ev[Next_event(ev)]

\* Mutant: no margin, as if the alarm could be set for the present.
Expired_Exact(at, cur) == at \div Tick <= cur \div Tick

\* is_rtc_event_expired
Expired(at, cur) == at \div Tick <= cur \div Tick + 1

\* rtc_time_compare_offset packs the fields of a calendar time, the ms into the
\* low 16 bits: an offset in ms is not carried into the seconds.
Packed(t) == (t \div Second) * 65536 + (t % Second)

\* Too near for the alarm: less than Tick + 1 ms ahead.
Near(at, cur) == Packed(at) < Packed(cur) + Tick + 1

\* rtc_alarm_reset, in a critical section.  The clock is read in whole ms, so
\* that it may have gone on when the register is written.
SetAlarm(at) ==
  \/ at = RTC_ALARM_INVALID /\ alarm' = 0 /\ UNCHANGED now
  \/ at # RTC_ALARM_INVALID /\ Near(at, now) /\ UNCHANGED << now, alarm >>
  \/ /\ at # RTC_ALARM_INVALID
     /\ ~ Near(at, now)
     /\ now' \in {now, now + 1} \cap Time
     /\ alarm' = at \div Tick

rtc_alarm_reset(at) ==
  /\ SetAlarm(at)
  /\ g_rtc_sem' = IF at # RTC_ALARM_INVALID /\ Near(at, now) THEN 1 ELSE g_rtc_sem

\* insert_new_rtc_event: the alarm is set only if the new event is the next.
Inserted(i, at) ==
  /\ event' = [event EXCEPT ![i] = at]
  /\ IF IsNext(event', i) THEN rtc_alarm_reset(at)
                          ELSE UNCHANGED << now, alarm, g_rtc_sem >>

\* rtc_event_delete
Deleted(i) ==
  /\ event' = [event EXCEPT ![i] = 0]
  /\ IF IsNext(event, i) THEN rtc_alarm_reset(NextTime(event'))
                         ELSE UNCHANGED << now, alarm, g_rtc_sem >>

-----------------------------------------------------------------------------
(* Threads                                                                    *)

At(t, pc) == mode = "run" /\ thr[t].pc = pc
Goto(t, pc) == thr' = [thr EXCEPT ![t].pc = pc]
Done(t) == thr' = [thr EXCEPT ![t] = NoCall]

\* rtc_event_add_by_offset: the time is computed before the mutex is taken.
Add(t, i, d) ==
  /\ At(t, "idle")
  /\ now + d \in Time
  /\ thr' = [thr EXCEPT ![t] = [pc |-> "insert", id |-> i, at |-> now + d]]
  /\ UNCHANGED << now, event, alarm, utc_irq, g_rtc_sem, g_rtc_mutex, mode,
                 g_need_offtime >>

Remove(t, i) ==
  /\ At(t, "idle")
  /\ thr' = [thr EXCEPT ![t] = [pc |-> "delete", id |-> i, at |-> 0]]
  /\ UNCHANGED << now, event, alarm, utc_irq, g_rtc_sem, g_rtc_mutex, mode,
                 g_need_offtime >>

\* Under the mutex: write the slot, and see whether the alarm is to be set.
Insert(t) ==
  LET i == thr[t].id
      at == thr[t].at
      ev == [event EXCEPT ![i] = at]
  IN  /\ At(t, "insert")
      /\ g_rtc_mutex = NoThread
      /\ event' = ev
      /\ IF IsNext(ev, i)
         THEN /\ thr' = [thr EXCEPT ![t] = [NoCall EXCEPT !.pc = "reset", !.at = at]]
              /\ g_rtc_mutex' = t
         ELSE Done(t) /\ UNCHANGED g_rtc_mutex
      /\ UNCHANGED << now, alarm, utc_irq, g_rtc_sem, mode, g_need_offtime >>

\* Mutant: the mutex is not waited for.
Delete_NoMutex(t) ==
  LET ev == [event EXCEPT ![thr[t].id] = 0]
  IN  /\ At(t, "delete")
      /\ event' = ev
      /\ IF IsNext(event, thr[t].id)
         THEN thr' = [thr EXCEPT ![t] = [NoCall EXCEPT !.pc = "reset", !.at = NextTime(ev)]]
         ELSE Done(t)
      /\ UNCHANGED << now, alarm, utc_irq, g_rtc_sem, g_rtc_mutex, mode,
                 g_need_offtime >>

Delete(t) ==
  LET ev == [event EXCEPT ![thr[t].id] = 0]
  IN  /\ At(t, "delete")
      /\ g_rtc_mutex = NoThread
      /\ event' = ev
      /\ IF IsNext(event, thr[t].id)
         THEN /\ thr' = [thr EXCEPT ![t] = [NoCall EXCEPT !.pc = "reset", !.at = NextTime(ev)]]
              /\ g_rtc_mutex' = t
         ELSE Done(t) /\ UNCHANGED g_rtc_mutex
      /\ UNCHANGED << now, alarm, utc_irq, g_rtc_sem, mode, g_need_offtime >>

Reset(t) ==
  /\ At(t, "reset")
  /\ rtc_alarm_reset(thr[t].at)
  /\ g_rtc_mutex' = NoThread
  /\ Done(t)
  /\ UNCHANGED << event, utc_irq, mode, g_need_offtime >>

\* AT+OFFTIME sets the clock, and then forges an interrupt.
rtc_timer_reset(t, to) ==
  /\ At(t, "idle")
  /\ g_need_offtime
  /\ \A u \in Thread : thr[u].pc # "forge"
  /\ now' = to
  /\ Goto(t, "forge")
  /\ UNCHANGED << event, alarm, utc_irq, g_rtc_sem, g_rtc_mutex, mode,
                 g_need_offtime >>

\* With an offset of 0 or -1 the times are worth nothing: the memory that is
\* kept over deep sleep is cleared, with the table, and without the mutex.
at_OFFTIME_clears(t) ==
  /\ At(t, "idle")
  /\ g_need_offtime
  /\ \A u \in Thread : thr[u].pc # "forge"
  /\ event' = [i \in Timer |-> 0]
  /\ Goto(t, "forge")
  /\ UNCHANGED << now, alarm, utc_irq, g_rtc_sem, g_rtc_mutex, mode, g_need_offtime >>

Forge(t) ==
  /\ At(t, "forge")
  /\ g_rtc_sem' = 1
  /\ g_need_offtime' = FALSE
  /\ Done(t)
  /\ UNCHANGED << now, event, alarm, utc_irq, g_rtc_mutex, mode >>

-----------------------------------------------------------------------------
(* The thread rtc_tmr                                                         *)

\* rtc_tmr_entry
RtcWakes ==
  /\ At(Rtc, "idle")
  /\ g_rtc_sem = 1
  /\ g_rtc_sem' = 0
  /\ Goto(Rtc, "lock")
  /\ UNCHANGED << now, event, alarm, utc_irq, g_rtc_mutex, mode,
                 g_need_offtime >>

RtcLocks ==
  /\ At(Rtc, "lock")
  /\ g_rtc_mutex = NoThread
  /\ g_rtc_mutex' = Rtc
  /\ Goto(Rtc, "scan")
  /\ UNCHANGED << now, event, alarm, utc_irq, g_rtc_sem, mode, g_need_offtime >>

\* Mutant: handles one event and leaves.
RtcExpires_One ==
  LET at == NextTime(event)
  IN  /\ At(Rtc, "scan")
      /\ at # RTC_ALARM_INVALID /\ Expired(at, now)
      /\ event' = [event EXCEPT ![Next_event(event)] = 0]
      /\ Done(Rtc)
      /\ g_rtc_mutex' = NoThread
      /\ UNCHANGED << now, alarm, utc_irq, g_rtc_sem, mode, g_need_offtime >>

\* rtc_event_proc: the next event is due; it is removed and its callback runs.
RtcExpires ==
  LET at == NextTime(event)
  IN  /\ At(Rtc, "scan")
      /\ at # RTC_ALARM_INVALID /\ Expired(at, now)
      /\ event' = [event EXCEPT ![Next_event(event)] = 0]
      /\ Goto(Rtc, "callback")
      /\ UNCHANGED << now, alarm, utc_irq, g_rtc_sem, g_rtc_mutex, mode,
                 g_need_offtime >>

\* The callback adds events, seconds ahead, or deletes some: the mutex is
\* recursive.  In between it may block, with the mutex.
RtcCallback ==
  /\ At(Rtc, "callback")
  /\ \/ \E i \in Timer, d \in Delay \ (0 .. Tick) :
          now + d \in Time /\ Inserted(i, now + d)
     \/ \E i \in Timer : Deleted(i)
  /\ UNCHANGED << utc_irq, g_rtc_mutex, thr, mode, g_need_offtime >>

RtcReturns ==
  /\ At(Rtc, "callback")
  /\ Goto(Rtc, "scan")
  /\ UNCHANGED << now, event, alarm, utc_irq, g_rtc_sem, g_rtc_mutex, mode,
                 g_need_offtime >>

\* Nothing is due: set the alarm for the next event.
RtcDone ==
  LET at == NextTime(event)
  IN  /\ At(Rtc, "scan")
      /\ at = RTC_ALARM_INVALID \/ ~ Expired(at, now)
      /\ thr' = [thr EXCEPT ![Rtc].pc = "reset", ![Rtc].at = at]
      /\ UNCHANGED << now, event, alarm, utc_irq, g_rtc_sem, g_rtc_mutex, mode,
                 g_need_offtime >>

-----------------------------------------------------------------------------
(* Clock, interrupt and the idle hook                                         *)

Fires(from, to) == alarm # 0 /\ from < alarm * Tick /\ alarm * Tick = to

ClockTick ==
  /\ now < Horizon
  /\ now' = now + 1
  /\ utc_irq' = (utc_irq \/ Fires(now, now + 1))
  /\ UNCHANGED << event, alarm, g_rtc_sem, g_rtc_mutex, thr, mode,
                 g_need_offtime >>

rtc_int_handler ==
  /\ mode = "run"
  /\ utc_irq
  /\ utc_irq' = FALSE
  /\ g_rtc_sem' = 1
  /\ UNCHANGED << now, event, alarm, g_rtc_mutex, thr, mode,
                 g_need_offtime >>

\* A thread that is not ready: it waits for the semaphore or the mutex, has
\* nothing to do with the events, or its callback waits for something else.
Waits(t) ==
  \/ thr[t].pc = "idle" /\ (t = Rtc => g_rtc_sem = 0)
  \/ thr[t].pc \in {"insert", "delete", "lock"} /\ g_rtc_mutex # NoThread
  \/ thr[t].pc = "callback"

\* The idle thread runs when no other is ready.
IdleRuns ==
  /\ mode = "run"
  /\ ~ utc_irq
  /\ \A t \in Thread \cup {Rtc} : Waits(t)

\* With interrupts masked and without the mutex.
LPM_Wfi_Process(d) ==
  /\ IdleRuns
  /\ now + d \in Time
  /\ Inserted(RTC_TIMER_LPM, now + d)
  /\ mode' = "wfi"
  /\ UNCHANGED << utc_irq, g_rtc_mutex, thr, g_need_offtime >>

\* Some interrupt ends the WFI: the alarm's or another.
WfiEnds ==
  /\ mode = "wfi"
  /\ Deleted(RTC_TIMER_LPM)
  /\ mode' = "run"
  /\ UNCHANGED << utc_irq, g_rtc_mutex, thr, g_need_offtime >>

\* Table and alarm are kept.  A pending interrupt forbids it.
LPM_Deepsleep_Process ==
  /\ IdleRuns
  /\ mode' = "deepsleep"
  /\ UNCHANGED << now, event, alarm, utc_irq, g_rtc_sem, g_rtc_mutex, thr, g_need_offtime >>

\* Woken by the alarm or a pin.  restore_RTC_list leaves the alarm as it is, but
\* HardWare_Init_AfterNV sets it again; the threads start anew, and
\* rtc_tmr_entry releases the semaphore.
Boot ==
  /\ mode = "deepsleep"
  /\ mode' = "run"
  /\ SetAlarm(NextTime(event))
  /\ thr' = [t \in Thread \cup {Rtc} |-> NoCall]
  /\ g_rtc_mutex' = NoThread
  /\ utc_irq' = FALSE
  /\ g_rtc_sem' = 1
  /\ UNCHANGED << event, g_need_offtime >>

ThreadStep(t) ==
  \/ \E i \in Timer : Remove(t, i) \/ \E d \in Delay : Add(t, i, d)
  \/ Insert(t) \/ Delete(t) \/ Reset(t) \/ at_OFFTIME_clears(t) \/ Forge(t)
  \/ \E to \in Time : rtc_timer_reset(t, to)

RtcStep == \/ RtcWakes \/ RtcLocks \/ RtcExpires \/ RtcCallback \/ RtcReturns \/ RtcDone
           \/ Reset(Rtc)

Next ==
  \/ \E t \in Thread : ThreadStep(t)
  \/ RtcStep
  \/ ClockTick \/ rtc_int_handler
  \/ \E d \in IdleTime : LPM_Wfi_Process(d)
  \/ WfiEnds \/ LPM_Deepsleep_Process \/ Boot

Spec == Init /\ [][Next]_vars

(* FreeRTOS runs every ready thread and hands the mutex on in turn, and no     *)
(* callback blocks for ever; the clock goes on, and the alarm's interrupt is   *)
(* served and ends sleep of either kind.                                       *)
Fairness ==
  /\ \A t \in Thread :
       SF_vars(Insert(t)) /\ SF_vars(Delete(t)) /\ WF_vars(Reset(t)) /\ WF_vars(Forge(t))
  /\ WF_vars(RtcWakes) /\ SF_vars(RtcLocks)
  /\ WF_vars(RtcExpires) /\ SF_vars(RtcReturns) /\ WF_vars(RtcDone) /\ WF_vars(Reset(Rtc))
  /\ WF_vars(ClockTick) /\ WF_vars(rtc_int_handler)
  /\ WF_vars(utc_irq /\ WfiEnds) /\ WF_vars(utc_irq /\ Boot)

FairSpec == Spec /\ Fairness

-----------------------------------------------------------------------------
(* Properties                                                                 *)

\* Nobody is at work on the table, nor about to be.
Quiet ==
  /\ g_rtc_mutex = NoThread
  /\ g_rtc_sem = 0 /\ ~ utc_irq /\ thr[Rtc].pc = "idle"
  /\ \A t \in Thread : thr[t].pc # "forge"

\* The alarm will fire, and no later than the next event.
AlarmAhead == alarm * Tick > now /\ alarm <= NextTime(event) \div Tick

(* While nobody is at work, an alarm stands between now and the next event:   *)
(* every insertion, deletion, expiry, sleep and setting of the clock leaves   *)
(* the one alarm set for it (rtc_tmr.c:284-346).  Not so where the clock      *)
(* passes from one second to the next (MCRtcTimerCarry.cfg).                  *)
Armed == Quiet /\ Used(event) # {} => AlarmAhead

\* The alarm stands at the first Tick of a second: rtc_time_compare_offset does
\* not carry its margin into the seconds, so that it can be set too late.
AtSecond == alarm # 0 /\ (alarm * Tick) % Second = 0

(* Only there is an alarm late: whatever threads, rtc_tmr, the idle hook and  *)
(* a new clock do, the one alarm of the table stands ahead of the next event, *)
(* or at the first Tick of a second (rtc_tmr.c:284-346).                      *)
ArmedWithinSecond == Quiet /\ Used(event) # {} => AlarmAhead \/ AtSecond

(* rtc_tmr.c:327 says of an event that is too near for the alarm that it      *)
(* "certainly" counts as expired afterwards: rtc_tmr, woken by the semaphore  *)
(* instead, handles it and does not go round in circles.                      *)
NearIsExpired ==
  \A i \in Used(event) : Near(event[i], now) => Expired(event[i], now)

\* The core fell asleep while a callback of rtc_tmr was blocked: the alarm is not
\* yet set for what the table holds.
AsleepInCallback == mode # "run" /\ thr[Rtc].pc = "callback"

(* Every event that falls due is handled, deleted or set anew: none is        *)
(* forgotten over sleep, other events, a busy mutex or a new clock, unless    *)
(* the alarm for it was set too late, at the first Tick of a second, or the   *)
(* core sleeps while a callback is blocked (rtc_tmr.c:676-685).               *)
Overdue(i) == event[i] # 0 /\ event[i] <= now
Missed == AtSecond /\ alarm * Tick <= now
Handled == \A i \in Timer : ([]<> ~ Overdue(i)) \/ <>[]Missed \/ <>[]AsleepInCallback
=============================================================================
