--------------------------- MODULE RtcTimer_proofs ---------------------------
(* The RTC events for every set of slots, any number of threads, and all      *)
(* resolutions of the alarm that divide the second: if nobody is at work      *)
(* on the table an alarm stands between now and the next event, or at the     *)
(* first Tick of a second.                                                    *)
EXTENDS RtcTimer, TLAPS, WellFoundedInduction

-----------------------------------------------------------------------------
(* Time                                                                       *)

\* Quotient and remainder.
LEMMA DivMod ==
  ASSUME NEW a \in Nat, NEW b \in Nat \ {0}
  PROVE  /\ a \div b \in Nat /\ a % b \in Nat /\ a % b < b
         /\ a = b * (a \div b) + (a % b)
  BY Z3

\* The multiples of b are b apart at least.
LEMMA Products ==
  ASSUME NEW b \in Nat, NEW m \in Nat, NEW n \in Nat, m + 1 <= n
  PROVE  b * m \in Nat /\ b * n \in Nat /\ b * m + b <= b * n
  BY Z3

\* A multiple of b leaves no remainder.
LEMMA ModMultiple ==
  ASSUME NEW b \in Nat \ {0}, NEW n \in Nat
  PROVE  (b * n) % b = 0
  <1>1. b * n \in Nat
    BY Z3
  <1> DEFINE q == (b * n) \div b  r == (b * n) % b
  <1>2. q \in Nat /\ r \in Nat /\ r < b /\ b * n = b * q + r
    BY <1>1, DivMod
  <1> HIDE DEF q, r
  <1>3. q = n
    <2>1. CASE q + 1 <= n
      BY <1>2, <2>1, Products
    <2>2. CASE n + 1 <= q
      BY <1>2, <2>2, Products
    <2>3. QED
      BY <1>2, <2>1, <2>2
  <1>4. b * q \in Nat
    BY <1>2, Z3
  <1>5. r = 0
    BY <1>2, <1>3, <1>4
  <1>6. QED
    BY <1>5 DEF r

\* Division keeps the order.
LEMMA DivOrder ==
  ASSUME NEW a \in Nat, NEW c \in Nat, NEW b \in Nat \ {0}, a <= c
  PROVE  a \div b <= c \div b
  <1> DEFINE p == a \div b  q == c \div b
  <1>1. /\ p \in Nat /\ q \in Nat /\ a % b \in Nat /\ c % b \in Nat
        /\ a = b * p + (a % b) /\ c = b * q + (c % b) /\ c % b < b
    BY DivMod
  <1> HIDE DEF p, q
  <1>2. SUFFICES ASSUME q + 1 <= p PROVE FALSE
    BY <1>1 DEF p, q
  <1>3. b * q \in Nat /\ b * p \in Nat /\ b * q + b <= b * p
    BY <1>1, <1>2, Products
  <1>4. QED
    BY <1>1, <1>3

\* The fields that rtc_time_compare_offset packs, for two times.
LEMMA Fields ==
  ASSUME NEW at \in Nat
  PROVE  /\ at \div Second \in Nat /\ at % Second \in Nat /\ at % Second < Second
         /\ at = Second * (at \div Second) + (at % Second)
         /\ Packed(at) = (at \div Second) * 65536 + (at % Second)
  BY SecondAssumption, TickAssumption, DivMod DEF Packed

\* What is near is less than Tick + 1 ahead: the margin does not reach over the
\* end of the second.
LEMMA NearBound ==
  ASSUME NEW at \in Nat, NEW cur \in Nat, Near(at, cur)
  PROVE  at <= cur + Tick
  <1> DEFINE qa == at \div Second   ra == at % Second
             qn == cur \div Second  rn == cur % Second
  <1>1. /\ qa \in Nat /\ ra \in Nat /\ qn \in Nat /\ rn \in Nat
        /\ ra < Second /\ rn < Second
        /\ at = Second * qa + ra /\ cur = Second * qn + rn
        /\ qa * 65536 + ra < qn * 65536 + rn + Tick + 1
    BY Fields DEF Near
  <1>2. Tick \in Nat /\ Second \in Nat /\ Second + Tick + 1 < 65536
    BY TickAssumption, SecondAssumption
  <1> HIDE DEF qa, ra, qn, rn
  <1>3. qa <= qn
    BY <1>1, <1>2
  <1>4. Second * qa \in Nat /\ Second * qn \in Nat
    BY <1>1, <1>2, Z3
  <1>5. CASE qa = qn
    BY <1>1, <1>2, <1>4, <1>5
  <1>6. CASE qa + 1 <= qn
    <2>1. Second * qa + Second <= Second * qn
      BY <1>1, <1>2, <1>6, Products
    <2>2. QED
      BY <1>1, <1>2, <1>4, <2>1
  <1>7. QED
    BY <1>1, <1>3, <1>5, <1>6

\* So it counts as expired.
LEMMA NearExpires ==
  ASSUME NEW at \in Nat, NEW cur \in Nat, Near(at, cur)
  PROVE  Expired(at, cur)
  <1> DEFINE p == at \div Tick  q == cur \div Tick
  <1>1. Tick \in Nat \ {0}
    BY TickAssumption
  <1>2. /\ p \in Nat /\ q \in Nat /\ at % Tick \in Nat /\ cur % Tick < Tick
        /\ cur % Tick \in Nat
        /\ at = Tick * p + (at % Tick) /\ cur = Tick * q + (cur % Tick)
    BY <1>1, DivMod
  <1>3. at <= cur + Tick
    BY NearBound
  <1> HIDE DEF p, q
  <1>4. p <= q + 1
    <2>1. SUFFICES ASSUME (q + 1) + 1 <= p PROVE FALSE
      BY <1>2
    <2>2. /\ Tick * q \in Nat /\ Tick * (q + 1) \in Nat /\ Tick * p \in Nat
          /\ Tick * q + Tick <= Tick * (q + 1)
          /\ Tick * (q + 1) + Tick <= Tick * p
      BY <1>1, <1>2, <2>1, Products
    <2>3. QED
      BY <1>1, <1>2, <1>3, <2>2
  <1>5. QED
    BY <1>4 DEF Expired, p, q

\* An alarm for what is not near stands ahead of the clock, which may have gone
\* on when it is written, or at the very beginning of a second.
LEMMA FarAhead ==
  ASSUME NEW at \in Nat, NEW cur \in Nat, ~ Near(at, cur), NEW late \in {cur, cur + 1}
  PROVE  LET a == at \div Tick
         IN  /\ a \in Nat /\ a # 0 /\ a <= at
             /\ a * Tick > late \/ (a * Tick) % Second = 0
  <1> DEFINE qa == at \div Second   ra == at % Second
             qn == cur \div Second  rn == cur % Second
             a  == at \div Tick     m  == Second \div Tick
  <1>1. /\ qa \in Nat /\ ra \in Nat /\ qn \in Nat /\ rn \in Nat
        /\ ra < Second /\ rn < Second
        /\ at = Second * qa + ra /\ cur = Second * qn + rn
        /\ qa * 65536 + ra >= qn * 65536 + rn + Tick + 1
    BY Fields, TickAssumption DEF Near
  <1>2. /\ Tick \in Nat \ {0} /\ Second \in Nat \ {0}
        /\ Second + Tick + 1 < 65536 /\ Second % Tick = 0
    BY TickAssumption, SecondAssumption
  <1>3. /\ a \in Nat /\ at % Tick \in Nat /\ at % Tick < Tick
        /\ at = Tick * a + (at % Tick)
    BY <1>2, DivMod
  <1>4. m \in Nat /\ Second = Tick * m
    BY <1>2, DivMod
  <1> HIDE DEF qa, ra, qn, rn, a, m
  <1>5. /\ Tick * a \in Nat /\ a * Tick = Tick * a /\ a <= Tick * a
        /\ Second * qa \in Nat /\ Second * qn \in Nat
    BY <1>1, <1>2, <1>3, Z3
  <1>6. qa >= qn
    BY <1>1, <1>2
  <1>7. CASE qa = qn
    <2>1. at >= cur + Tick + 1
      BY <1>1, <1>2, <1>5, <1>7
    <2>2. Tick * a > cur + 1
      BY <1>2, <1>3, <1>5, <2>1
    <2>3. a # 0
      BY <1>2, <1>3, <2>2, Z3
    <2>4. QED
      BY <1>3, <1>5, <2>2, <2>3 DEF a
  <1>8. CASE qn + 1 <= qa
    <2>1. Second * qn + Second <= Second * qa
      BY <1>1, <1>2, <1>8, Products
    <2>2. Second * qa >= cur + 1
      BY <1>1, <1>2, <1>5, <2>1
    <2>3. m * qa \in Nat /\ Second * qa = Tick * (m * qa)
      BY <1>1, <1>2, <1>4, Z3
    <2>4. Tick * a >= Second * qa
      <3>1. CASE a + 1 <= m * qa
        <4>1. Tick * a + Tick <= Tick * (m * qa)
          BY <1>2, <1>3, <2>3, <3>1, Products
        <4>2. QED
          BY <1>1, <1>2, <1>3, <1>5, <2>3, <4>1
      <3>2. CASE m * qa + 1 <= a
        <4>1. Tick * (m * qa) + Tick <= Tick * a
          BY <1>2, <1>3, <2>3, <3>2, Products
        <4>2. QED
          BY <1>2, <1>5, <2>3, <4>1
      <3>3. CASE a = m * qa
        BY <1>5, <2>3, <3>3
      <3>4. QED
        BY <1>3, <2>3, <3>1, <3>2, <3>3
    <2>5. (Second * qa) % Second = 0
      <3>1. qa \in Nat /\ Second \in Nat \ {0}
        BY <1>1, <1>2
      <3>2. QED
        BY <3>1, ModMultiple, Zenon
    <2>6. Tick * a > late \/ (Tick * a) % Second = 0
      <3>1. CASE Tick * a = Second * qa
        BY <2>5, <3>1
      <3>2. CASE Tick * a > Second * qa
        BY <1>5, <2>2, <3>2
      <3>3. QED
        BY <1>5, <2>4, <3>1, <3>2
    <2>7. a # 0
      BY <1>2, <1>3, <1>5, <2>2, <2>4, Z3
    <2>8. QED
      BY <1>1, <1>3, <1>5, <1>8, <2>6, <2>7 DEF a, qa, qn
  <1>9. QED
    BY <1>1, <1>6, <1>7, <1>8

-----------------------------------------------------------------------------
(* The next event                                                             *)

\* A set of natural numbers has a least one.
LEMMA LeastTime ==
  ASSUME NEW S \in SUBSET Nat, S # {}
  PROVE  \E n \in S : \A k \in S : n <= k
  <1> DEFINE LT == {ss \in Nat \X Nat : ss[1] < ss[2]}
  <1>1. IsWellFoundedOn(LT, Nat)
    BY NatLessThanWellFounded, Zenon DEF OpToRel
  <1>2. PICK n \in S : \A k \in S : ~ (<< k, n >> \in LT)
    <2> HIDE DEF LT
    <2>1. QED
      BY <1>1, WFMin
  <1>3. ASSUME NEW k \in S, ~ (n <= k)
        PROVE  FALSE
    <2>1. << k, n >> \in LT
      BY <1>3
    <2>2. QED
      BY <1>2, <2>1
  <1>4. QED
    BY <1>3

Table == [Timer -> Time \cup {0}]

\* Times and slots are natural numbers, and no time is 0.
LEMMA TimeType == Time \subseteq Nat \ {0} /\ Timer \subseteq Nat /\ 0 \notin Time
  BY ClockAssumption, TimerAssumption DEF Time

\* So is what a slot holds, a time or 0.
LEMMA TimeNat == \A a \in Time \cup {0} : a \in Nat
  BY ClockAssumption DEF Time

\* rtc_get_next_event finds a used slot with the earliest time.
LEMMA NextIsEarliest ==
  ASSUME NEW ev \in Table, Used(ev) # {}
  PROVE  /\ Next_event(ev) \in Used(ev)
         /\ \A j \in Used(ev) : ev[Next_event(ev)] <= ev[j]
         /\ NextTime(ev) = ev[Next_event(ev)]
         /\ NextTime(ev) \in Time
  <1>1. \A j \in Used(ev) : j \in Timer /\ j \in Nat /\ ev[j] \in Time /\ ev[j] \in Nat
    BY TimeType DEF Used, Table
  <1> DEFINE times == {ev[j] : j \in Used(ev)}
  <1>2. PICK a \in times : \A b \in times : a <= b
    BY <1>1, LeastTime
  <1> DEFINE first == {j \in Used(ev) : ev[j] = a}
  <1>3. first \in SUBSET Nat /\ first # {}
    BY <1>1, <1>2
  <1>4. PICK i \in first : \A j \in first : i <= j
    BY <1>3, LeastTime
  <1>5. ASSUME NEW j \in Used(ev)
        PROVE  ev[i] < ev[j] \/ (ev[i] = ev[j] /\ i <= j)
    <2>1. ev[i] = a /\ ev[i] <= ev[j] /\ ev[i] \in Nat /\ ev[j] \in Nat
      BY <1>1, <1>2, <1>4
    <2>2. ev[j] = a => i <= j
      BY <1>4
    <2>3. QED
      BY <2>1, <2>2
  <1>6. \E n \in Used(ev) : \A j \in Used(ev) : ev[n] < ev[j] \/ (ev[n] = ev[j] /\ n <= j)
    BY <1>4, <1>5
  <1>7. /\ Next_event(ev) \in Used(ev)
        /\ \A j \in Used(ev) : ev[Next_event(ev)] < ev[j] \/ ev[Next_event(ev)] = ev[j]
    BY <1>6 DEF Next_event
  <1>8. QED
    BY <1>1, <1>7 DEF NextTime

\* The time of the next event is 0 exactly when there is none.
LEMMA NextTimeType ==
  ASSUME NEW ev \in Table
  PROVE  /\ NextTime(ev) \in Time \cup {0}
         /\ NextTime(ev) = 0 <=> Used(ev) = {}
  BY NextIsEarliest, TimeType DEF NextTime, RTC_ALARM_INVALID

\* Writing or freeing a slot that is not the next one afterwards puts the next
\* event off, if anything.
LEMMA NextNoEarlier ==
  ASSUME NEW ev \in Table, NEW i \in Timer, NEW at \in Time \cup {0},
         NEW new, new = [ev EXCEPT ![i] = at], ~ IsNext(new, i), Used(new) # {}
  PROVE  Used(ev) # {} /\ NextTime(ev) <= NextTime(new)
  <1>1. new \in Table
    BY DEF Table
  <1> DEFINE n == Next_event(new)
  <1>2. n \in Used(new) /\ NextTime(new) = new[n] /\ n # i
    BY <1>1, NextIsEarliest DEF IsNext
  <1>3. n \in Used(ev) /\ new[n] = ev[n]
    BY <1>2 DEF Used, Table
  <1>4. QED
    BY <1>2, <1>3, NextIsEarliest

-----------------------------------------------------------------------------
(* The alarm                                                                  *)

\* An alarm set to a stands ahead of the time t: by more than nothing, or at the
\* very beginning of a second.
Ahead(a, t) == /\ a # 0
               /\ a * Tick > t \/ (a * Tick) % Second = 0

\* rtc_alarm_reset: the alarm stands ahead of the clock, or rtc_tmr is woken.
LEMMA AlarmSet ==
  ASSUME now \in Time, alarm \in 0 .. Horizon, NEW at \in Time \cup {0}, SetAlarm(at)
  PROVE  /\ now' \in Time /\ alarm' \in 0 .. Horizon
         /\ at # 0 /\ ~ Near(at, now) => alarm' = at \div Tick /\ Ahead(alarm', now')
  <1>1. CASE at = 0
    BY <1>1, ClockAssumption DEF SetAlarm, RTC_ALARM_INVALID
  <1>2. CASE at # 0 /\ Near(at, now)
    BY <1>2 DEF SetAlarm, RTC_ALARM_INVALID
  <1>3. CASE at # 0 /\ ~ Near(at, now)
    <2>1. at \in Time /\ at \in Nat /\ now \in Nat /\ at <= Horizon
      BY <1>3, ClockAssumption DEF Time
    <2>2. /\ now' \in Time /\ now' \in {now, now + 1} /\ alarm' = at \div Tick
      BY <1>3 DEF SetAlarm, RTC_ALARM_INVALID
    <2>3. /\ alarm' \in Nat /\ alarm' # 0 /\ alarm' <= at
          /\ alarm' * Tick > now' \/ (alarm' * Tick) % Second = 0
      BY <1>3, <2>1, <2>2, FarAhead
    <2>4. alarm' \in 0 .. Horizon
      BY <2>1, <2>3, ClockAssumption
    <2>5. QED
      BY <1>3, <2>2, <2>3, <2>4 DEF Ahead
  <1>4. QED
    BY <1>1, <1>2, <1>3

-----------------------------------------------------------------------------
(* The inductive invariant                                                    *)

\* The mutex is held by the thread that is about to set the alarm, or by
\* rtc_tmr while it handles what is due.
MutexOK ==
  /\ \A t \in Thread :
       /\ thr[t].pc \in {"idle", "insert", "delete", "reset", "forge"}
       /\ thr[t].pc = "reset" <=> g_rtc_mutex = t
  /\ thr[Rtc].pc \in {"idle", "lock", "scan", "callback", "reset"}
  /\ thr[Rtc].pc \in {"scan", "callback", "reset"} <=> g_rtc_mutex = Rtc

\* rtc_tmr is yet to look at the table: after AT+OFFTIME, an alarm, a boot.
Busy == (\E u \in Thread : thr[u].pc = "forge") \/ g_rtc_sem = 1 \/ thr[Rtc].pc = "lock"

\* The table does not change under the one who is about to set the alarm, unless
\* AT+OFFTIME clears it.
ResetOK == \A t \in Thread \cup {Rtc} :
             thr[t].pc = "reset" => thr[t].at = NextTime(event) \/ Busy

\* The core does not sleep between a change of the table and that of the alarm.
SleepOK == mode # "run" => \A t \in Thread \cup {Rtc} : thr[t].pc # "reset"

ArmedOK == Quiet /\ Used(event) # {} =>
             Ahead(alarm, now) /\ alarm <= NextTime(event) \div Tick

IInv == TypeOK /\ MutexOK /\ ResetOK /\ SleepOK /\ ArmedOK

Steps == {"idle", "insert", "delete", "reset", "forge", "lock", "scan", "callback"}
Locals == [pc : Steps, id : Timer, at : Time \cup {0}]

\* What a thread works on has its type.
LEMMA LocalTypes ==
  /\ NoCall \in Locals /\ NoCall.pc = "idle"
  /\ \A step \in Steps, i \in Timer, a \in Time \cup {0} :
       /\ [pc |-> step, id |-> i, at |-> a] \in Locals
       /\ [NoCall EXCEPT !.pc = step, !.at = a] \in Locals
       /\ [NoCall EXCEPT !.pc = step, !.at = a].pc = step
       /\ [NoCall EXCEPT !.pc = step, !.at = a].at = a
  <1>1. "idle" \in Steps /\ RTC_TIMER_LPM \in Timer
    BY TimerAssumption DEF Steps
  <1>2. NoCall \in Locals
    BY <1>1 DEF NoCall, Locals
  <1>3. QED
    BY <1>2 DEF NoCall, Locals

\* The types, with the threads as functions.
LEMMA ThrType ==
  TypeOK <=> /\ now \in Time /\ event \in Table /\ alarm \in 0 .. Horizon
             /\ utc_irq \in BOOLEAN /\ g_rtc_sem \in 0 .. 1
             /\ g_rtc_mutex \in Thread \cup {Rtc, NoThread}
             /\ thr \in [Thread \cup {Rtc} -> Locals]
             /\ mode \in {"run", "wfi", "deepsleep"}
             /\ g_need_offtime \in BOOLEAN
  BY DEF TypeOK, Locals, Steps, Table

\* The same after a step.
LEMMA TypeNext ==
  ASSUME now' \in Time, event' \in Table, alarm' \in 0 .. Horizon,
         utc_irq' \in BOOLEAN, g_rtc_sem' \in 0 .. 1,
         g_rtc_mutex' \in Thread \cup {Rtc, NoThread},
         thr' \in [Thread \cup {Rtc} -> Locals],
         mode' \in {"run", "wfi", "deepsleep"}, g_need_offtime' \in BOOLEAN
  PROVE  TypeOK'
  BY DEF TypeOK, Locals, Steps, Table

\* The table is empty and all threads are idle.
LEMMA InitInv == Init => IInv
  <1> SUFFICES ASSUME Init PROVE IInv
    OBVIOUS
  <1>1. TypeOK
    <2>1. thr \in [Thread \cup {Rtc} -> Locals]
      BY LocalTypes DEF Init
    <2>2. now \in Time /\ alarm \in 0 .. Horizon /\ event \in Table
      BY ClockAssumption DEF Init, Table, Time
    <2>3. g_rtc_sem \in 0 .. 1 /\ g_rtc_mutex \in Thread \cup {Rtc, NoThread}
      BY DEF Init
    <2>4. utc_irq \in BOOLEAN /\ mode \in {"run", "wfi", "deepsleep"}
      BY DEF Init
    <2>5. g_need_offtime \in BOOLEAN
      BY DEF Init
    <2>6. QED
      BY <2>1, <2>2, <2>3, <2>4, <2>5, ThrType
  <1>2. MutexOK /\ ResetOK /\ SleepOK
    BY ThreadAssumption DEF Init, NoCall, MutexOK, ResetOK, SleepOK
  <1>3. ArmedOK
    BY DEF Init, ArmedOK, Used
  <1>4. QED
    BY <1>1, <1>2, <1>3 DEF IInv

\* The table, the alarm and the clock, as far as the invariant speaks of them.
LEMMA Facts ==
  ASSUME IInv
  PROVE  /\ now \in Time /\ event \in Table /\ alarm \in 0 .. Horizon
         /\ g_rtc_sem \in 0 .. 1 /\ NextTime(event) \in Time \cup {0}
         /\ Thread \cup {Rtc} = DOMAIN thr
         /\ \A t \in Thread \cup {Rtc} : thr[t].at \in Time \cup {0} /\ thr[t].id \in Timer
  BY NextTimeType DEF IInv, TypeOK, Table

\* insert_new_rtc_event and rtc_event_delete outside of the mutex, in the idle
\* hook and in a callback.
LEMMA TableStep ==
  ASSUME IInv,
         \/ \E i \in Timer, at \in Time : Inserted(i, at)
         \/ \E i \in Timer : Deleted(i)
  PROVE  /\ event' \in Table /\ now' \in Time /\ alarm' \in 0 .. Horizon
         /\ g_rtc_sem' \in 0 .. 1
         /\ g_rtc_sem' = 0 => g_rtc_sem = 0
         /\ g_rtc_sem' = 0 /\ Used(event') # {} =>
              \/ Ahead(alarm', now') /\ alarm' <= NextTime(event') \div Tick
              \/ /\ UNCHANGED << now, alarm >> /\ Used(event) # {}
                 /\ NextTime(event) <= NextTime(event')
  <1>1. PICK i \in Timer, at \in Time \cup {0} :
          /\ event' = [event EXCEPT ![i] = at]
          /\ \/ ~ IsNext(event', i) /\ UNCHANGED << now, alarm, g_rtc_sem >>
             \/ rtc_alarm_reset(NextTime(event'))
    <2>1. ASSUME NEW i \in Timer, NEW at \in Time, Inserted(i, at)
          PROVE  /\ event' = [event EXCEPT ![i] = at]
                 /\ \/ ~ IsNext(event', i) /\ UNCHANGED << now, alarm, g_rtc_sem >>
                    \/ rtc_alarm_reset(NextTime(event'))
      <3>1. event' = [event EXCEPT ![i] = at] /\ event' \in Table
        BY <2>1, Facts DEF Inserted, Table
      <3>2. IsNext(event', i) => NextTime(event') = at
        <4>1. event'[i] = at
          BY <3>1, Facts DEF Table
        <4>2. IsNext(event', i) => NextTime(event') = event'[i]
          BY <3>1, NextIsEarliest DEF IsNext
        <4>3. QED
          BY <4>1, <4>2
      <3>3. QED
        BY <2>1, <3>1, <3>2 DEF Inserted
    <2>2. ASSUME NEW i \in Timer, Deleted(i)
          PROVE  /\ event' = [event EXCEPT ![i] = 0]
                 /\ \/ ~ IsNext(event', i) /\ UNCHANGED << now, alarm, g_rtc_sem >>
                    \/ rtc_alarm_reset(NextTime(event'))
      <3>1. event' = [event EXCEPT ![i] = 0]
        BY <2>2 DEF Deleted
      <3>2. ~ IsNext(event', i)
        BY <3>1, Facts DEF IsNext, Used, Table
      <3>3. QED
        BY <2>2, <3>1, <3>2 DEF Deleted
    <2>3. QED
      BY <2>1, <2>2
  <1>2. event' \in Table
    BY <1>1, Facts DEF Table
  <1>3. NextTime(event') \in Time \cup {0} /\ (NextTime(event') = 0 <=> Used(event') = {})
    BY <1>2, NextTimeType
  <1>4. CASE ~ IsNext(event', i) /\ UNCHANGED << now, alarm, g_rtc_sem >>
    BY <1>1, <1>2, <1>4, Facts, NextNoEarlier
  <1>5. CASE rtc_alarm_reset(NextTime(event'))
    <2>1. SetAlarm(NextTime(event'))
      BY <1>5 DEF rtc_alarm_reset
    <2>2. /\ now' \in Time /\ alarm' \in 0 .. Horizon
          /\ NextTime(event') # 0 /\ ~ Near(NextTime(event'), now) =>
               alarm' = NextTime(event') \div Tick /\ Ahead(alarm', now')
      BY <1>3, <2>1, Facts, AlarmSet
    <2>3. g_rtc_sem' = IF NextTime(event') # 0 /\ Near(NextTime(event'), now)
                       THEN 1 ELSE g_rtc_sem
      BY <1>5 DEF rtc_alarm_reset, RTC_ALARM_INVALID
    <2>4. QED
      BY <1>2, <1>3, <2>2, <2>3, Facts
  <1>6. QED
    BY <1>1, <1>4, <1>5

-----------------------------------------------------------------------------
(* Steps                                                                      *)

\* A step of one thread leaves the others where they are.
LEMMA OneMoves ==
  ASSUME IInv, NEW t \in Thread \cup {Rtc}, NEW loc \in Locals, thr' = [thr EXCEPT ![t] = loc]
  PROVE  /\ thr' \in [Thread \cup {Rtc} -> Locals]
         /\ thr'[t] = loc /\ \A u \in (Thread \cup {Rtc}) \ {t} : thr'[u] = thr[u]
  BY ThrType DEF IInv

\* The same, for a step that only goes on to the next place.
LEMMA OneGoes ==
  ASSUME IInv, NEW t \in Thread \cup {Rtc}, NEW step \in Steps, Goto(t, step)
  PROVE  /\ thr' \in [Thread \cup {Rtc} -> Locals]
         /\ thr'[t].pc = step /\ thr'[t].at = thr[t].at
         /\ \A u \in (Thread \cup {Rtc}) \ {t} : thr'[u] = thr[u]
  BY ThrType DEF IInv, Goto, Locals

\* rtc_tmr, the other threads and nobody are different.
LEMMA ProcsDiffer ==
  /\ Rtc \notin Thread /\ NoThread \notin Thread /\ Rtc # NoThread
  /\ \A step \in {"idle", "insert", "delete", "reset", "forge", "lock", "scan", "callback"} :
       step \in Steps
  BY ThreadAssumption DEF Steps

\* The alarm stands as before, and the next event is no earlier; or it is set.
LEMMA ArmedFrom ==
  ASSUME IInv, event' \in Table,
         Quiet' /\ Used(event') # {} =>
           \/ Ahead(alarm', now') /\ alarm' <= NextTime(event') \div Tick
           \/ /\ Quiet /\ UNCHANGED << now, alarm >> /\ Used(event) # {}
              /\ NextTime(event) <= NextTime(event')
  PROVE  ArmedOK'
  <1> SUFFICES ASSUME Quiet', Used(event') # {}
               PROVE  Ahead(alarm', now') /\ alarm' <= NextTime(event') \div Tick
    BY DEF ArmedOK
  <1>1. CASE /\ Quiet /\ UNCHANGED << now, alarm >> /\ Used(event) # {}
             /\ NextTime(event) <= NextTime(event')
    <2>1. Ahead(alarm, now) /\ alarm <= NextTime(event) \div Tick /\ alarm \in Nat
      BY <1>1, Facts DEF IInv, ArmedOK
    <2>2. NextTime(event) \in Nat /\ NextTime(event') \in Nat /\ Tick \in Nat \ {0}
      <3>1. NextTime(event) \in Time \cup {0} /\ NextTime(event') \in Time \cup {0}
        BY Facts, NextTimeType
      <3>2. NextTime(event) \in Nat /\ NextTime(event') \in Nat
        BY <3>1, TimeNat
      <3>3. QED
        BY <3>2, TickAssumption
    <2>3. NextTime(event) \div Tick <= NextTime(event') \div Tick
      BY <1>1, <2>2, DivOrder
    <2>4. NextTime(event) \div Tick \in Nat /\ NextTime(event') \div Tick \in Nat
      BY <2>2, DivMod
    <2>5. QED
      BY <1>1, <2>1, <2>3, <2>4
  <1>2. QED
    BY <1>1

\* Where table, alarm and clock stay, the alarm stays good.
LEMMA ArmedKept ==
  ASSUME IInv, UNCHANGED << now, event, alarm >>, Quiet' => Quiet
  PROVE  ArmedOK'
  BY DEF IInv, ArmedOK

\* A thread starts a call, or sets the clock or clears the table, and forges an
\* interrupt.
LEMMA CallStep ==
  ASSUME IInv, NEW t \in Thread,
         \/ \E i \in Timer : Remove(t, i) \/ \E d \in Delay : Add(t, i, d)
         \/ \E to \in Time : rtc_timer_reset(t, to)
         \/ at_OFFTIME_clears(t) \/ Forge(t)
  PROVE  IInv'
  <1>1. thr[t].pc \in {"idle", "forge"} /\ mode = "run" /\ t # Rtc
    BY ProcsDiffer DEF Remove, Add, rtc_timer_reset, at_OFFTIME_clears, Forge, At
  <1>2. PICK step \in {"idle", "insert", "delete", "forge"} :
          /\ thr' \in [Thread \cup {Rtc} -> Locals] /\ thr'[t].pc = step
          /\ \A u \in (Thread \cup {Rtc}) \ {t} : thr'[u] = thr[u]
          /\ step = "idle" => UNCHANGED event /\ g_rtc_sem' = 1
          /\ step \in {"insert", "delete"} =>
               thr[t].pc = "idle" /\ UNCHANGED << now, event, alarm, g_rtc_sem >>
    <2>1. CASE \E i \in Timer : Remove(t, i)
      <3>1. PICK i \in Timer : Remove(t, i)
        BY <2>1
      <3>2. [pc |-> "delete", id |-> i, at |-> 0] \in Locals
        BY LocalTypes, ProcsDiffer
      <3>3. QED
        BY <3>1, <3>2, OneMoves DEF Remove, At
    <2>2. CASE \E i \in Timer, d \in Delay : Add(t, i, d)
      <3>1. PICK i \in Timer, d \in Delay : Add(t, i, d)
        BY <2>2
      <3>2. [pc |-> "insert", id |-> i, at |-> now + d] \in Locals
        BY <3>1, LocalTypes, ProcsDiffer DEF Add
      <3>3. QED
        BY <3>1, <3>2, OneMoves DEF Add, At
    <2>3. CASE \E to \in Time : rtc_timer_reset(t, to)
      BY <2>3, OneGoes, ProcsDiffer DEF rtc_timer_reset
    <2>4. CASE at_OFFTIME_clears(t)
      BY <2>4, OneGoes, ProcsDiffer DEF at_OFFTIME_clears
    <2>5. CASE Forge(t)
      BY <2>5, OneMoves, LocalTypes DEF Forge, Done
    <2>6. QED
      BY <2>1, <2>2, <2>3, <2>4, <2>5
  <1>3. /\ alarm' = alarm /\ g_rtc_mutex' = g_rtc_mutex
        /\ mode' = mode /\ utc_irq' = utc_irq
    BY DEF Remove, Add, rtc_timer_reset, at_OFFTIME_clears, Forge
  <1>4. /\ now' \in Time /\ event' \in Table
        /\ g_rtc_sem' \in 0 .. 1 /\ g_need_offtime' \in BOOLEAN
    <2>1. /\ now \in Time /\ event \in Table
          /\ g_rtc_sem \in 0 .. 1 /\ g_need_offtime \in BOOLEAN
      BY ThrType DEF IInv
    <2>2. now' \in Time
      BY <2>1 DEF Remove, Add, rtc_timer_reset, at_OFFTIME_clears, Forge
    <2>3. g_rtc_sem' \in 0 .. 1
      BY <2>1 DEF Remove, Add, rtc_timer_reset, at_OFFTIME_clears, Forge
    <2>4. g_need_offtime' \in BOOLEAN
      BY <2>1 DEF Remove, Add, rtc_timer_reset, at_OFFTIME_clears, Forge
    <2>5. event' \in Table
      BY <2>1 DEF Remove, Add, rtc_timer_reset, at_OFFTIME_clears, Forge, Table
    <2>6. QED
      BY <2>2, <2>3, <2>4, <2>5
  <1>5. TypeOK'
    BY <1>2, <1>3, <1>4, ThrType, TypeNext DEF IInv
  <1>6. MutexOK'
    BY <1>1, <1>2, <1>3 DEF IInv, MutexOK
  <1>7. ResetOK' /\ SleepOK'
    <2>1. SleepOK'
      BY <1>1, <1>3 DEF SleepOK
    <2>2. CASE step \in {"idle", "forge"}
      <3>1. Busy'
        BY <1>2, <2>2 DEF Busy
      <3>2. QED
        BY <2>1, <3>1 DEF ResetOK
    <2>3. CASE step \in {"insert", "delete"}
      <3>1. Busy => Busy'
        BY <1>1, <1>2, <2>3 DEF Busy
      <3>2. QED
        BY <1>2, <2>1, <2>3, <3>1 DEF IInv, ResetOK
    <2>4. QED
      BY <2>2, <2>3
  <1>8. ArmedOK'
    <2>1. CASE step \in {"idle", "forge"}
      BY <1>2, <2>1 DEF ArmedOK, Quiet
    <2>2. CASE step \in {"insert", "delete"}
      <3>1. Quiet' => Quiet
        BY <1>1, <1>2, <1>3, <2>2 DEF Quiet, Remove, Add, rtc_timer_reset, at_OFFTIME_clears, Forge
      <3>2. QED
        BY <1>2, <1>3, <2>2, <3>1, ArmedKept
    <2>3. QED
      BY <2>1, <2>2
  <1>9. QED
    BY <1>5, <1>6, <1>7, <1>8 DEF IInv

\* A thread writes or frees its slot under the mutex, which it keeps if the
\* alarm is to be set.
LEMMA TableUnderMutex ==
  ASSUME IInv, NEW t \in Thread, Insert(t) \/ Delete(t)
  PROVE  IInv'
  <1> DEFINE i == thr[t].id
  <1>1. /\ thr[t].pc \in {"insert", "delete"} /\ mode = "run" /\ g_rtc_mutex = NoThread
        /\ UNCHANGED << now, alarm, utc_irq, g_rtc_sem, mode, g_need_offtime >>
    BY DEF Insert, Delete, At
  <1>2. i \in Timer /\ event \in Table /\ thr[t].at \in Time \cup {0}
    BY Facts
  <1>3. PICK at \in Time \cup {0} :
          /\ event' = [event EXCEPT ![i] = at]
          /\ \/ /\ thr' = [thr EXCEPT ![t] = [NoCall EXCEPT !.pc = "reset",
                                                            !.at = NextTime(event')]]
                /\ g_rtc_mutex' = t
             \/ ~ IsNext(event', i) /\ Done(t) /\ g_rtc_mutex' = g_rtc_mutex
    <2>1. CASE Insert(t)
      <3>1. event' = [event EXCEPT ![i] = thr[t].at] /\ event'[i] = thr[t].at
        BY <1>2, <2>1 DEF Insert, Table
      <3>2. event' \in Table
        BY <1>2, <3>1 DEF Table
      <3>3. IsNext(event', i) => NextTime(event') = thr[t].at
        BY <3>1, <3>2, NextIsEarliest DEF IsNext
      <3>4. QED
        BY <1>2, <2>1, <3>1, <3>3 DEF Insert
    <2>2. CASE Delete(t)
      <3>1. event' = [event EXCEPT ![i] = 0] /\ event'[i] = 0
        BY <1>2, <2>2 DEF Delete, Table
      <3>2. ~ IsNext(event', i)
        BY <3>1 DEF IsNext, Used
      <3>3. QED
        BY <2>2, <3>1, <3>2 DEF Delete
    <2>3. QED
      BY <2>1, <2>2
  <1>4. event' \in Table /\ NextTime(event') \in Time \cup {0}
    <2>1. event' \in Table
      BY <1>2, <1>3 DEF Table
    <2>2. QED
      BY <2>1, NextTimeType
  <1>5. \A u \in Thread \cup {Rtc} : thr[u].pc # "reset"
    BY <1>1, ProcsDiffer DEF IInv, MutexOK
  <1>6. CASE ~ IsNext(event', i) /\ Done(t) /\ g_rtc_mutex' = g_rtc_mutex
    <2>1. /\ thr' \in [Thread \cup {Rtc} -> Locals] /\ thr'[t].pc = "idle"
          /\ \A u \in (Thread \cup {Rtc}) \ {t} : thr'[u] = thr[u]
      BY <1>6, OneMoves, LocalTypes DEF Done
    <2>2. TypeOK'
      BY <1>1, <1>4, <1>6, <2>1, ThrType, TypeNext DEF IInv
    <2>3. MutexOK'
      BY <1>1, <1>6, <2>1, ProcsDiffer DEF IInv, MutexOK
    <2>4. ResetOK' /\ SleepOK'
      BY <1>1, <1>5, <2>1 DEF ResetOK, SleepOK
    <2>5. Quiet' => Quiet
      BY <1>1, <1>6, <2>1, ProcsDiffer DEF Quiet
    <2>6. Used(event') # {} => Used(event) # {} /\ NextTime(event) <= NextTime(event')
      BY <1>2, <1>3, <1>6, NextNoEarlier
    <2>7. ArmedOK'
      BY <1>1, <1>4, <2>5, <2>6, ArmedFrom
    <2>8. QED
      BY <2>2, <2>3, <2>4, <2>7 DEF IInv
  <1>7. CASE /\ thr' = [thr EXCEPT ![t] = [NoCall EXCEPT !.pc = "reset",
                                                         !.at = NextTime(event')]]
             /\ g_rtc_mutex' = t
    <2> DEFINE loc == [NoCall EXCEPT !.pc = "reset", !.at = NextTime(event')]
    <2>1. loc \in Locals /\ loc.pc = "reset" /\ loc.at = NextTime(event')
      <3>1. "reset" \in Steps /\ thr[t].id \in Timer
        BY <1>2, ProcsDiffer
      <3>2. QED
        BY <1>4, <3>1, LocalTypes
    <2>2. /\ thr' \in [Thread \cup {Rtc} -> Locals]
          /\ thr'[t].pc = "reset" /\ thr'[t].at = NextTime(event')
          /\ \A u \in (Thread \cup {Rtc}) \ {t} : thr'[u] = thr[u]
      BY <1>7, <2>1, OneMoves
    <2>3. TypeOK'
      BY <1>1, <1>4, <1>7, <2>2, ThrType, TypeNext DEF IInv
    <2>4. MutexOK'
      BY <1>1, <1>7, <2>2, ProcsDiffer DEF IInv, MutexOK
    <2>5. ResetOK' /\ SleepOK'
      BY <1>1, <1>5, <2>2 DEF ResetOK, SleepOK
    <2>6. ArmedOK'
      BY <1>7, ProcsDiffer DEF ArmedOK, Quiet
    <2>7. QED
      BY <2>3, <2>4, <2>5, <2>6 DEF IInv
  <1>8. QED
    BY <1>3, <1>6, <1>7

\* Who holds the mutex sets the alarm, for the next event, and lets go of it.
LEMMA ResetStep ==
  ASSUME IInv, NEW t \in Thread \cup {Rtc}, Reset(t)
  PROVE  IInv'
  <1>1. /\ thr[t].pc = "reset" /\ mode = "run" /\ g_rtc_mutex' = NoThread
        /\ rtc_alarm_reset(thr[t].at)
        /\ UNCHANGED << event, utc_irq, mode, g_need_offtime >>
    BY DEF Reset, At
  <1>2. /\ g_rtc_mutex = t /\ thr[t].at \in Time \cup {0}
        /\ thr[t].at = NextTime(event) \/ Busy
    BY <1>1, Facts DEF IInv, ResetOK, MutexOK
  <1>3. /\ thr' \in [Thread \cup {Rtc} -> Locals] /\ thr'[t].pc = "idle"
        /\ \A u \in (Thread \cup {Rtc}) \ {t} : thr'[u] = thr[u]
    BY OneMoves, LocalTypes DEF Reset, Done
  <1>4. /\ event \in Table /\ NextTime(event) \in Time \cup {0}
        /\ (NextTime(event) = 0 <=> Used(event) = {})
        /\ now \in Time /\ alarm \in 0 .. Horizon /\ g_rtc_sem \in 0 .. 1
    BY Facts, NextTimeType
  <1>5. /\ now' \in Time /\ alarm' \in 0 .. Horizon
        /\ thr[t].at # 0 /\ ~ Near(thr[t].at, now) =>
             alarm' = thr[t].at \div Tick /\ Ahead(alarm', now')
    BY <1>1, <1>2, <1>4, AlarmSet DEF rtc_alarm_reset
  <1>6. g_rtc_sem' = IF thr[t].at # 0 /\ Near(thr[t].at, now)
                     THEN 1 ELSE g_rtc_sem
    BY <1>1 DEF rtc_alarm_reset, RTC_ALARM_INVALID
  <1>7. \A u \in (Thread \cup {Rtc}) \ {t} : thr[u].pc # "reset"
    BY <1>2, ProcsDiffer DEF IInv, MutexOK
  <1>8. TypeOK'
    BY <1>1, <1>3, <1>4, <1>5, <1>6, ThrType, TypeNext DEF IInv
  <1>9. MutexOK'
    BY <1>1, <1>2, <1>3, <1>7, ProcsDiffer DEF IInv, MutexOK
  <1>10. ResetOK' /\ SleepOK'
    BY <1>1, <1>3, <1>7 DEF ResetOK, SleepOK
  <1>11. ArmedOK'
    <2>1. SUFFICES ASSUME Quiet', Used(event) # {}
                   PROVE  Ahead(alarm', now') /\ alarm' <= NextTime(event) \div Tick
      BY <1>1 DEF ArmedOK
    <2>2. ~ Busy
      <3>1. g_rtc_sem # 1
        BY <1>4, <1>6, <2>1 DEF Quiet
      <3>2. thr[Rtc].pc # "lock"
        BY <1>1, <1>3, <2>1 DEF Quiet
      <3>3. \A u \in Thread : thr[u].pc # "forge"
        BY <1>1, <1>3, <2>1 DEF Quiet
      <3>4. QED
        BY <3>1, <3>2, <3>3 DEF Busy
    <2>3. thr[t].at = NextTime(event)
      BY <1>2, <2>2
    <2>4. NextTime(event) # 0 /\ ~ Near(NextTime(event), now)
      BY <1>4, <1>6, <2>1, <2>3 DEF Quiet
    <2>5. alarm' \in Nat
      BY <1>5
    <2>6. QED
      BY <1>5, <2>3, <2>4, <2>5
  <1>12. QED
    BY <1>8, <1>9, <1>10, <1>11 DEF IInv

\* The thread rtc_tmr, until it sets the alarm: it is not idle after any of
\* these steps, so that nothing is claimed of the alarm.
LEMMA RtcStepInv ==
  ASSUME IInv,
         RtcWakes \/ RtcLocks \/ RtcExpires \/ RtcCallback \/ RtcReturns \/ RtcDone
  PROVE  IInv'
  <1>1. mode = "run" /\ UNCHANGED << utc_irq, mode, g_need_offtime >>
    BY DEF RtcWakes, RtcLocks, RtcExpires, RtcCallback, RtcReturns, RtcDone, At
  <1>2. /\ now' \in Time /\ event' \in Table /\ alarm' \in 0 .. Horizon
        /\ g_rtc_sem' \in 0 .. 1
    <2>1. CASE RtcWakes \/ RtcLocks \/ RtcReturns \/ RtcDone
      BY <2>1, Facts DEF RtcWakes, RtcLocks, RtcReturns, RtcDone
    <2>2. CASE RtcExpires
      <3>1. event' = [event EXCEPT ![Next_event(event)] = 0]
        BY <2>2 DEF RtcExpires
      <3>2. event' \in Table
        BY <3>1, Facts DEF Table
      <3>3. QED
        BY <2>2, <3>2, Facts DEF RtcExpires
    <2>3. CASE RtcCallback
      <3>1. CASE \E i \in Timer, d \in Delay : now + d \in Time /\ Inserted(i, now + d)
        BY <3>1, TableStep
      <3>2. CASE \E i \in Timer : Deleted(i)
        BY <3>2, TableStep
      <3>3. QED
        BY <2>3, <3>1, <3>2 DEF RtcCallback
    <2>4. QED
      BY <2>1, <2>2, <2>3
  <1>3. PICK step \in {"lock", "scan", "callback", "reset"} :
          /\ thr' \in [Thread \cup {Rtc} -> Locals] /\ thr'[Rtc].pc = step
          /\ \A u \in Thread : thr'[u] = thr[u]
          /\ step = "reset" => thr'[Rtc].at = NextTime(event) /\ event' = event
    <2>1. Rtc \notin Thread
      BY ProcsDiffer
    <2>2. CASE RtcDone
      <3>1. /\ thr' = [thr EXCEPT ![Rtc].pc = "reset", ![Rtc].at = NextTime(event)]
            /\ event' = event
        BY <2>2 DEF RtcDone
      <3>2. thr \in [Thread \cup {Rtc} -> Locals] /\ NextTime(event) \in Time \cup {0}
        BY Facts, ThrType DEF IInv
      <3>3. thr[Rtc] \in Locals /\ "reset" \in Steps
        BY <3>2, ProcsDiffer
      <3> DEFINE loc == [thr[Rtc] EXCEPT !.pc = "reset", !.at = NextTime(event)]
      <3>4. loc \in Locals /\ loc.pc = "reset" /\ loc.at = NextTime(event)
        BY <3>2, <3>3 DEF Locals
      <3>5. thr' = [thr EXCEPT ![Rtc] = loc]
        BY <3>1, <3>2, <3>3
      <3> HIDE DEF loc
      <3>6. QED
        BY <2>1, <3>1, <3>4, <3>5, OneMoves
    <2>3. CASE RtcWakes
      BY <2>1, <2>3, OneGoes, ProcsDiffer DEF RtcWakes
    <2>4. CASE RtcLocks
      BY <2>1, <2>4, OneGoes, ProcsDiffer DEF RtcLocks
    <2>5. CASE RtcExpires
      BY <2>1, <2>5, OneGoes, ProcsDiffer DEF RtcExpires
    <2>6. CASE RtcCallback
      BY <2>1, <2>6, ThrType DEF RtcCallback, At, IInv
    <2>7. CASE RtcReturns
      BY <2>1, <2>7, OneGoes, ProcsDiffer DEF RtcReturns
    <2>8. QED
      BY <2>2, <2>3, <2>4, <2>5, <2>6, <2>7
  <1>4. /\ g_rtc_mutex' \in {g_rtc_mutex, Rtc}
        /\ g_rtc_mutex' = Rtc <=> thr'[Rtc].pc \in {"scan", "callback", "reset"}
        /\ \A u \in Thread : g_rtc_mutex' = u <=> g_rtc_mutex = u
    <2>1. Rtc \notin Thread /\ Rtc # NoThread /\ thr \in [Thread \cup {Rtc} -> Locals]
      BY ProcsDiffer, ThrType DEF IInv
    <2>2. thr[Rtc].pc \in {"scan", "callback", "reset"} <=> g_rtc_mutex = Rtc
      BY DEF IInv, MutexOK
    <2>3. CASE RtcWakes
      BY <2>1, <2>2, <2>3, OneGoes, ProcsDiffer DEF RtcWakes, At
    <2>4. CASE RtcLocks
      BY <2>1, <2>2, <2>4, OneGoes, ProcsDiffer DEF RtcLocks, At
    <2>5. CASE RtcExpires
      BY <2>1, <2>2, <2>5, OneGoes, ProcsDiffer DEF RtcExpires, At
    <2>6. CASE RtcCallback
      BY <2>1, <2>2, <2>6 DEF RtcCallback, At
    <2>7. CASE RtcReturns
      BY <2>1, <2>2, <2>7, OneGoes, ProcsDiffer DEF RtcReturns, At
    <2>8. CASE RtcDone
      BY <2>1, <2>2, <2>8 DEF RtcDone, At
    <2>9. QED
      BY <2>3, <2>4, <2>5, <2>6, <2>7, <2>8
  <1>5. TypeOK'
    <2>1. /\ g_rtc_mutex' \in Thread \cup {Rtc, NoThread} /\ utc_irq' \in BOOLEAN
          /\ g_need_offtime' \in BOOLEAN
      BY <1>1, <1>4, ThrType DEF IInv
    <2>2. mode' \in {"run", "wfi", "deepsleep"}
      BY <1>1
    <2>3. QED
      BY <1>2, <1>3, <2>1, <2>2, TypeNext
  <1>6. MutexOK'
    BY <1>3, <1>4 DEF IInv, MutexOK
  <1>7. ResetOK'
    <2>1. CASE RtcWakes
      <3>1. Busy' /\ UNCHANGED event
        BY <1>3, <2>1, OneGoes, ProcsDiffer DEF RtcWakes, Busy
      <3>2. QED
        BY <3>1 DEF ResetOK
    <2>2. CASE ~ RtcWakes
      <3>1. g_rtc_mutex = Rtc \/ g_rtc_mutex = NoThread
        BY <2>2 DEF RtcLocks, RtcExpires, RtcCallback, RtcReturns, RtcDone, At, IInv, MutexOK
      <3>2. \A u \in Thread : thr[u].pc # "reset"
        BY <3>1, ProcsDiffer DEF IInv, MutexOK
      <3>3. QED
        BY <1>3, <3>2 DEF ResetOK
    <2>3. QED
      BY <2>1, <2>2
  <1>8. SleepOK' /\ ArmedOK'
    BY <1>1, <1>3 DEF SleepOK, ArmedOK, Quiet
  <1>9. QED
    BY <1>5, <1>6, <1>7, <1>8 DEF IInv

\* The idle hook enters or leaves WFI: nobody else is about to set the alarm, so
\* that of before is the right one where the table's next event stays.
LEMMA WfiStep ==
  ASSUME IInv, (\E d \in IdleTime : LPM_Wfi_Process(d)) \/ WfiEnds
  PROVE  IInv'
  <1>1. /\ \A t \in Thread \cup {Rtc} : thr[t].pc # "reset"
        /\ mode' \in {"run", "wfi", "deepsleep"}
        /\ UNCHANGED << utc_irq, g_rtc_mutex, thr, g_need_offtime >>
    BY DEF LPM_Wfi_Process, WfiEnds, IdleRuns, Waits, IInv, SleepOK
  <1>2. \/ \E i \in Timer, at \in Time : Inserted(i, at)
        \/ \E i \in Timer : Deleted(i)
    BY TimerAssumption DEF LPM_Wfi_Process, WfiEnds
  <1>3. /\ event' \in Table /\ now' \in Time /\ alarm' \in 0 .. Horizon
        /\ g_rtc_sem' \in 0 .. 1
        /\ g_rtc_sem' = 0 => g_rtc_sem = 0
        /\ g_rtc_sem' = 0 /\ Used(event') # {} =>
             \/ Ahead(alarm', now') /\ alarm' <= NextTime(event') \div Tick
             \/ /\ UNCHANGED << now, alarm >> /\ Used(event) # {}
                /\ NextTime(event) <= NextTime(event')
    BY <1>2, TableStep
  <1>4. TypeOK'
    BY <1>1, <1>3, ThrType, TypeNext DEF IInv
  <1>5. MutexOK' /\ ResetOK' /\ SleepOK'
    BY <1>1 DEF IInv, MutexOK, ResetOK, SleepOK
  <1>6. Quiet' => Quiet /\ g_rtc_sem' = 0
    BY <1>1, <1>3 DEF Quiet
  <1>7. ArmedOK'
    BY <1>3, <1>6, ArmedFrom
  <1>8. QED
    BY <1>4, <1>5, <1>7 DEF IInv

\* The clock goes on by a ms: if it reaches the alarm, that fires.
LEMMA ClockStep ==
  ASSUME IInv, ClockTick
  PROVE  IInv'
  <1>1. /\ now' = now + 1 /\ now < Horizon
        /\ UNCHANGED << event, alarm, g_rtc_sem, g_rtc_mutex, thr, mode, g_need_offtime >>
    BY DEF ClockTick
  <1>2. TypeOK'
    <2>1. now' \in Time
      BY <1>1, Facts, ClockAssumption DEF Time
    <2>2. utc_irq' \in BOOLEAN
      BY DEF ClockTick, Fires
    <2>3. QED
      BY <1>1, <2>1, <2>2, ThrType, TypeNext DEF IInv
  <1>3. MutexOK' /\ ResetOK' /\ SleepOK'
    BY <1>1 DEF IInv, MutexOK, ResetOK, SleepOK, Busy
  <1>4. ASSUME Quiet', Used(event) # {}
        PROVE  Ahead(alarm, now + 1) /\ alarm <= NextTime(event) \div Tick
    <2>1. Quiet /\ ~ Fires(now, now + 1)
      BY <1>1, <1>4 DEF Quiet, ClockTick
    <2>2. Ahead(alarm, now) /\ alarm <= NextTime(event) \div Tick
      BY <1>4, <2>1 DEF IInv, ArmedOK
    <2>3. alarm * Tick \in Nat /\ now \in Nat
      <3>1. alarm \in Nat /\ now \in Nat /\ Tick \in Nat
        BY Facts, TickAssumption, ClockAssumption DEF Time
      <3>2. QED
        BY <3>1, Z3
    <2>4. alarm * Tick > now => alarm * Tick > now + 1
      BY <2>1, <2>2, <2>3 DEF Fires, Ahead
    <2>5. QED
      BY <2>2, <2>4 DEF Ahead
  <1>5. ArmedOK'
    BY <1>1, <1>4 DEF ArmedOK
  <1>6. QED
    BY <1>2, <1>3, <1>5 DEF IInv

\* The alarm's handler, and the beginning of deep sleep.
LEMMA CoreStep ==
  ASSUME IInv, rtc_int_handler \/ LPM_Deepsleep_Process
  PROVE  IInv'
  <1>1. /\ UNCHANGED << now, event, alarm, g_rtc_mutex, thr, g_need_offtime >>
        /\ mode' \in {"run", "deepsleep"}
        /\ mode' # "run" => \A t \in Thread \cup {Rtc} : thr[t].pc # "reset"
        /\ g_rtc_sem' \in {1, g_rtc_sem}
    BY DEF rtc_int_handler, LPM_Deepsleep_Process, IdleRuns, Waits
  <1>2. utc_irq' \in BOOLEAN /\ g_rtc_sem' \in 0 .. 1
    <2>1. utc_irq \in BOOLEAN /\ g_rtc_sem \in 0 .. 1
      BY ThrType DEF IInv
    <2>2. utc_irq' \in BOOLEAN
      BY <2>1 DEF rtc_int_handler, LPM_Deepsleep_Process
    <2>3. QED
      BY <1>1, <2>1, <2>2
  <1>3. TypeOK'
    BY <1>1, <1>2, ThrType, TypeNext DEF IInv
  <1>4. MutexOK' /\ SleepOK'
    BY <1>1 DEF IInv, MutexOK, SleepOK
  <1>5. ResetOK'
    <2>1. Busy => Busy'
      BY <1>1 DEF Busy
    <2>2. QED
      BY <1>1, <2>1 DEF IInv, ResetOK
  <1>6. ArmedOK'
    <2>1. CASE LPM_Deepsleep_Process
      BY <2>1, ArmedKept DEF LPM_Deepsleep_Process, Quiet
    <2>2. CASE g_rtc_sem' = 1
      BY <2>2 DEF ArmedOK, Quiet
    <2>3. QED
      BY <2>1, <2>2 DEF rtc_int_handler
  <1>7. QED
    BY <1>3, <1>4, <1>5, <1>6 DEF IInv

\* A boot after deep sleep.
LEMMA BootStep ==
  ASSUME IInv, Boot
  PROVE  IInv'
  <1>1. /\ thr' = [t \in Thread \cup {Rtc} |-> NoCall]
        /\ mode' = "run" /\ g_rtc_mutex' = NoThread /\ utc_irq' = FALSE /\ g_rtc_sem' = 1
        /\ SetAlarm(NextTime(event)) /\ UNCHANGED << event, g_need_offtime >>
    BY DEF Boot
  <1>2. now' \in Time /\ alarm' \in 0 .. Horizon
    BY <1>1, Facts, AlarmSet
  <1>3. thr' \in [Thread \cup {Rtc} -> Locals] /\ NoCall.pc = "idle"
    BY <1>1, LocalTypes
  <1>4. TypeOK'
    <2>1. event \in Table /\ g_need_offtime \in BOOLEAN
      BY ThrType DEF IInv
    <2>2. event' \in Table /\ g_need_offtime' \in BOOLEAN
      BY <1>1, <2>1, Zenon
    <2>3. utc_irq' \in BOOLEAN /\ mode' \in {"run", "wfi", "deepsleep"}
      BY <1>1
    <2>4. g_rtc_sem' \in 0 .. 1
      BY <1>1
    <2>5. g_rtc_mutex' \in Thread \cup {Rtc, NoThread}
      BY <1>1
    <2>6. thr' \in [Thread \cup {Rtc} -> Locals]
      BY <1>3
    <2>7. QED
      BY <1>2, <2>2, <2>3, <2>4, <2>5, <2>6, TypeNext
  <1>5. MutexOK' /\ ResetOK' /\ SleepOK'
    BY <1>1, <1>3, ProcsDiffer DEF MutexOK, ResetOK, SleepOK
  <1>6. ArmedOK'
    BY <1>1 DEF ArmedOK, Quiet
  <1>7. QED
    BY <1>4, <1>5, <1>6 DEF IInv

\* Nothing happens.
LEMMA StutterStep ==
  ASSUME IInv, UNCHANGED vars
  PROVE  IInv'
  <1>1. TypeOK'
    BY ThrType, TypeNext DEF IInv, vars
  <1>2. MutexOK' /\ ResetOK' /\ SleepOK'
    BY DEF IInv, MutexOK, ResetOK, SleepOK, Busy, vars
  <1>3. ArmedOK'
    BY ArmedKept DEF vars, Quiet
  <1>4. QED
    BY <1>1, <1>2, <1>3 DEF IInv

\* The invariant is inductive.
LEMMA InvStep == IInv /\ [Next]_vars => IInv'
  <1> SUFFICES ASSUME IInv, [Next]_vars PROVE IInv'
    OBVIOUS
  <1>1. ASSUME NEW t \in Thread, ThreadStep(t)
        PROVE  IInv'
    <2>1. CASE Insert(t) \/ Delete(t)
      BY <2>1, TableUnderMutex
    <2>2. CASE Reset(t)
      BY <2>2, ResetStep
    <2>3. CASE \/ \E i \in Timer : Remove(t, i) \/ \E d \in Delay : Add(t, i, d)
               \/ \E to \in Time : rtc_timer_reset(t, to)
               \/ at_OFFTIME_clears(t) \/ Forge(t)
      BY <2>3, CallStep
    <2>4. QED
      BY <1>1, <2>1, <2>2, <2>3 DEF ThreadStep
  <1>2. CASE RtcStep
    <2>1. CASE Reset(Rtc)
      BY <2>1, ResetStep
    <2>2. QED
      BY <1>2, <2>1, RtcStepInv DEF RtcStep
  <1>3. CASE (\E d \in IdleTime : LPM_Wfi_Process(d)) \/ WfiEnds
    BY <1>3, WfiStep
  <1>4. CASE ClockTick
    BY <1>4, ClockStep
  <1>5. CASE rtc_int_handler \/ LPM_Deepsleep_Process
    BY <1>5, CoreStep
  <1>6. CASE Boot
    BY <1>6, BootStep
  <1>7. CASE UNCHANGED vars
    BY <1>7, StutterStep
  <1>8. QED
    BY <1>1, <1>2, <1>3, <1>4, <1>5, <1>6, <1>7 DEF Next

-----------------------------------------------------------------------------
(* Theorems                                                                   *)

\* It holds in every state.
LEMMA Invariance == Spec => []IInv
  BY InitInv, InvStep, PTL DEF Spec

(* Times, slots, the alarm and what every thread works on have their types:   *)
(* the table rtc_event_arry never holds a time beyond the clock's range.      *)
THEOREM TypeCorrect == Spec => []TypeOK
  <1>1. IInv => TypeOK
    BY DEF IInv
  <1>2. QED
    BY <1>1, Invariance, PTL

(* The comment at rtc_tmr.c:327 is right, for every resolution of the alarm   *)
(* that divides the second: an event too near for the alarm counts as expired *)
(* to rtc_event_proc, although the comparison packs the ms of a calendar time *)
(* without a carry.                                                           *)
THEOREM NearCounts == Spec => []NearIsExpired
  <1>1. TypeOK => NearIsExpired
    <2>1. SUFFICES ASSUME TypeOK, NEW i \in Used(event), Near(event[i], now)
                   PROVE  Expired(event[i], now)
      BY DEF NearIsExpired
    <2>2. now \in Time /\ event \in Table /\ i \in Timer
      BY <2>1, ThrType DEF Used
    <2>3. event[i] \in Time \cup {0}
      BY <2>2 DEF Table
    <2>4. event[i] \in Nat /\ now \in Nat
      BY <2>2, <2>3, TimeNat
    <2>5. QED
      BY <2>1, <2>4, NearExpires
  <1>2. QED
    BY <1>1, TypeCorrect, PTL

(* Whenever nobody is at work on the table, an alarm no later than the next   *)
(* event is set (rtc_tmr.c:284-346), and it is ahead of the clock unless it   *)
(* stands at the very beginning of a second.                                  *)
THEOREM ArmedUpToSecond == Spec => []ArmedWithinSecond
  <1>1. IInv => ArmedWithinSecond
    BY DEF IInv, ArmedOK, ArmedWithinSecond, Ahead, AlarmAhead, AtSecond
  <1>2. QED
    BY <1>1, Invariance, PTL

=============================================================================
