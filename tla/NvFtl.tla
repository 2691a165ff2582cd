-------------------------------- MODULE NvFtl --------------------------------
(* The factory NV region under the FTL of SYSAPP/flash/src/xy_flash.c: a ring *)
(* of NPage flash sectors, each holding a whole copy of the parameters        *)
(* between a magic word at its head and a checksum and a write number at its  *)
(* tail.  A save copies the newest sector, changes it in RAM, and erases and  *)
(* programs the next one.  Threads save parameters with SAVE_FAC_PARAM and    *)
(* the DSP's part with save_factory_nv, which reboot_nv calls as well, and    *)
(* nv_restore reads the region when the system starts.  Power may fail at any *)
(* step, and every erase and write is refused while the voltage is low.       *)
EXTENDS Integers

CONSTANTS
  NPage,      \* tpage_total: sectors of the region
  MaxNum,     \* bound of the write numbers explored
  DspField,   \* parameters of the DSP, saved by save_factory_nv
  AppField,   \* parameters of the M3 core, saved by SAVE_FAC_PARAM
  Val,        \* values of a parameter
  Default,    \* the parameters in NV_FLASH_MAIN_FACTORY_BASE
  Junk,       \* what a parameter in a damaged sector reads as
  Thread,     \* threads that save parameters
  Boot,       \* the start-up code
  NoProc,
  DualCore,   \* the DSP runs, and does erase and program for the M3 core
  TornTails   \* whether a torn program may leave a sound head and write number
              \* over a payload that its checksum rejects: the cases to explore

Field == DspField \cup AppField
Proc == Thread \cup {Boot}
Page == 0 .. NPage - 1
NoPage == -1

ASSUME NPageAssumption == NPage \in Nat /\ NPage >= 2
ASSUME MaxNumAssumption == MaxNum \in Nat
ASSUME DefaultAssumption == Default \in [Field -> Val]
ASSUME JunkAssumption == Junk \notin Val
ASSUME FieldAssumption == DspField # {} /\ AppField # {}
ASSUME ProcAssumption == Boot \notin Thread /\ NoProc \notin Proc
ASSUME FlagAssumption == DualCore \in BOOLEAN /\ TornTails \in (SUBSET BOOLEAN) \ {{}}

VARIABLES
  flash,           \* the sectors
  ram,             \* RAM copy of the parameters
  g_first_poweron, \* the parameters came from the main factory NV
  up,              \* nv_restore is done
  p,               \* of each process: step, operation, locals
  sched,           \* the process that has locked scheduling, or NoProc
  voltage,         \* "ok" or "low"
  min_mVbat,       \* threshold xy_check_low_vBat reads: "off" (0), "set", or
                   \* "above" whatever the voltage is
  g_vBat_is_low,   \* latched by xy_check_low_vBat
  lowReset,        \* the last reset was RB_BY_LOW_VOL
  TornTail         \* the case of TornTails that this flash shows; it never changes

vars == << flash, ram, g_first_poweron, up, p, sched, voltage, min_mVbat,
           g_vBat_is_low, lowReset, TornTail >>
power == << voltage, min_mVbat, g_vBat_is_low, lowReset, TornTail >>

\* A sector: magic word present, write number (0 for 0 and 0xFFFFFFFF, which
\* both mean none), checksum correct, parameters.
Sector == [magic : BOOLEAN, num : Nat, ok : BOOLEAN, data : [Field -> Val \cup {Junk}]]
JunkData == [f \in Field |-> Junk]
Erased == [magic |-> FALSE, num |-> 0, ok |-> FALSE, data |-> JunkData]

PC == {"idle", "scan", "load", "discard", "empty", "merge", "check", "erase",
       "program", "failed", "reset"}
Op == {"none", "read", "param", "factory", "reboot"}
Local == [pc : PC, op : Op, set : SUBSET Field, csm : BOOLEAN, max : Nat,
          cur : Page \cup {NoPage}, buf : Sector]
IdleProc == [pc |-> "idle", op |-> "none", set |-> {}, csm |-> TRUE, max |-> 0,
             cur |-> NoPage, buf |-> Erased]
ReadOp == [IdleProc EXCEPT !.pc = "scan", !.op = "read"]

TypeOK ==
  /\ flash \in [Page -> Sector]
  /\ ram \in [Field -> Val \cup {Junk}]
  /\ g_first_poweron \in BOOLEAN
  /\ up \in BOOLEAN
  /\ p \in [Proc -> Local]
  /\ sched \in Proc \cup {NoProc}
  /\ voltage \in {"ok", "low"}
  /\ min_mVbat \in {"off", "set", "above"}
  /\ g_vBat_is_low \in BOOLEAN
  /\ lowReset \in BOOLEAN
  /\ TornTail \in TornTails

Starting == [q \in Proc |-> IF q = Boot THEN ReadOp ELSE IdleProc]

Init ==
  /\ flash = [i \in Page |-> Erased]
  /\ ram = Default
  /\ g_first_poweron = FALSE
  /\ up = FALSE
  /\ p = Starting
  /\ sched = NoProc
  /\ voltage = "ok"
  /\ min_mVbat \in {"off", "above"}
  /\ g_vBat_is_low = FALSE
  /\ lowReset = FALSE
  /\ TornTail \in TornTails

-----------------------------------------------------------------------------
(* xy_choose_valid_ftl                                                        *)

\* A sector with head and write number.
HeadTail_NoNum(s) == s.magic  \* Mutant: the write number is not looked at
HeadTail(s) == s.magic /\ s.num # 0

\* Mutant: the scan starts at the second sector.
Chosen_SkipsFirst(fl, max) ==
  LET cand == {i \in Page \ {0} : HeadTail(fl[i]) /\ fl[i].num >= max}
      best == {i \in cand : \A j \in cand : fl[j].num <= fl[i].num}
  IN  IF cand = {} THEN NoPage ELSE CHOOSE i \in best : TRUE

\* The sector the scan settles on, given the largest number seen so far: the
\* last of those with the largest write number not below it.
Chosen(fl, max) ==
  LET cand == {i \in Page : HeadTail(fl[i]) /\ fl[i].num >= max}
      best == {i \in cand : \A j \in cand :
                 fl[j].num < fl[i].num \/ (fl[j].num = fl[i].num /\ j <= i)}
  IN  IF cand = {} THEN NoPage ELSE CHOOSE i \in best : TRUE

NextPage_Same(i) == IF i = NoPage THEN 0 ELSE i  \* Mutant: saves in place
NextPage(i) == IF i = NoPage THEN 0 ELSE (i + 1) % NPage

\* Scheduling is locked by nobody else, and threads run once the system is up.
Runs(q) == sched \in {NoProc, q} /\ (q = Boot \/ up)

At(q, step) == Runs(q) /\ p[q].pc = step

\* max_writenum is cleared on entry only, not when CHOOSE_AGAIN is taken.
Scan(q) ==
  /\ At(q, "scan")
  /\ LET c == Chosen(flash, p[q].max)
     IN  p' = [p EXCEPT ![q].pc  = IF c = NoPage THEN "empty" ELSE "load",
                        ![q].cur = c,
                        ![q].max = IF c = NoPage THEN @ ELSE flash[c].num]
  /\ UNCHANGED << flash, ram, g_first_poweron, up, sched, power >>

\* Mutant: the checksum is not looked at.
Load_NoCheck(q) ==
  /\ At(q, "load")
  /\ p' = [p EXCEPT ![q].pc = "merge", ![q].buf = flash[p[q].cur]]
  /\ UNCHANGED << flash, ram, g_first_poweron, up, sched, power >>

Load(q) ==
  /\ At(q, "load")
  /\ LET s == flash[p[q].cur]
     IN  p' = [p EXCEPT ![q].pc  = IF p[q].csm /\ ~ s.ok THEN "discard" ELSE "merge",
                        ![q].buf = s]
  /\ UNCHANGED << flash, ram, g_first_poweron, up, sched, power >>

-----------------------------------------------------------------------------
(* xy_check_low_vBat, before every erase and write.  Until nv_restore has     *)
(* copied the factory NV, the threshold is read from a block just malloc'ed.  *)

Sensed == min_mVbat = "above" \/ (min_mVbat = "set" /\ voltage = "low")
Allowed == min_mVbat = "off" \/ (~ g_vBat_is_low /\ ~ Sensed)
Refused == ~ Allowed /\ (g_vBat_is_low \/ lowReset)
LatchVbat == g_vBat_is_low' = (g_vBat_is_low \/ Sensed)

\* Everything in RAM is gone; the flash is as it is, or as the power left it.
Restart(fl, low) ==
  /\ flash' = fl
  /\ p' = Starting
  /\ sched' = NoProc
  /\ up' = FALSE
  /\ g_first_poweron' = FALSE
  /\ min_mVbat' \in {"off", "above"}
  /\ g_vBat_is_low' = FALSE
  /\ lowReset' = low
  /\ UNCHANGED << ram, voltage, TornTail >>

\* The first time the voltage is found low, soft_reset_by_wdt(RB_BY_LOW_VOL).
LowVoltageReset(q) ==
  /\ At(q, "discard") \/ At(q, "check")
  /\ ~ Allowed /\ ~ Refused
  /\ Restart(flash, TRUE)

-----------------------------------------------------------------------------
(* CHOOSE_AGAIN: the sector with the wrong checksum is erased, if the voltage *)
(* allows, and the scan starts over.                                          *)
Discard(q) ==
  /\ At(q, "discard")
  /\ Refused \/ Allowed
  /\ flash' = IF Allowed THEN [flash EXCEPT ![p[q].cur] = Erased] ELSE flash
  /\ p' = [p EXCEPT ![q].pc = "scan"]
  /\ LatchVbat
  /\ UNCHANGED << ram, g_first_poweron, up, sched, voltage, min_mVbat, lowReset,
                  TornTail >>

-----------------------------------------------------------------------------
(* xy_ftl_read, as nv_restore calls it                                        *)

Restored ==
  /\ up' = TRUE
  /\ p' = [p EXCEPT ![Boot] = IdleProc]
  /\ min_mVbat' = "set"
  /\ UNCHANGED << flash, sched, voltage, g_vBat_is_low, lowReset, TornTail >>

\* No valid sector: the main factory NV.
ReadDefault ==
  /\ At(Boot, "empty")
  /\ ram' = Default
  /\ g_first_poweron' = TRUE
  /\ Restored

ReadDone ==
  /\ At(Boot, "merge")
  /\ ram' = p[Boot].buf.data
  /\ UNCHANGED g_first_poweron
  /\ Restored

-----------------------------------------------------------------------------
(* xy_ftl_write                                                               *)

\* SAVE_FAC_PARAM(f) after the parameter was changed in RAM.
SaveParam(t, f, v) ==
  /\ At(t, "idle")
  /\ up
  /\ \A i \in Page : flash[i].num < MaxNum
  /\ ram' = [ram EXCEPT ![f] = v]
  /\ p' = [p EXCEPT ![t] = [IdleProc EXCEPT !.pc = "scan", !.op = "param", !.set = {f}]]
  /\ UNCHANGED << flash, g_first_poweron, up, sched, power >>

\* save_factory_nv: the DSP's part of the RAM copy, without checksum check, and
\* after a first start the M3 core's part.  reboot_nv calls it in a critical
\* section that only the reset ends.
SaveFactory(t, op) ==
  /\ At(t, "idle")
  /\ up
  /\ \A i \in Page : flash[i].num < MaxNum
  /\ sched' = IF op = "reboot" THEN t ELSE sched
  /\ \E new \in [DspField -> Val] :
       ram' = [f \in Field |-> IF f \in DspField THEN new[f] ELSE ram[f]]
  /\ p' = [p EXCEPT ![t] = [IdleProc EXCEPT !.pc = "scan", !.op = op,
                                            !.set = DspField, !.csm = FALSE]]
  /\ UNCHANGED << flash, g_first_poweron, up, power >>

\* No valid sector: start from the main factory NV.
WriteDefault(t) ==
  /\ At(t, "empty")
  /\ p' = [p EXCEPT ![t].pc = "merge",
                    ![t].buf = [Erased EXCEPT !.data = Default]]
  /\ UNCHANGED << flash, ram, g_first_poweron, up, sched, power >>

\* What a thread does when its write returns XY_OK.
Returned(t) ==
  IF p[t].op \in {"factory", "reboot"} /\ p[t].set = DspField /\ g_first_poweron
  THEN [IdleProc EXCEPT !.pc = "scan", !.op = p[t].op, !.set = AppField]
  ELSE IF p[t].op = "reboot" THEN [IdleProc EXCEPT !.pc = "reset", !.op = "reboot"]
  ELSE IdleProc

Merged(t) == [f \in Field |-> IF f \in p[t].set THEN ram[f] ELSE p[t].buf.data[f]]

\* Mutant: the write number is not counted.
Updated_NoCount(t) == [magic |-> TRUE, ok |-> TRUE, data |-> Merged(t),
                       num |-> IF p[t].buf.num = 0 THEN 1 ELSE p[t].buf.num]

Updated(t) == [magic |-> TRUE, num |-> p[t].buf.num + 1, ok |-> TRUE,
               data |-> Merged(t)]

Same(t) == p[t].cur # NoPage /\ \A f \in p[t].set : p[t].buf.data[f] = ram[f]

\* Nothing to change, nothing to write.
WriteNothing(t) ==
  /\ At(t, "merge")
  /\ Same(t)
  /\ p' = [p EXCEPT ![t] = Returned(t)]
  /\ UNCHANGED << flash, ram, g_first_poweron, up, sched, power >>

MergeData(t) ==
  /\ At(t, "merge")
  /\ ~ Same(t)
  /\ p' = [p EXCEPT ![t].pc = "check", ![t].buf = Updated(t)]
  /\ UNCHANGED << flash, ram, g_first_poweron, up, sched, power >>

\* xy_flash_write: with two cores, scheduling stays locked until the DSP has
\* erased and programmed; otherwise the two are separate critical sections.
CheckVbat(t) ==
  /\ At(t, "check")
  /\ Refused \/ Allowed
  /\ p' = [p EXCEPT ![t].pc = IF Allowed THEN "erase" ELSE "failed"]
  /\ sched' = IF Allowed /\ DualCore THEN t ELSE sched
  /\ LatchVbat
  /\ UNCHANGED << flash, ram, g_first_poweron, up, voltage, min_mVbat, lowReset,
                  TornTail >>

EraseSector(t) ==
  /\ At(t, "erase")
  /\ flash' = [flash EXCEPT ![NextPage(p[t].cur)] = Erased]
  /\ p' = [p EXCEPT ![t].pc = "program"]
  /\ UNCHANGED << ram, g_first_poweron, up, sched, power >>

\* Programming can only clear bits: over anything but an erased sector, or
\* itself, it leaves a mixture.
Programmed(old, new) ==
  IF old \in {Erased, new} THEN new
  ELSE [magic |-> old.magic, num |-> IF old.num = new.num THEN new.num ELSE 0,
        ok |-> FALSE, data |-> JunkData]

ProgramSector(t) ==
  /\ At(t, "program")
  /\ flash' = [flash EXCEPT ![NextPage(p[t].cur)] = Programmed(@, p[t].buf)]
  /\ p' = [p EXCEPT ![t] = Returned(t)]
  /\ sched' = IF p[t].op = "reboot" THEN t ELSE NoProc
  /\ UNCHANGED << ram, g_first_poweron, up, power >>

\* Not XY_OK: xy_flash_erase of the region, which the voltage forbids as well
\* because g_vBat_is_low is latched, and xy_assert(0).
WriteFailed(t) ==
  /\ At(t, "failed")
  /\ Restart(flash, FALSE)

\* soft_reset_by_wdt(RB_BY_NRB) after reboot_nv.
Reboot(t) ==
  /\ At(t, "reset")
  /\ Restart(flash, FALSE)

-----------------------------------------------------------------------------
(* The world                                                                  *)

\* What a sector may hold when power fails in the middle of an erase, and in
\* the middle of programming an erased sector.
TornErase(old) ==
  {old, Erased, [old EXCEPT !.ok = FALSE, !.data = JunkData]}
TornProgram(old, new) ==
  {old, Programmed(old, new)} \cup
  {[magic |-> m, num |-> n, ok |-> FALSE, data |-> JunkData] :
     m \in {TRUE}, n \in {0} \cup (IF TornTail THEN {new.num} ELSE {})}

Torn(q) ==
  LET i == NextPage(p[q].cur)
  IN  CASE p[q].pc = "erase"   -> {[flash EXCEPT ![i] = s] : s \in TornErase(flash[i])}
        [] p[q].pc = "program" -> {[flash EXCEPT ![i] = s] :
                                     s \in TornProgram(flash[i], p[q].buf)}
        [] p[q].pc = "discard" /\ Allowed ->
                                  {[flash EXCEPT ![p[q].cur] = s] :
                                     s \in TornErase(flash[p[q].cur])}
        [] OTHER               -> {flash}

PowerLoss == \E q \in Proc : \E fl \in Torn(q) : Runs(q) /\ Restart(fl, FALSE)

VoltageChanges ==
  /\ voltage' \in {"ok", "low"} \ {voltage}
  /\ UNCHANGED << flash, ram, g_first_poweron, up, p, sched, min_mVbat,
                   g_vBat_is_low, lowReset, TornTail >>

Call(t) == \/ \E f \in AppField, v \in Val : SaveParam(t, f, v)
           \/ \E op \in {"factory", "reboot"} : SaveFactory(t, op)
Write(t) == \/ WriteDefault(t) \/ WriteNothing(t) \/ MergeData(t) \/ CheckVbat(t)
            \/ EraseSector(t) \/ ProgramSector(t) \/ WriteFailed(t)
            \/ Reboot(t)
Choose(q) == Scan(q) \/ Load(q) \/ Discard(q) \/ LowVoltageReset(q)

Next == \/ \E q \in Proc : Choose(q)
        \/ ReadDefault \/ ReadDone
        \/ \E t \in Thread : Call(t) \/ Write(t)
        \/ PowerLoss \/ VoltageChanges

Spec == Init /\ [][Next]_vars

\* The start-up code runs alone, and a thread that is saving gets the core in
\* the end.
Fairness == /\ WF_vars(Choose(Boot) \/ ReadDefault \/ ReadDone)
            /\ \A t \in Thread : WF_vars(Choose(t) \/ Write(t))
FairSpec == Spec /\ Fairness

-----------------------------------------------------------------------------
(* Properties                                                                 *)

\* Sectors whose head, tail and checksum are all right.
Intact(s) == HeadTail(s) /\ s.ok

\* What can be recovered from the flash: the newest intact copy.
Newest(fl) == {i \in Page : Intact(fl[i]) /\
                 \A j \in Page : Intact(fl[j]) => fl[j].num <= fl[i].num}
Recoverable(fl) == IF Newest(fl) = {} THEN Default
                   ELSE fl[CHOOSE i \in Newest(fl) : TRUE].data

(* Saves take effect atomically, touch no other parameter, survive every      *)
(* later reset and power loss, and the system starts from them, except that   *)
(* nv_restore may miss the copies behind a sector whose tail was programmed   *)
(* before its payload (CHOOSE_AGAIN, xy_flash.c:251, DefaultIfNone).  They    *)
(* are still there: no other step of any process departs from the store.      *)
Saving(t) == IF up THEN p[t].set ELSE {}
Store == INSTANCE NvStore WITH store <- Recoverable(flash),
                               pend <- [t \in Thread |-> Saving(t)]
ReadMisses == ReadDefault /\ Newest(flash) # {}
ImplementsStore == Store!Init /\ [][ReadMisses \/ Store!Next]_(Store!vars)

(* A save never destroys the last intact copy: from the first save on, there  *)
(* is one at every step of every later save, so also wherever power fails and *)
(* whatever it leaves of the sector being written.                            *)
CopySurvives == [][Newest(flash) # {} => Newest(flash') # {}]_vars

(* The block that xy_choose_valid_ftl selects "according to head and tail"    *)
(* (xy_flash.c:232, :235) is found whenever there is one: the system starts   *)
(* from the main factory NV only if no intact copy exists.  DefaultIfNone     *)
(* says so of every way a sector can be torn, and does not hold.              *)
DefaultIfNone == [][ReadDefault => Newest(flash) = {}]_vars
DefaultOnlyIfNone == [][ReadDefault => TornTail \/ Newest(flash) = {}]_vars

(* "The other values stay as they are" (xy_flash.h:144): the write of a       *)
(* thread changes what the flash holds in no field but those it saves.        *)
OthersKept ==
  [][\A t \in Thread : ProgramSector(t) =>
       \A f \in Field \ p[t].set : Recoverable(flash')[f] = Recoverable(flash)[f]]_vars

(* A sector damaged by a power loss is never served as parameters, and never  *)
(* becomes an intact one by being copied into a new sector (save_factory_nv   *)
(* copies without looking at the checksum).                                   *)
NoJunk == /\ up => ram \in [Field -> Val]
          /\ \A i \in Page : Intact(flash[i]) => flash[i].data \in [Field -> Val]

(* When power and voltage have become stable and nobody reboots, nv_restore   *)
(* returns and every save returns: low voltage makes xy_flash_erase and       *)
(* xy_flash_write fail (xy_flash.h:13) and is reported to the user            *)
(* (xy_sys_hook.c:226); it does not hang the caller.                          *)
Stable == <>[][~ PowerLoss /\ ~ VoltageChanges]_vars
EveryCallReturns == Stable => \A q \in Proc : (p[q].pc # "idle") ~> (p[q].pc = "idle")
CallsReturn == []~ TornTail => EveryCallReturns
=============================================================================
