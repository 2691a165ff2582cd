-------------------------- MODULE WorkLock_proofs --------------------------
(* Safety of the work locks, for any number of users and of locks they hold.  *)
EXTENDS WorkLock, FiniteSets, FiniteSetTheorems, TLAPS

-----------------------------------------------------------------------------
(* The inductive invariant                                                    *)

\* The part of the state that the handlers change, and the rest.
LockTypeOK ==
  /\ num \in [LockType -> Nat]
  /\ HAVE_FREE_LOCK \in BOOLEAN /\ have_lock_ext \in BOOLEAN /\ needRai \in BOOLEAN
  /\ dsp \in BOOLEAN /\ dspLock \in BOOLEAN /\ told \in BOOLEAN /\ user_lock_state \in BOOLEAN
  /\ timer_call \in {"none", "start", "stop"}
  /\ rai \in [pc : {"none", "check", "wait", "exit"}, delay_num : 0 .. MaxWait]

RestTypeOK ==
  /\ at_lock \in BOOLEAN /\ callback \in BOOLEAN /\ asserted \in BOOLEAN
  /\ timer \in {"none", "idle", "running"}
  /\ cmdq \in Seq({"start", "stop"})
  /\ at \in [pc : {"idle", "delay", "autolock", "handle"},
             cmd : {"boot", "other", "lock", "unlock", "register", "deregister"}]
  /\ hold \in [User -> 0 .. MaxHold]

\* A DSP that is always loaded knows of every lock.
AlwaysLoaded == ~ DynamicLoad => dsp
KnowsOfLock == ~ DynamicLoad => DspKnowsOfLock

LockInv == FreeMeansNone /\ AlwaysLoaded /\ KnowsOfLock /\ DspKnowsOfRelease

IInv == LockTypeOK /\ RestTypeOK /\ LockInv

\* The types of the locks and those of the rest.
LEMMA TypeSplit == TypeOK <=> LockTypeOK /\ RestTypeOK
BY DEF TypeOK, LockTypeOK, RestTypeOK

\* Every user has a type of lock.
LEMMA TypeOfType == \A u : TypeOf(u) \in LockType
BY DEF TypeOf, LockType

-----------------------------------------------------------------------------
(* The handlers                                                               *)

\* The counts that the handlers compute are natural numbers, and only the
\* count of the delay lock is touched by the suspension.
LEMMA Counts ==
  ASSUME NEW n \in [LockType -> Nat]
  PROVE  /\ Suspended(n) \in [LockType -> Nat]
         /\ DspLocks(Suspended(n)) = DspLocks(n)
         /\ DspLocks(n) \in Nat /\ BusyLocks(n) \in Nat /\ Locks(n) \in Nat
         /\ Locks(n) = 0 => DspLocks(n) = 0
         /\ Locks(n) = 0 <=> \A type \in LockType : n[type] = 0
PROOF
  <1>1. /\ n["LOCK_DEFAULT"] \in Nat /\ n["LOCK_XY_LOCAL"] \in Nat
        /\ n["LOCK_DELAY"] \in Nat /\ n["LOCK_EXT"] \in Nat
    BY DEF LockType
  <1>2. Suspended(n) \in [LockType -> Nat]
    BY DEF Suspended
  <1>3. /\ Suspended(n)["LOCK_DEFAULT"] = n["LOCK_DEFAULT"]
        /\ Suspended(n)["LOCK_EXT"] = n["LOCK_EXT"]
    BY DEF Suspended, LockType
  <1>4. DspLocks(Suspended(n)) = DspLocks(n)
    BY <1>3 DEF DspLocks
  <1>5. DspLocks(n) \in Nat /\ BusyLocks(n) \in Nat /\ Locks(n) \in Nat
    BY <1>1 DEF DspLocks, BusyLocks, Locks
  <1> DEFINE a == n["LOCK_DEFAULT"]
             b == n["LOCK_EXT"]
             c == n["LOCK_XY_LOCAL"]
             d == n["LOCK_DELAY"]
  <1>6. Locks(n) = 0 <=> a = 0 /\ b = 0 /\ c = 0 /\ d = 0
    <2>1. Locks(n) = a + b + c + d
      BY DEF DspLocks, BusyLocks, Locks
    <2>2. a \in Nat /\ b \in Nat /\ c \in Nat /\ d \in Nat
      BY <1>1
    <2> HIDE DEF a, b, c, d
    <2> QED  BY <2>1, <2>2
  <1>7. Locks(n) = 0 => DspLocks(n) = 0
    BY <1>6 DEF DspLocks
  <1>8. Locks(n) = 0 <=> \A type \in LockType : n[type] = 0
    BY <1>6 DEF LockType
  <1> QED  BY <1>2, <1>4, <1>5, <1>7, <1>8

\* A release takes nothing from a count of 0 and no lock from the others.
LEMMA ReleasedCounts ==
  ASSUME NEW type \in LockType, num \in [LockType -> Nat]
  PROVE  /\ Released(type) \in [LockType -> Nat]
         /\ DspLocks(Released(type)) <= DspLocks(num)
         /\ type \notin DspLock => DspLocks(Released(type)) = DspLocks(num)
         /\ Locks(num) = 0 => Locks(Released(type)) = 0
         /\ Locks(num) = 0 => Locks(Suspended(Released(type))) = 0
PROOF
  <1> DEFINE r == Released(type)
  <1>1. /\ r \in [LockType -> Nat]
        /\ \A t \in LockType : r[t] <= num[t] /\ (t # type => r[t] = num[t])
    BY DEF Released
  <1>2. DspLocks(r) <= DspLocks(num) /\ (type \notin DspLock => DspLocks(r) = DspLocks(num))
    <2>1. /\ num["LOCK_DEFAULT"] \in Nat /\ num["LOCK_EXT"] \in Nat
          /\ r["LOCK_DEFAULT"] \in Nat /\ r["LOCK_EXT"] \in Nat
          /\ r["LOCK_DEFAULT"] <= num["LOCK_DEFAULT"] /\ r["LOCK_EXT"] <= num["LOCK_EXT"]
          /\ type \notin DspLock => /\ r["LOCK_DEFAULT"] = num["LOCK_DEFAULT"]
                                    /\ r["LOCK_EXT"] = num["LOCK_EXT"]
      BY <1>1 DEF LockType, DspLock
    <2> QED  BY <2>1 DEF DspLocks
  <1>3. ASSUME Locks(num) = 0  PROVE Locks(r) = 0 /\ Locks(Suspended(r)) = 0
    <2>1. \A t \in LockType : num[t] = 0
      BY <1>3, Counts
    <2>2. \A t \in LockType : r[t] = 0
      BY <1>1, <2>1
    <2>3. \A t \in LockType : Suspended(r)[t] = 0
      BY <1>1, <2>2 DEF Suspended
    <2> QED  BY <1>1, <2>2, <2>3, Counts
  <1> QED  BY <1>1, <1>2, <1>3

\* What Tell leaves behind.
LEMMA TellKeeps ==
  ASSUME NEW locked \in BOOLEAN, Tell(locked), LockTypeOK
  PROVE  /\ dsp' = dsp /\ user_lock_state' \in BOOLEAN
         /\ dspLock' \in BOOLEAN /\ told' \in BOOLEAN
         /\ dsp => dspLock' = locked
BY DEF Tell, LockTypeOK

\* Creating send_rai_proxy keeps its types.
LEMMA RaiTaskType ==
  ASSUME create_send_rai_task, LockTypeOK
  PROVE  /\ rai' \in [pc : {"none", "check", "wait", "exit"}, delay_num : 0 .. MaxWait]
         /\ needRai' \in BOOLEAN
BY BoundAssumption DEF create_send_rai_task, LockTypeOK

\* increase_worklock keeps types and invariant.
LEMMA IncreaseKeeps ==
  ASSUME NEW type \in LockType, LockTypeOK, LockInv, increase_worklock(type)
  PROVE  LockTypeOK' /\ LockInv'
PROOF
  <1> DEFINE n == [num EXCEPT ![type] = @ + 1]
  <1> DEFINE m == IF type = "LOCK_EXT" THEN Suspended(n) ELSE n
  <1>1. HAVE_FREE_LOCK' = FALSE /\ needRai' = FALSE /\ rai' = rai
    BY DEF increase_worklock
  <1>2. /\ n \in [LockType -> Nat] /\ m \in [LockType -> Nat]
        /\ DspLocks(m) = DspLocks(n)
        /\ type \in DspLock => DspLocks(n) = DspLocks(num) + 1
        /\ type \notin DspLock => DspLocks(n) = DspLocks(num)
        /\ DspLocks(num) \in Nat /\ DspLocks(n) \in Nat
    <2>1. n \in [LockType -> Nat]
      BY DEF LockTypeOK
    <2>2. /\ type \in DspLock => DspLocks(n) = DspLocks(num) + 1
          /\ type \notin DspLock => DspLocks(n) = DspLocks(num)
      BY DEF LockTypeOK, DspLocks, DspLock, LockType
    <2> QED  BY <2>1, <2>2, Counts DEF LockTypeOK
  <1>3. CASE FirstExt(type)
    <2>1. have_lock_ext' = TRUE /\ timer_call' = "none" /\ UNCHANGED << num, dspVars >>
      BY <1>3 DEF increase_worklock
    <2> QED
      BY <1>1, <2>1 DEF LockTypeOK, LockInv, FreeMeansNone, AlwaysLoaded, KnowsOfLock,
                        DspKnowsOfLock, DspKnowsOfRelease, dspVars
  <1>4. CASE ~ FirstExt(type)
    <2>1. have_lock_ext' = have_lock_ext /\ num' = m
      BY <1>4 DEF increase_worklock
    <2>2. timer_call' \in {"none", "start", "stop"}
      BY <1>4 DEF increase_worklock, Suspend
    <2>3. CASE FirstDspLock(type, n) /\ dsp
      <3>1. Tell(TRUE)
        BY <1>4, <2>3 DEF increase_worklock
      <3>2. dsp' = dsp /\ dspLock' = TRUE /\ user_lock_state' \in BOOLEAN /\ told' \in BOOLEAN
        BY <3>1, <2>3, TellKeeps
      <3>3. DspLocks(num') = 1
        BY <2>1, <2>3, <1>2 DEF FirstDspLock
      <3>4. LockTypeOK'
        BY <1>1, <1>2, <2>1, <2>2, <3>2 DEF LockTypeOK
      <3>5. FreeMeansNone' /\ AlwaysLoaded'
        BY <1>1, <3>2, <2>3 DEF LockInv, FreeMeansNone, AlwaysLoaded
      <3>6. KnowsOfLock' /\ DspKnowsOfRelease'
        BY <3>2, <3>3 DEF KnowsOfLock, DspKnowsOfLock, DspKnowsOfRelease
      <3> QED  BY <3>4, <3>5, <3>6 DEF LockInv
    <2>4. CASE ~ (FirstDspLock(type, n) /\ dsp)
      <3>1. UNCHANGED dspVars
        BY <1>4, <2>4 DEF increase_worklock
      <3>2. dsp => (DspLocks(num') > 0 <=> DspLocks(num) > 0)
        BY <2>1, <2>4, <1>2 DEF FirstDspLock
      <3>3. dsp => (DspLocks(num') = 0 <=> DspLocks(num) = 0)
        BY <2>1, <1>2, <3>2
      <3> QED
        BY <1>1, <1>2, <2>1, <2>2, <3>1, <3>2, <3>3
        DEF LockTypeOK, LockInv, FreeMeansNone, AlwaysLoaded, KnowsOfLock,
            DspKnowsOfLock, DspKnowsOfRelease, dspVars
    <2> QED  BY <2>3, <2>4
  <1> QED  BY <1>3, <1>4

\* decrease_worklock keeps them.
LEMMA DecreaseKeeps ==
  ASSUME NEW type \in LockType, LockTypeOK, LockInv, decrease_worklock(type)
  PROVE  LockTypeOK' /\ LockInv'
PROOF
  <1> DEFINE n == IF NoDspLock(type) THEN Suspended(Released(type)) ELSE Released(type)
  <1>1. num' = n /\ n \in [LockType -> Nat]
    BY ReleasedCounts, Counts DEF decrease_worklock, LockTypeOK
  <1>2. DspLocks(n) = DspLocks(Released(type)) /\ DspLocks(n) <= DspLocks(num)
        /\ DspLocks(num) \in Nat /\ DspLocks(n) \in Nat
    BY <1>1, ReleasedCounts, Counts DEF LockTypeOK
  <1>3. timer_call' \in {"none", "start", "stop"}
    BY DEF decrease_worklock, Suspend
  <1>4. /\ rai' \in [pc : {"none", "check", "wait", "exit"}, delay_num : 0 .. MaxWait]
        /\ needRai' \in BOOLEAN
    BY RaiTaskType DEF decrease_worklock, raiVars, LockTypeOK
  <1>5. have_lock_ext' \in BOOLEAN /\ HAVE_FREE_LOCK' \in BOOLEAN
    BY DEF decrease_worklock, ExtSeen
  <1>6. FreeMeansNone'
    <2>1. HAVE_FREE_LOCK' => HAVE_FREE_LOCK \/ Locks(n) = 0
      BY DEF decrease_worklock, LastLock
    <2>2. HAVE_FREE_LOCK => Locks(n) = 0
      BY ReleasedCounts DEF LockInv, FreeMeansNone, LockTypeOK
    <2> QED  BY <2>1, <2>2, <1>1 DEF FreeMeansNone
  <1>7. CASE NoDspLock(type) /\ dsp
    <2>1. Tell(FALSE)
      BY <1>7 DEF decrease_worklock
    <2>2. dsp' = dsp /\ dspLock' = FALSE /\ user_lock_state' \in BOOLEAN /\ told' \in BOOLEAN
      BY <2>1, <1>7, TellKeeps
    <2>3. DspLocks(num') = 0
      BY <1>1, <1>2, <1>7 DEF NoDspLock
    <2>4. LockTypeOK'
      BY <1>1, <1>3, <1>4, <1>5, <2>2 DEF LockTypeOK
    <2>5. AlwaysLoaded'
      BY <2>2, <1>7 DEF AlwaysLoaded
    <2>6. KnowsOfLock' /\ DspKnowsOfRelease'
      BY <2>2, <2>3 DEF KnowsOfLock, DspKnowsOfLock, DspKnowsOfRelease
    <2> QED  BY <1>6, <2>4, <2>5, <2>6 DEF LockInv
  <1>8. CASE ~ (NoDspLock(type) /\ dsp)
    <2>1. UNCHANGED dspVars
      BY <1>8 DEF decrease_worklock
    <2>2. dsp /\ DspLocks(num') = 0 => DspLocks(num) = 0
      BY <1>1, <1>2, <1>8, ReleasedCounts DEF NoDspLock, LockTypeOK
    <2>3. DspLocks(num') > 0 => DspLocks(num) > 0
      BY <1>1, <1>2
    <2> QED
      BY <1>1, <1>3, <1>4, <1>5, <1>6, <2>1, <2>2, <2>3
      DEF LockTypeOK, LockInv, AlwaysLoaded, KnowsOfLock, DspKnowsOfLock,
          DspKnowsOfRelease, dspVars
  <1> QED  BY <1>7, <1>8

\* do_unlock_all keeps them.
LEMMA UnlockAllKeeps ==
  ASSUME LockTypeOK, LockInv, do_unlock_all
  PROVE  LockTypeOK' /\ LockInv'
PROOF
  <1>1. num' = [type \in LockType |-> 0] /\ HAVE_FREE_LOCK' = TRUE
        /\ have_lock_ext' = have_lock_ext
    BY DEF do_unlock_all
  <1>2. num' \in [LockType -> Nat] /\ Locks(num') = 0 /\ DspLocks(num') = 0
    BY <1>1 DEF Locks, BusyLocks, DspLocks, LockType
  <1>3. timer_call' \in {"none", "start", "stop"}
    BY DEF do_unlock_all, Suspend
  <1>4. /\ dsp' = dsp /\ user_lock_state' \in BOOLEAN
        /\ dspLock' \in BOOLEAN /\ told' \in BOOLEAN
        /\ dsp => dspLock' = FALSE
    BY TellKeeps DEF do_unlock_all
  <1>5. /\ rai' \in [pc : {"none", "check", "wait", "exit"}, delay_num : 0 .. MaxWait]
        /\ needRai' \in BOOLEAN
    BY RaiTaskType DEF do_unlock_all
  <1> QED
    BY <1>1, <1>2, <1>3, <1>4, <1>5
    DEF LockTypeOK, LockInv, FreeMeansNone, AlwaysLoaded, KnowsOfLock, DspKnowsOfLock,
        DspKnowsOfRelease

-----------------------------------------------------------------------------
(* The steps                                                                  *)

\* Steps that leave the locks, what the DSP knows and the RAI alone.
LEMMA OthersKeep ==
  ASSUME LockTypeOK, LockInv, UNCHANGED << lockVars, dspVars, raiVars >>,
         timer_call' \in {"none", "start", "stop"}
  PROVE  LockTypeOK' /\ LockInv'
BY DEF LockTypeOK, LockInv, lockVars, dspVars, raiVars, FreeMeansNone, AlwaysLoaded,
       KnowsOfLock, DspKnowsOfLock, DspKnowsOfRelease

\* Steps of the thread that sends the RAI.
LEMMA RaiKeeps ==
  ASSUME LockTypeOK, LockInv, RaiStep
  PROVE  LockTypeOK' /\ LockInv'
PROOF
  <1>1. UNCHANGED << lockVars, dspVars, timer_call >>
    BY DEF RaiStep, RaiSends, RaiWaits, RaiWakes, RaiGivesUp, RaiEnds, timerVars
  <1>2. needRai' \in BOOLEAN
    BY DEF RaiStep, RaiSends, RaiWaits, RaiWakes, RaiGivesUp, RaiEnds, LockTypeOK
  <1>3. rai' \in [pc : {"none", "check", "wait", "exit"}, delay_num : 0 .. MaxWait]
    BY BoundAssumption
    DEF RaiStep, RaiSends, RaiWaits, RaiWakes, RaiGivesUp, RaiEnds, RaiGoto, LockTypeOK
  <1> QED
    BY <1>1, <1>2, <1>3
    DEF LockTypeOK, LockInv, lockVars, dspVars, FreeMeansNone, AlwaysLoaded, KnowsOfLock,
        DspKnowsOfLock, DspKnowsOfRelease

\* A lock that is taken is counted: the count of locks is not zero afterwards,
\* unless the first AT+WORKLOCK=1 leaves the counts as they are.
LEMMA IncreaseCounts ==
  ASSUME num \in [LockType -> Nat], NEW type \in LockType, increase_worklock(type)
  PROVE  num' = num \/ Locks(num') # 0
PROOF
  <1> DEFINE n == [num EXCEPT ![type] = @ + 1]
  <1>1. /\ num["LOCK_DEFAULT"] \in Nat /\ num["LOCK_XY_LOCAL"] \in Nat
        /\ num["LOCK_DELAY"] \in Nat /\ num["LOCK_EXT"] \in Nat
    BY DEF LockType
  <1>2. n \in [LockType -> Nat] /\ n[type] \in Nat /\ n[type] # 0
    OBVIOUS
  <1>3. num' = num \/ num' = n \/ (type = "LOCK_EXT" /\ num' = Suspended(n))
    BY DEF increase_worklock
  <1>4. CASE num' = n
    <2>1. Locks(n) # 0
      BY <1>2, Counts
    <2> QED  BY <1>4, <2>1
  <1>5. CASE type = "LOCK_EXT" /\ num' = Suspended(n)
    <2>1. Suspended(n)["LOCK_EXT"] = n["LOCK_EXT"]
      BY <1>2 DEF Suspended, LockType
    <2>2. Suspended(n) \in [LockType -> Nat] /\ "LOCK_EXT" \in LockType
      BY <1>2, Counts DEF LockType
    <2>3. Locks(Suspended(n)) # 0
      BY <1>2, <1>5, <2>1, <2>2, Counts
    <2> QED  BY <1>5, <2>3
  <1> QED  BY <1>3, <1>4, <1>5

\* At first nobody holds a lock.
LEMMA InitInv == Init => IInv
PROOF
  <1> SUFFICES ASSUME Init  PROVE IInv
    OBVIOUS
  <1>1. num \in [LockType -> Nat] /\ Locks(num) = 0 /\ DspLocks(num) = 0
    BY DEF Init, Locks, BusyLocks, DspLocks, LockType
  <1>2. LockTypeOK
    <2>1. /\ HAVE_FREE_LOCK \in BOOLEAN /\ have_lock_ext \in BOOLEAN /\ needRai \in BOOLEAN
          /\ told \in BOOLEAN /\ user_lock_state \in BOOLEAN
      BY Zenon DEF Init
    <2>2. dspLock \in BOOLEAN
      <3>1. dspLock = user_lock_state
        BY Zenon DEF Init
      <3> QED  BY <2>1, <3>1, Zenon
    <2>3. dsp \in BOOLEAN
      <3>1. dsp = ~ DynamicLoad
        BY Zenon DEF Init
      <3> QED  BY <3>1, Zenon
    <2>4. timer_call \in {"none", "start", "stop"}
      BY DEF Init
    <2>5. rai \in [pc : {"none", "check", "wait", "exit"}, delay_num : 0 .. MaxWait]
      <3>1. rai = [pc |-> "none", delay_num |-> 0]
        BY Zenon DEF Init
      <3> QED  BY <3>1, BoundAssumption
    <2> QED  BY <1>1, <2>1, <2>2, <2>3, <2>4, <2>5, Zenon DEF LockTypeOK
  <1>3. RestTypeOK
    <2>1. at_lock \in BOOLEAN /\ callback \in BOOLEAN /\ asserted \in BOOLEAN
      BY Zenon DEF Init
    <2>2. timer \in {"none", "idle", "running"}
      BY Zenon DEF Init
    <2>3. cmdq \in Seq({"start", "stop"})
      <3>1. cmdq = << >>
        BY Zenon DEF Init
      <3> QED  BY <3>1
    <2>4. at \in [pc : {"idle", "delay", "autolock", "handle"},
                  cmd : {"boot", "other", "lock", "unlock", "register", "deregister"}]
      <3>1. at \in {[pc |-> "delay", cmd |-> "boot"], [pc |-> "idle", cmd |-> "boot"]}
        BY Zenon DEF Init
      <3> QED  BY <3>1
    <2>5. hold \in [User -> 0 .. MaxHold]
      <3>1. hold = [u \in User |-> 0]
        BY Zenon DEF Init
      <3> QED  BY <3>1, BoundAssumption
    <2> QED  BY <2>1, <2>2, <2>3, <2>4, <2>5, Zenon DEF RestTypeOK
  <1>4. LockInv
    <2>1. ~ DynamicLoad => dsp
      <3>1. dsp = ~ DynamicLoad
        BY Zenon DEF Init
      <3> QED  BY <3>1, Zenon
    <2>2. told = FALSE
      BY Zenon DEF Init
    <2> QED
      BY <1>1, <2>1, <2>2
      DEF LockInv, FreeMeansNone, AlwaysLoaded, KnowsOfLock, DspKnowsOfLock, DspKnowsOfRelease
  <1> QED  BY <1>2, <1>3, <1>4 DEF IInv

\* Every step keeps the invariant.
LEMMA NextInv == IInv /\ [Next]_vars => IInv'
PROOF
  <1> SUFFICES ASSUME IInv, [Next]_vars  PROVE IInv'
    OBVIOUS
  <1> USE DEF IInv
  <1>1. ASSUME NEW u \in AppUser \cup LocalUser, xy_work_lock(u)  PROVE IInv'
    <2>1. LockTypeOK' /\ LockInv'
      BY <1>1, TypeOfType, IncreaseKeeps DEF xy_work_lock
    <2>2. RestTypeOK'
      BY <1>1, BoundAssumption DEF xy_work_lock, RestTypeOK, User
    <2> QED  BY <2>1, <2>2
  <1>2. ASSUME NEW u \in AppUser \cup LocalUser, xy_work_unlock(u)  PROVE IInv'
    <2>1. LockTypeOK' /\ LockInv'
      BY <1>2, TypeOfType, DecreaseKeeps DEF xy_work_unlock
    <2>2. RestTypeOK'
      BY <1>2, BoundAssumption DEF xy_work_unlock, RestTypeOK, User
    <2> QED  BY <2>1, <2>2
  <1>3. CASE xy_unlock_all
    <2>1. LockTypeOK' /\ LockInv'
      BY <1>3, UnlockAllKeeps DEF xy_unlock_all
    <2>2. RestTypeOK'
      BY <1>3, BoundAssumption DEF xy_unlock_all, RestTypeOK
    <2> QED  BY <2>1, <2>2
  <1>4. ASSUME NEW cmd \in {"other", "lock", "unlock", "register", "deregister"},
               AtCommand(cmd)
        PROVE  IInv'
    <2>1. UNCHANGED << lockVars, dspVars, raiVars >> /\ timer_call' = timer_call
      BY <1>4 DEF AtCommand, timerVars
    <2>2. LockTypeOK' /\ LockInv'
      BY <2>1, OthersKeep DEF LockTypeOK
    <2>3. RestTypeOK'
      BY <1>4 DEF AtCommand, RestTypeOK, timerVars
    <2> QED  BY <2>2, <2>3
  <1>5. CASE xy_delaylock_active
    <2>1. RestTypeOK'
      BY <1>5 DEF xy_delaylock_active, RestTypeOK, AtGoto
    <2>2. CASE num["LOCK_EXT"] >= 1 \/ ~ TakesDelay
      <3>1. UNCHANGED << lockVars, dspVars, raiVars >> /\ timer_call' \in {timer_call, "start"}
        BY <1>5, <2>2 DEF xy_delaylock_active, lockVars, raiVars
      <3> QED  BY <2>1, <3>1, OthersKeep DEF LockTypeOK
    <2>3. CASE ~ (num["LOCK_EXT"] >= 1) /\ TakesDelay
      <3>1. /\ num' = [num EXCEPT !["LOCK_DELAY"] = @ + 1]
            /\ HAVE_FREE_LOCK' = FALSE /\ needRai' = FALSE /\ timer_call' = "start"
            /\ UNCHANGED << have_lock_ext, dspVars, rai >>
        BY <1>5, <2>3 DEF xy_delaylock_active
      <3>2. num' \in [LockType -> Nat] /\ DspLocks(num') = DspLocks(num)
        BY <3>1 DEF LockTypeOK, LockType, DspLocks
      <3>3. LockTypeOK'
        BY <3>1, <3>2 DEF LockTypeOK, dspVars
      <3>4. LockInv'
        BY <3>1, <3>2 DEF LockInv, dspVars, FreeMeansNone, AlwaysLoaded, KnowsOfLock,
                          DspKnowsOfLock, DspKnowsOfRelease
      <3> QED  BY <2>1, <3>3, <3>4
    <2> QED  BY <2>2, <2>3
  <1>6. CASE set_lock_by_MCU_at
    <2>1. RestTypeOK'
      BY <1>6 DEF set_lock_by_MCU_at, RestTypeOK, AtGoto
    <2>2. CASE ~ OPERATION_VER /\ ~ at_lock
      BY <1>6, <2>1, <2>2, IncreaseKeeps DEF set_lock_by_MCU_at, LockType
    <2>3. CASE ~ (~ OPERATION_VER /\ ~ at_lock)
      <3>1. UNCHANGED << lockVars, dspVars, raiVars >> /\ timer_call' = timer_call
        BY <1>6, <2>3 DEF set_lock_by_MCU_at
      <3> QED  BY <2>1, <3>1, OthersKeep DEF LockTypeOK
    <2> QED  BY <2>2, <2>3
  <1>7. CASE AtHandle
    <2>1. hold' \in [User -> 0 .. MaxHold]
      BY <1>7, BoundAssumption DEF AtHandle, AtLock, AtUnlock, RestTypeOK, User
    <2>2. RestTypeOK'
      BY <1>7, <2>1 DEF AtHandle, AtGoto, RestTypeOK
    <2>3. \/ increase_worklock("LOCK_EXT") \/ decrease_worklock("LOCK_EXT")
          \/ UNCHANGED << lockVars, dspVars, raiVars, timer_call >>
      BY <1>7 DEF AtHandle, AtLock, AtUnlock
    <2>4. LockTypeOK' /\ LockInv'
      BY <2>3, IncreaseKeeps, DecreaseKeeps, OthersKeep DEF LockType, LockTypeOK
    <2> QED  BY <2>2, <2>4
  <1>8. CASE TimerCall
    <2>1. UNCHANGED << lockVars, dspVars, raiVars >> /\ timer_call' = "none"
      BY <1>8 DEF TimerCall
    <2>2. LockTypeOK' /\ LockInv'
      BY <2>1, OthersKeep
    <2>3. cmdq' \in Seq({"start", "stop"})
      <3>1. timer_call \in {"start", "stop"} /\ cmdq \in Seq({"start", "stop"})
        BY <1>8 DEF TimerCall, RestTypeOK, LockTypeOK
      <3>2. cmdq' = cmdq \/ cmdq' = Append(cmdq, timer_call)
        BY <1>8 DEF TimerCall
      <3> QED  BY <3>1, <3>2
    <2>4. RestTypeOK'
      BY <1>8, <2>3 DEF TimerCall, RestTypeOK
    <2> QED  BY <2>2, <2>4
  <1>9. CASE TimerCommand \/ TimerExpires
    <2>1. UNCHANGED << lockVars, dspVars, raiVars, timer_call >>
      BY <1>9 DEF TimerCommand, TimerExpires
    <2>2. LockTypeOK' /\ LockInv'
      BY <2>1, OthersKeep DEF LockTypeOK
    <2>3. /\ cmdq' \in Seq({"start", "stop"}) /\ timer' \in {"none", "idle", "running"}
          /\ callback' \in BOOLEAN
      <3>1. cmdq \in Seq({"start", "stop"}) /\ callback \in BOOLEAN
        BY DEF RestTypeOK
      <3>2. CASE TimerCommand
        <4>1. cmdq # << >> /\ cmdq' = Tail(cmdq) /\ callback' = callback
          BY <3>2 DEF TimerCommand
        <4>2. timer' \in {"none", "idle", "running"}
          BY <3>2 DEF TimerCommand
        <4> QED  BY <3>1, <4>1, <4>2
      <3>3. CASE TimerExpires
        BY <3>1, <3>3 DEF TimerExpires
      <3> QED  BY <1>9, <3>2, <3>3
    <2>4. UNCHANGED << at_lock, asserted, at, hold >>
      BY <1>9 DEF TimerCommand, TimerExpires
    <2>5. RestTypeOK'
      BY <2>3, <2>4 DEF RestTypeOK
    <2> QED  BY <2>2, <2>5
  <1>10. CASE deepsleep_delay_callback
    <2>1. LockTypeOK' /\ LockInv'
      BY <1>10, DecreaseKeeps DEF deepsleep_delay_callback, LockType
    <2>2. RestTypeOK'
      BY <1>10 DEF deepsleep_delay_callback, RestTypeOK
    <2> QED  BY <2>1, <2>2
  <1>11. CASE RaiStep
    <2>1. RestTypeOK'
      BY <1>11 DEF RaiStep, RaiSends, RaiWaits, RaiWakes, RaiGivesUp, RaiEnds, timerVars,
                   RestTypeOK
    <2> QED  BY <1>11, <2>1, RaiKeeps
  <1>12. CASE dynamic_load_up_dsp \/ shut_down_dspcore_process
    <2>1. DynamicLoad /\ UNCHANGED << lockVars, raiVars, timer_call, user_lock_state >>
      BY <1>12 DEF dynamic_load_up_dsp, shut_down_dspcore_process, timerVars
    <2>2. /\ dsp' \in BOOLEAN /\ dspLock' \in BOOLEAN /\ told' \in BOOLEAN
          /\ ~ (dsp' /\ told')
      BY <1>12 DEF dynamic_load_up_dsp, shut_down_dspcore_process, LockTypeOK
    <2>3. LockTypeOK'
      BY <2>1, <2>2 DEF LockTypeOK, lockVars, raiVars
    <2>4. LockInv'
      BY <2>1, <2>2 DEF LockInv, FreeMeansNone, AlwaysLoaded, KnowsOfLock,
                        DspKnowsOfRelease, lockVars
    <2>5. RestTypeOK'
      BY <1>12 DEF dynamic_load_up_dsp, shut_down_dspcore_process, timerVars, RestTypeOK
    <2> QED  BY <2>3, <2>4, <2>5
  <1>13. CASE UNCHANGED vars
    <2>1. UNCHANGED << lockVars, dspVars, raiVars, timer_call >>
      BY <1>13 DEF vars, timerVars
    <2>2. LockTypeOK' /\ LockInv'
      BY <2>1, OthersKeep DEF LockTypeOK
    <2>3. RestTypeOK'
      BY <1>13 DEF vars, timerVars, RestTypeOK
    <2> QED  BY <2>2, <2>3
  <1> QED
    BY <1>1, <1>2, <1>3, <1>4, <1>5, <1>6, <1>7, <1>8, <1>9, <1>10, <1>11, <1>12, <1>13
    DEF Next, AtStep, TimerStep

\* The invariant holds in every state.
LEMMA Invariance == Spec => []IInv
BY InitInv, NextInv, PTL DEF Spec

-----------------------------------------------------------------------------
(* Users who give back the locks that they ask for                            *)

\* The locks asked for by the users U and not given back, one by one.
HeldBy(h, U) == {p \in U \X (1 .. MaxHold) : p[2] <= h[p[1]]}

\* As many locks are counted as the users have asked for.
CountsMatch(n, h, U) == IsFiniteSet(HeldBy(h, U)) /\ n = Cardinality(HeldBy(h, U))

\* The MCU's locks are covered by LOCK_EXT: its first lock by the one that the
\* first AT command has taken.
McuInv ==
  /\ hold[Mcu] <= num["LOCK_EXT"]
  /\ hold[Cdp] = 0
  /\ at.cmd \notin {"register", "deregister"}
  /\ have_lock_ext => at_lock
  /\ ~ have_lock_ext => hold[Mcu] = 0 /\ num["LOCK_EXT"] = IF at_lock THEN 1 ELSE 0
  /\ at.pc = "handle" => at_lock

UsersInv ==
  /\ CountsMatch(num["LOCK_DEFAULT"], hold, AppUser)
  /\ CountsMatch(num["LOCK_XY_LOCAL"], hold, LocalUser)
  /\ McuInv

\* One more lock of one user is one more lock of all.
LEMMA HeldGrows ==
  ASSUME NEW U, NEW u \in U, NEW h \in [User -> 0 .. MaxHold], U \subseteq User,
         h[u] < MaxHold, NEW n, CountsMatch(n, h, U)
  PROVE  CountsMatch(n + 1, [h EXCEPT ![u] = @ + 1], U)
PROOF
  <1> DEFINE k == [h EXCEPT ![u] = @ + 1]
             new == << u, h[u] + 1 >>
  <1>1. h[u] \in 0 .. MaxHold /\ h[u] + 1 \in 1 .. MaxHold
    BY BoundAssumption
  <1>2. new \in U \X (1 .. MaxHold) /\ new \notin HeldBy(h, U)
    BY <1>1 DEF HeldBy
  <1>3. ASSUME NEW p \in U \X (1 .. MaxHold)
        PROVE  p[2] <= k[p[1]] <=> (p[2] <= h[p[1]] \/ p = new)
    <2>1. PICK a \in U, b \in 1 .. MaxHold : p = << a, b >>
      BY <1>3
    <2>2. h[a] \in 0 .. MaxHold /\ k[a] = IF a = u THEN h[u] + 1 ELSE h[a]
      OBVIOUS
    <2>3. b <= k[a] <=> (b <= h[a] \/ (a = u /\ b = h[u] + 1))
      BY <1>1, <2>2, BoundAssumption
    <2> QED  BY <2>1, <2>3
  <1>4. HeldBy(k, U) = HeldBy(h, U) \cup {new}
    BY <1>2, <1>3 DEF HeldBy
  <1>5. IsFiniteSet(HeldBy(h, U)) /\ n = Cardinality(HeldBy(h, U))
    BY DEF CountsMatch
  <1>6. /\ IsFiniteSet(HeldBy(h, U) \cup {new})
        /\ Cardinality(HeldBy(h, U) \cup {new}) = n + 1
    BY <1>2, <1>5, FS_AddElement
  <1> QED  BY <1>4, <1>6 DEF CountsMatch

\* A user who holds a lock is counted.
LEMMA HeldCounts ==
  ASSUME NEW U, NEW u \in U, NEW h \in [User -> 0 .. MaxHold], U \subseteq User,
         h[u] > 0, NEW n, CountsMatch(n, h, U)
  PROVE  n \in Nat /\ n # 0 /\ << u, h[u] >> \in HeldBy(h, U)
PROOF
  <1>1. h[u] \in 1 .. MaxHold
    BY BoundAssumption
  <1>2. << u, h[u] >> \in HeldBy(h, U)
    BY <1>1 DEF HeldBy
  <1> QED  BY <1>2, FS_EmptySet, FS_CardinalityType DEF CountsMatch

\* One lock less of one user is one less of all.
LEMMA HeldShrinks ==
  ASSUME NEW U, NEW u \in U, NEW h \in [User -> 0 .. MaxHold], U \subseteq User,
         h[u] > 0, NEW n, CountsMatch(n, h, U)
  PROVE  CountsMatch(n - 1, [h EXCEPT ![u] = @ - 1], U)
PROOF
  <1> DEFINE k == [h EXCEPT ![u] = @ - 1]
             old == << u, h[u] >>
  <1>1. h[u] \in 0 .. MaxHold /\ MaxHold \in Nat
    BY BoundAssumption
  <1>2. old \in HeldBy(h, U)
    BY HeldCounts
  <1>3. ASSUME NEW p \in U \X (1 .. MaxHold)
        PROVE  p[2] <= k[p[1]] <=> (p[2] <= h[p[1]] /\ p # old)
    <2>1. PICK a \in U, b \in 1 .. MaxHold : p = << a, b >>
      BY <1>3
    <2>2. h[a] \in 0 .. MaxHold /\ k[a] = IF a = u THEN h[u] - 1 ELSE h[a]
      OBVIOUS
    <2>3. b <= k[a] <=> (b <= h[a] /\ ~ (a = u /\ b = h[u]))
      BY <1>1, <2>2
    <2> QED  BY <2>1, <2>3
  <1>4. HeldBy(k, U) = HeldBy(h, U) \ {old}
    BY <1>3 DEF HeldBy
  <1>5. IsFiniteSet(HeldBy(h, U)) /\ n = Cardinality(HeldBy(h, U))
    BY DEF CountsMatch
  <1>6. /\ IsFiniteSet(HeldBy(h, U) \ {old})
        /\ Cardinality(HeldBy(h, U) \ {old}) = n - 1
    BY <1>2, <1>5, FS_RemoveElement
  <1> QED  BY <1>4, <1>6 DEF CountsMatch

\* The locks of other users do not matter.
LEMMA HeldSame ==
  ASSUME NEW U, NEW n, NEW h, NEW k, \A u \in U : k[u] = h[u], CountsMatch(n, h, U)
  PROVE  CountsMatch(n, k, U)
PROOF
  <1>1. HeldBy(k, U) = HeldBy(h, U)
    <2>1. \A p \in U \X (1 .. MaxHold) : k[p[1]] = h[p[1]]
      OBVIOUS
    <2> QED  BY <2>1 DEF HeldBy
  <1> QED  BY <1>1 DEF CountsMatch

\* What the two handlers do to the counts of the locks that do not expire.
LEMMA IncreaseNums ==
  ASSUME NEW type \in LockType \ {"LOCK_DELAY"}, num \in [LockType -> Nat],
         increase_worklock(type)
  PROVE  /\ \A t \in LockType \ {type, "LOCK_DELAY"} : num'[t] = num[t]
         /\ FirstExt(type) => num' = num /\ have_lock_ext' = TRUE
         /\ ~ FirstExt(type) => /\ num'[type] = num[type] + 1
                                /\ have_lock_ext' = have_lock_ext
BY DEF increase_worklock, Suspended, LockType

\* decrease_worklock counts one down, of its type, and at most ends the delay lock.
LEMMA DecreaseNums ==
  ASSUME NEW type \in LockType, num \in [LockType -> Nat], have_lock_ext \in BOOLEAN,
         decrease_worklock(type)
  PROVE  /\ \A t \in LockType \ {type, "LOCK_DELAY"} : num'[t] = num[t]
         /\ type # "LOCK_DELAY" =>
              num'[type] = IF num[type] > 0 THEN num[type] - 1 ELSE 0
         /\ type # "LOCK_EXT" => have_lock_ext' = have_lock_ext
         /\ type = "LOCK_EXT" /\ ~ have_lock_ext' => ~ have_lock_ext /\ num[type] # 1
PROOF
  <1>1. /\ \A t \in LockType \ {type, "LOCK_DELAY"} : num'[t] = num[t]
        /\ type # "LOCK_DELAY" =>
             num'[type] = IF num[type] > 0 THEN num[type] - 1 ELSE 0
    BY DEF decrease_worklock, Released, Suspended, LockType
  <1>2. have_lock_ext' = ExtSeen(type)
    BY DEF decrease_worklock
  <1>3. /\ type # "LOCK_EXT" => have_lock_ext' = have_lock_ext
        /\ type = "LOCK_EXT" /\ ~ have_lock_ext' => ~ have_lock_ext /\ num[type] # 1
    BY <1>2, Zenon DEF ExtSeen
  <1> QED  BY <1>1, <1>3

\* At first nothing is counted and nobody has asked.
LEMMA UsersInit == Init => UsersInv
PROOF
  <1> SUFFICES ASSUME Init  PROVE UsersInv
    OBVIOUS
  <1>1. hold = [u \in User |-> 0] /\ num = [type \in LockType |-> 0]
    BY Zenon DEF Init
  <1>2. ASSUME NEW U, U \subseteq User  PROVE CountsMatch(0, hold, U)
    <2>1. HeldBy(hold, U) = {}
      BY <1>1, <1>2, BoundAssumption DEF HeldBy
    <2> QED  BY <2>1, FS_EmptySet DEF CountsMatch
  <1>3. AppUser \subseteq User /\ LocalUser \subseteq User /\ Mcu \in User /\ Cdp \in User
    BY DEF User
  <1>4. McuInv
    <2>1. hold[Mcu] = 0 /\ hold[Cdp] = 0 /\ num["LOCK_EXT"] = 0
      BY <1>1, <1>3 DEF LockType
    <2>2. at.cmd = "boot" /\ at.pc # "handle"
      <3>1. at \in {[pc |-> "delay", cmd |-> "boot"], [pc |-> "idle", cmd |-> "boot"]}
        BY Zenon DEF Init
      <3> QED  BY <3>1
    <2>3. have_lock_ext = FALSE /\ at_lock = FALSE
      BY Zenon DEF Init
    <2> QED  BY <2>1, <2>2, <2>3 DEF McuInv
  <1>5. num["LOCK_DEFAULT"] = 0 /\ num["LOCK_XY_LOCAL"] = 0
    BY <1>1 DEF LockType
  <1> QED  BY <1>2, <1>3, <1>4, <1>5 DEF UsersInv

\* Steps that leave the counts of these locks and their users alone.
LEMMA UsersSame ==
  ASSUME UsersInv, UNCHANGED << have_lock_ext, at_lock, hold >>,
         \A t \in LockType \ {"LOCK_DELAY"} : num'[t] = num[t],
         at'.cmd \notin {"register", "deregister"}, at'.pc = "handle" => at_lock
  PROVE  UsersInv'
BY DEF UsersInv, McuInv, LockType, CountsMatch, HeldBy

\* A lock of an application or of a platform thread.
LEMMA UserStep ==
  ASSUME ~ OPERATION_VER, IInv, UsersInv, NEW u \in AppUser \cup LocalUser,
         xy_work_lock(u) \/ xy_work_unlock(u)
  PROVE  UsersInv'
PROOF
  <1> DEFINE type == TypeOf(u)
             Mine == IF u \in AppUser THEN AppUser ELSE LocalUser
             Others == IF u \in AppUser THEN LocalUser ELSE AppUser
             other == IF u \in AppUser THEN "LOCK_XY_LOCAL" ELSE "LOCK_DEFAULT"
  <1>1. /\ num \in [LockType -> Nat] /\ hold \in [User -> 0 .. MaxHold]
        /\ have_lock_ext \in BOOLEAN
        /\ u \in User /\ u \in Mine /\ u \notin Others /\ u # Mcu /\ u # Cdp
        /\ Mine \subseteq User /\ Others \subseteq User /\ Mcu \in User /\ Cdp \in User
    BY UserAssumption DEF IInv, LockTypeOK, RestTypeOK, User
  <1>2. /\ type = IF u \in AppUser THEN "LOCK_DEFAULT" ELSE "LOCK_XY_LOCAL"
        /\ type \in LockType \ {"LOCK_DELAY"} /\ type # "LOCK_EXT" /\ type # other
        /\ other \in LockType \ {"LOCK_DELAY", "LOCK_EXT"}
        /\ "LOCK_EXT" \in LockType \ {type, "LOCK_DELAY"}
    BY DEF TypeOf, LockType
  <1>3. CountsMatch(num[type], hold, Mine) /\ CountsMatch(num[other], hold, Others)
    BY <1>2 DEF UsersInv
  <1>4. UNCHANGED << at_lock, at >> /\ \A v \in User \ {u} : hold'[v] = hold[v]
    BY <1>1 DEF xy_work_lock, xy_work_unlock
  <1>5. CountsMatch(num'[type], hold', Mine) /\ num'[other] = num[other]
        /\ num'["LOCK_EXT"] = num["LOCK_EXT"] /\ have_lock_ext' = have_lock_ext
    <2>1. CASE xy_work_lock(u)
      <3>1. increase_worklock(type) /\ hold[u] < MaxHold /\ hold' = [hold EXCEPT ![u] = @ + 1]
        BY <2>1 DEF xy_work_lock
      <3>2. ~ FirstExt(type)
        BY <1>2 DEF FirstExt
      <3>3. /\ num'[type] = num[type] + 1 /\ have_lock_ext' = have_lock_ext
            /\ num'[other] = num[other] /\ num'["LOCK_EXT"] = num["LOCK_EXT"]
        BY <1>1, <1>2, <3>1, <3>2, IncreaseNums
      <3>4. CountsMatch(num[type] + 1, hold', Mine)
        BY <1>1, <1>3, <3>1, HeldGrows
      <3> QED  BY <3>3, <3>4
    <2>2. CASE xy_work_unlock(u)
      <3>1. decrease_worklock(type) /\ hold[u] > 0 /\ hold' = [hold EXCEPT ![u] = @ - 1]
        BY <2>2 DEF xy_work_unlock
      <3>2. num[type] > 0 /\ CountsMatch(num[type] - 1, hold', Mine)
        <4>1. num[type] # 0
          BY <1>1, <1>3, <3>1, HeldCounts
        <4>2. CountsMatch(num[type] - 1, hold', Mine)
          BY <1>1, <1>3, <3>1, HeldShrinks
        <4> QED  BY <1>1, <1>2, <4>1, <4>2
      <3>3. /\ num'[type] = num[type] - 1 /\ have_lock_ext' = have_lock_ext
            /\ num'[other] = num[other] /\ num'["LOCK_EXT"] = num["LOCK_EXT"]
        BY <1>1, <1>2, <3>1, <3>2, DecreaseNums
      <3> QED  BY <3>2, <3>3
    <2> QED  BY <2>1, <2>2
  <1>6. CountsMatch(num'[other], hold', Others)
    <2>1. \A v \in Others : hold'[v] = hold[v]
      BY <1>1, <1>4
    <2> QED  BY <1>3, <1>5, <2>1, HeldSame
  <1>7. McuInv'
    BY <1>1, <1>4, <1>5 DEF UsersInv, McuInv
  <1>8. /\ CountsMatch(num'["LOCK_DEFAULT"], hold', AppUser)
        /\ CountsMatch(num'["LOCK_XY_LOCAL"], hold', LocalUser)
    BY <1>2, <1>5, <1>6
  <1> QED  BY <1>7, <1>8 DEF UsersInv, CountsMatch, HeldBy

\* A step of at_ctl that takes or gives back LOCK_EXT for the MCU.
LEMMA McuStep ==
  ASSUME IInv, UsersInv, \A t \in {"LOCK_DEFAULT", "LOCK_XY_LOCAL"} : num'[t] = num[t],
         \A v \in User \ {Mcu} : hold'[v] = hold[v], McuInv'
  PROVE  UsersInv'
PROOF
  <1>1. /\ \A v \in AppUser : hold'[v] = hold[v]
        /\ \A v \in LocalUser : hold'[v] = hold[v]
    BY UserAssumption DEF User
  <1>2. /\ CountsMatch(num'["LOCK_DEFAULT"], hold', AppUser)
        /\ CountsMatch(num'["LOCK_XY_LOCAL"], hold', LocalUser)
    BY <1>1, HeldSame DEF UsersInv
  <1> QED  BY <1>2 DEF UsersInv, CountsMatch, HeldBy

\* Who is counted stays who has asked, in every step.
LEMMA UsersNext ==
  ASSUME ~ OPERATION_VER, ~ UnlockAll, IInv, UsersInv, [Next]_vars
  PROVE  UsersInv'
PROOF
  <1>1. /\ num \in [LockType -> Nat] /\ hold \in [User -> 0 .. MaxHold]
        /\ Mcu \in User /\ Cdp \in User /\ Mcu # Cdp
        /\ hold[Mcu] \in 0 .. MaxHold /\ num["LOCK_EXT"] \in Nat
        /\ have_lock_ext \in BOOLEAN /\ at_lock \in BOOLEAN
        /\ at \in [pc : {"idle", "delay", "autolock", "handle"},
                   cmd : {"boot", "other", "lock", "unlock", "register", "deregister"}]
    BY UserAssumption DEF IInv, LockTypeOK, RestTypeOK, User, LockType
  <1>2. /\ at.cmd \notin {"register", "deregister"} /\ (at.pc = "handle" => at_lock)
        /\ McuInv
    BY DEF UsersInv, McuInv
  <1>3. /\ "LOCK_EXT" \in LockType \ {"LOCK_DELAY"}
        /\ "LOCK_DEFAULT" \in LockType \ {"LOCK_EXT", "LOCK_DELAY"}
        /\ "LOCK_XY_LOCAL" \in LockType \ {"LOCK_EXT", "LOCK_DELAY"}
    BY DEF LockType
  <1>4. ASSUME NEW u \in AppUser \cup LocalUser, xy_work_lock(u) \/ xy_work_unlock(u)
        PROVE  UsersInv'
    BY <1>4, UserStep
  <1>5. ASSUME NEW cmd \in {"other", "lock", "unlock", "register", "deregister"},
               AtCommand(cmd)
        PROVE  UsersInv'
    <2>1. at'.cmd \notin {"register", "deregister"} /\ at'.pc = "delay"
      BY <1>5 DEF AtCommand
    <2>2. UNCHANGED << have_lock_ext, at_lock, hold, num >>
      BY <1>5 DEF AtCommand, lockVars
    <2> QED  BY <2>1, <2>2, UsersSame
  <1>6. CASE xy_delaylock_active
    <2>1. at'.cmd = at.cmd /\ at'.pc # "handle"
      BY <1>1, <1>6 DEF xy_delaylock_active, AtGoto
    <2>2. UNCHANGED << have_lock_ext, at_lock, hold >>
      BY <1>6 DEF xy_delaylock_active, lockVars
    <2>3. num' = num \/ num' = [num EXCEPT !["LOCK_DELAY"] = @ + 1]
      BY <1>6 DEF xy_delaylock_active, lockVars
    <2>4. \A t \in LockType \ {"LOCK_DELAY"} : num'[t] = num[t]
      BY <1>1, <2>3
    <2> QED  BY <1>2, <2>1, <2>2, <2>4, UsersSame
  <1>7. CASE set_lock_by_MCU_at
    <2>1. at'.cmd = at.cmd /\ hold' = hold
      BY <1>1, <1>7 DEF set_lock_by_MCU_at, AtGoto
    <2>2. CASE at_lock
      <3>1. UNCHANGED << num, have_lock_ext, at_lock >>
        BY <1>7, <2>2 DEF set_lock_by_MCU_at, lockVars
      <3> QED  BY <1>2, <2>1, <2>2, <3>1, UsersSame
    <2>3. CASE ~ at_lock
      <3>1. increase_worklock("LOCK_EXT") /\ at_lock' = TRUE
        BY <1>7, <2>3 DEF set_lock_by_MCU_at
      <3>2. ~ have_lock_ext /\ num["LOCK_EXT"] = 0 /\ hold[Mcu] = 0 /\ hold[Cdp] = 0
        BY <1>1, <1>2, <2>3 DEF McuInv
      <3>3. ~ FirstExt("LOCK_EXT")
        BY <3>2 DEF FirstExt
      <3>4. /\ num'["LOCK_EXT"] = 1 /\ have_lock_ext' = have_lock_ext
            /\ \A t \in {"LOCK_DEFAULT", "LOCK_XY_LOCAL"} : num'[t] = num[t]
        <4>1. num'["LOCK_EXT"] = num["LOCK_EXT"] + 1 /\ have_lock_ext' = have_lock_ext
          BY <1>1, <1>3, <3>1, <3>3, IncreaseNums
        <4>2. \A t \in {"LOCK_DEFAULT", "LOCK_XY_LOCAL"} : num'[t] = num[t]
          BY <1>1, <1>3, <3>1, IncreaseNums
        <4> QED  BY <3>2, <4>1, <4>2
      <3>5. McuInv'
        BY <1>2, <2>1, <3>1, <3>2, <3>4 DEF McuInv
      <3> QED  BY <2>1, <3>4, <3>5, McuStep
    <2> QED  BY <2>2, <2>3
  <1>8. CASE AtHandle
    <2>1. at'.cmd = at.cmd /\ at'.pc = "idle" /\ at_lock' = at_lock /\ at_lock
      BY <1>1, <1>2, <1>8 DEF AtHandle, AtGoto
    <2>2. CASE AtLock(Mcu, "lock")
      <3>1. increase_worklock("LOCK_EXT") /\ hold' = [hold EXCEPT ![Mcu] = @ + 1]
        BY <2>2 DEF AtLock
      <3>2. /\ hold'[Mcu] = hold[Mcu] + 1 /\ hold'[Cdp] = hold[Cdp]
            /\ \A v \in User \ {Mcu} : hold'[v] = hold[v]
        BY <1>1, <3>1
      <3>3. \A t \in {"LOCK_DEFAULT", "LOCK_XY_LOCAL"} : num'[t] = num[t]
        BY <1>1, <1>3, <3>1, IncreaseNums
      <3>4. CASE FirstExt("LOCK_EXT")
        <4>1. num'["LOCK_EXT"] = 1 /\ have_lock_ext' = TRUE /\ hold[Mcu] = 0
          BY <1>1, <1>2, <1>3, <3>1, <3>4, IncreaseNums DEF FirstExt, McuInv
        <4>2. McuInv'
          BY <1>2, <2>1, <3>2, <4>1 DEF McuInv
        <4> QED  BY <3>2, <3>3, <4>2, McuStep
      <3>5. CASE ~ FirstExt("LOCK_EXT")
        <4>1. num'["LOCK_EXT"] = num["LOCK_EXT"] + 1 /\ have_lock_ext' = have_lock_ext
          BY <1>1, <1>3, <3>1, <3>5, IncreaseNums
        <4>2. have_lock_ext
          BY <1>2, <2>1, <3>5 DEF FirstExt, McuInv
        <4>3. McuInv'
          BY <1>1, <1>2, <2>1, <3>2, <4>1, <4>2 DEF McuInv
        <4> QED  BY <3>2, <3>3, <4>3, McuStep
      <3> QED  BY <3>4, <3>5
    <2>3. CASE AtUnlock(Mcu, "unlock")
      <3>1. /\ decrease_worklock("LOCK_EXT")
            /\ hold' = [hold EXCEPT ![Mcu] = IF @ > 0 THEN @ - 1 ELSE 0]
        BY <2>3 DEF AtUnlock
      <3>2. /\ hold'[Mcu] = (IF hold[Mcu] > 0 THEN hold[Mcu] - 1 ELSE 0)
            /\ hold'[Cdp] = hold[Cdp]
            /\ \A v \in User \ {Mcu} : hold'[v] = hold[v]
        BY <1>1, <3>1
      <3>3. /\ \A t \in {"LOCK_DEFAULT", "LOCK_XY_LOCAL"} : num'[t] = num[t]
            /\ num'["LOCK_EXT"] = IF num["LOCK_EXT"] > 0 THEN num["LOCK_EXT"] - 1 ELSE 0
            /\ ~ have_lock_ext' => ~ have_lock_ext /\ num["LOCK_EXT"] # 1
        BY <1>1, <1>3, <3>1, DecreaseNums
      <3>4. have_lock_ext'
        BY <1>2, <2>1, <3>3 DEF McuInv
      <3>5. McuInv'
        BY <1>1, <1>2, <2>1, <3>2, <3>3, <3>4 DEF McuInv
      <3> QED  BY <3>2, <3>3, <3>5, McuStep
    <2>4. CASE UNCHANGED << lockVars, hold >>
      BY <1>2, <2>1, <2>4, UsersSame DEF lockVars
    <2> QED
      BY <1>2, <1>8, <2>2, <2>3, <2>4 DEF AtHandle, AtLock, AtUnlock
  <1>9. CASE deepsleep_delay_callback
    <2>1. decrease_worklock("LOCK_DELAY") /\ UNCHANGED << at_lock, at, hold >>
      BY <1>9 DEF deepsleep_delay_callback
    <2>2. /\ \A t \in LockType \ {"LOCK_DELAY"} : num'[t] = num[t]
          /\ have_lock_ext' = have_lock_ext
      BY <1>1, <2>1, DecreaseNums DEF LockType
    <2> QED  BY <1>2, <2>1, <2>2, UsersSame
  <1>10. CASE \/ TimerCall \/ TimerCommand \/ TimerExpires \/ RaiStep
              \/ dynamic_load_up_dsp \/ shut_down_dspcore_process \/ UNCHANGED vars
    <2>1. UNCHANGED << num, have_lock_ext, at_lock, at, hold >>
      BY <1>10
      DEF TimerCall, TimerCommand, TimerExpires, RaiStep, RaiSends, RaiWaits, RaiWakes,
          RaiGivesUp, RaiEnds, dynamic_load_up_dsp, shut_down_dspcore_process, vars, lockVars
    <2> QED  BY <1>2, <2>1, UsersSame
  <1>11. ~ xy_unlock_all
    BY DEF xy_unlock_all
  <1> QED
    BY <1>4, <1>5, <1>6, <1>7, <1>8, <1>9, <1>10, <1>11 DEF Next, AtStep, TimerStep

-----------------------------------------------------------------------------
(* The theorems                                                               *)

\* Counts stay natural numbers, however locks and releases of at_worklock.c are
\* mixed.
THEOREM TypeCorrect == Spec => []TypeOK
PROOF
  <1>1. IInv => TypeOK
    BY TypeSplit DEF IInv
  <1> QED  BY <1>1, Invariance, PTL

\* at_worklock.c:281 and 361: deep sleep is never allowed while a lock is
\* counted.
THEOREM NoLockWhenFree == Spec => []FreeMeansNone
PROOF
  <1>1. IInv => FreeMeansNone
    BY DEF IInv, LockInv
  <1> QED  BY <1>1, Invariance, PTL

\* at_worklock.c:219: a DSP that is always loaded knows of every lock.
THEOREM DspKnowsLock == ~ DynamicLoad => (Spec => []DspKnowsOfLock)
PROOF
  <1> SUFFICES ASSUME ~ DynamicLoad  PROVE Spec => []DspKnowsOfLock
    OBVIOUS
  <1>1. IInv => DspKnowsOfLock
    BY DEF IInv, LockInv, KnowsOfLock
  <1> QED  BY <1>1, Invariance, PTL

\* at_worklock.c:254: the DSP is told of the release of the last lock.
THEOREM DspKnowsRelease == Spec => []DspKnowsOfRelease
PROOF
  <1>1. IInv => DspKnowsOfRelease
    BY DEF IInv, LockInv
  <1> QED  BY <1>1, Invariance, PTL

\* at_worklock.c:279-281: whichever lock is the last to go, its release allows
\* deep sleep.
THEOREM LastReleaseAllows == Spec => LastReleaseFrees
PROOF
  <1> DEFINE Frees == Locks(num) # 0 /\ Locks(num') = 0 => HAVE_FREE_LOCK'
  <1>1. IInv /\ [Next]_vars => Frees
    <2> SUFFICES ASSUME IInv, [Next]_vars  PROVE Frees
      OBVIOUS
    <2> USE DEF IInv
    <2>1. ASSUME NEW type \in LockType, increase_worklock(type)  PROVE Frees
      BY <2>1, IncreaseCounts DEF LockTypeOK
    <2>2. ASSUME NEW type \in LockType, decrease_worklock(type)  PROVE Frees
      BY <2>2 DEF decrease_worklock, LastLock
    <2>3. CASE do_unlock_all
      BY <2>3 DEF do_unlock_all
    <2>4. CASE UNCHANGED num
      BY <2>4
    <2>5. CASE xy_delaylock_active
      <3>1. \/ UNCHANGED num
            \/ num' = [num EXCEPT !["LOCK_DELAY"] = @ + 1]
        BY <2>5 DEF xy_delaylock_active, lockVars
      <3>2. /\ num["LOCK_DEFAULT"] \in Nat /\ num["LOCK_XY_LOCAL"] \in Nat
            /\ num["LOCK_DELAY"] \in Nat /\ num["LOCK_EXT"] \in Nat
        BY DEF LockTypeOK, LockType
      <3> QED  BY <3>1, <3>2 DEF LockTypeOK, LockType, Locks, BusyLocks, DspLocks
    <2>6. \/ \E type \in LockType : increase_worklock(type) \/ decrease_worklock(type)
          \/ do_unlock_all \/ UNCHANGED num \/ xy_delaylock_active
      <3>1. "LOCK_EXT" \in LockType /\ "LOCK_DELAY" \in LockType
        BY DEF LockType
      <3>2. CASE \E u \in AppUser \cup LocalUser : xy_work_lock(u) \/ xy_work_unlock(u)
        BY <3>2, TypeOfType DEF xy_work_lock, xy_work_unlock
      <3>3. CASE xy_unlock_all
        BY <3>3 DEF xy_unlock_all
      <3>4. CASE \E cmd \in {"other", "lock", "unlock", "register", "deregister"} :
                   AtCommand(cmd)
        BY <3>4 DEF AtCommand, lockVars
      <3>5. CASE AtStep
        <4>1. CASE set_lock_by_MCU_at
          BY <3>1, <4>1 DEF set_lock_by_MCU_at, lockVars
        <4>2. CASE AtHandle
          BY <3>1, <4>2 DEF AtHandle, AtLock, AtUnlock, lockVars
        <4> QED  BY <3>5, <4>1, <4>2 DEF AtStep
      <3>6. CASE TimerCall
        BY <3>6 DEF TimerCall, lockVars
      <3>7. CASE TimerStep
        BY <3>1, <3>7 DEF TimerStep, TimerCommand, TimerExpires, deepsleep_delay_callback, lockVars
      <3>8. CASE RaiStep
        BY <3>8 DEF RaiStep, RaiSends, RaiWaits, RaiWakes, RaiGivesUp, RaiEnds, lockVars
      <3>9. CASE dynamic_load_up_dsp \/ shut_down_dspcore_process
        BY <3>9 DEF dynamic_load_up_dsp, shut_down_dspcore_process, lockVars
      <3>10. CASE UNCHANGED vars
        BY <3>10 DEF vars, lockVars
      <3> QED
        BY <3>2, <3>3, <3>4, <3>5, <3>6, <3>7, <3>8, <3>9, <3>10 DEF Next
    <2> QED  BY <2>1, <2>2, <2>3, <2>4, <2>5, <2>6
  <1>2. IInv /\ [Next]_vars => [Locks(num) # 0 /\ Locks(num') = 0 => HAVE_FREE_LOCK']_vars
    BY <1>1
  <1> QED  BY <1>2, Invariance, PTL DEF Spec, LastReleaseFrees

\* xy_system.h:193: if locks are used in pairs and nobody takes them all away,
\* the chip does not fall asleep under a user who holds one, however often the
\* MCU unlocks.
THEOREM UsersStayAwake == ~ OPERATION_VER /\ ~ UnlockAll => (Spec => []UsersKeepAwake)
PROOF
  <1> SUFFICES ASSUME ~ OPERATION_VER, ~ UnlockAll  PROVE Spec => []UsersKeepAwake
    OBVIOUS
  <1>1. IInv /\ UsersInv /\ [Next]_vars => UsersInv'
    BY UsersNext
  <1>2. Spec => []UsersInv
    BY <1>1, UsersInit, Invariance, PTL DEF Spec
  <1>3. IInv /\ UsersInv => UsersKeepAwake
    <2> SUFFICES ASSUME IInv, UsersInv, NEW u \in User, hold[u] > 0, HAVE_FREE_LOCK
                 PROVE  FALSE
      BY DEF UsersKeepAwake
    <2>1. num \in [LockType -> Nat] /\ hold \in [User -> 0 .. MaxHold] /\ Locks(num) = 0
      BY DEF IInv, LockTypeOK, RestTypeOK, LockInv, FreeMeansNone
    <2>2. \A type \in LockType : num[type] = 0
      BY <2>1, Counts
    <2>3. CASE u \in AppUser
      BY <2>1, <2>2, <2>3, HeldCounts DEF UsersInv, User, LockType
    <2>4. CASE u \in LocalUser
      BY <2>1, <2>2, <2>4, HeldCounts DEF UsersInv, User, LockType
    <2>5. CASE u \in {Mcu, Cdp}
      <3>1. hold[Mcu] <= 0 /\ hold[Cdp] = 0
        BY <2>2 DEF UsersInv, McuInv, LockType
      <3> QED  BY <2>1, <2>5, <3>1
    <2> QED  BY <2>3, <2>4, <2>5 DEF User
  <1> QED  BY <1>2, <1>3, Invariance, PTL
=============================================================================
