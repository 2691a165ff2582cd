---------------------------- MODULE NvFtl_proofs ----------------------------
(* Safety of the factory NV region for every number of sectors, all sets of   *)
(* parameters and values, one core or two, and power and voltage that may     *)
(* fail at any step.  Two threads that save at once do lose what the other    *)
(* saved (MCNvFtlLost.cfg), so what is said of copies speaks of one; that     *)
(* damaged data is never served holds of any number while the DSP runs.       *)
EXTENDS NvFtl, FiniteSetTheorems, WellFoundedInduction, TLAPS

OneSaver == \A t, u \in Thread : t = u

-----------------------------------------------------------------------------
(* The sectors                                                                *)

\* Of the sectors S, c has the largest write number, and no other has it too.
Tops(fl, S, c) == /\ c \in S /\ HeadTail(fl[c])
                  /\ \A j \in S \ {c} : HeadTail(fl[j]) => fl[j].num < fl[c].num

\* It is intact besides.
Leads(fl, S, c) == Tops(fl, S, c) /\ fl[c].ok

\* No sector has a head and a write number.
Blank(fl, S) == \A j \in S : ~ HeadTail(fl[j])

\* What xy_choose_valid_ftl settles on, if anything, is intact.
Sound(fl, S) == Blank(fl, S) \/ \E c \in S : Leads(fl, S, c)

\* The newest sector is damaged, and without it the others are sound.
Hides(fl, b) == Tops(fl, Page, b) /\ ~ fl[b].ok /\ Sound(fl, Page \ {b})

\* What passes the checksum was written by a save.
Genuine(fl) == \A i \in Page : Intact(fl[i]) => fl[i].data \in [Field -> Val]

\* The next of several sectors is another one.
LEMMA ModPage ==
  ASSUME NEW S \in Nat, S >= 2, NEW i \in 0 .. S - 1
  PROVE  (i + 1) % S \in 0 .. S - 1 /\ (i + 1) % S # i
  BY Z3

\* A save goes to another sector than the one it started from.
LEMMA NextPageType ==
  /\ \A i \in Page \cup {NoPage} : NextPage(i) \in Page
  /\ \A i \in Page : NextPage(i) # i
  <1>1. NPage \in Nat /\ NPage >= 2
    BY NPageAssumption
  <1>2. NextPage(NoPage) \in Page
    BY <1>1 DEF NextPage, NoPage, Page
  <1>3. ASSUME NEW i \in Page
        PROVE  NextPage(i) \in Page /\ NextPage(i) # i
    <2>1. i \in 0 .. NPage - 1 /\ i # NoPage
      BY <1>1 DEF Page, NoPage
    <2>2. (i + 1) % NPage \in 0 .. NPage - 1 /\ (i + 1) % NPage # i
      BY <1>1, <2>1, ModPage
    <2>3. QED
      BY <2>1, <2>2 DEF NextPage, Page
  <1>4. QED
    BY <1>2, <1>3

\* The order in which the scan prefers sectors: of those with the same write
\* number the last one.
Below(fl, j, i) == fl[j].num < fl[i].num \/ (fl[j].num = fl[i].num /\ j < i)

\* The order is linear.
LEMMA BelowOrders ==
  ASSUME NEW fl \in [Page -> Sector], NEW i \in Page, NEW j \in Page, NEW k \in Page
  PROVE  /\ Below(fl, i, j) \/ Below(fl, j, i) \/ i = j
         /\ ~ (Below(fl, i, j) /\ Below(fl, j, i)) /\ ~ Below(fl, i, i)
         /\ Below(fl, i, j) /\ Below(fl, j, k) => Below(fl, i, k)
  <1>1. /\ fl[i].num \in Int /\ fl[j].num \in Int /\ fl[k].num \in Int
        /\ i \in Int /\ j \in Int /\ k \in Int
    BY NPageAssumption DEF Sector, Page
  <1>2. QED
    BY <1>1 DEF Below

\* Of some sectors, one is the highest: the set of those above a sector shrinks
\* from one to the next.
LEMMA Highest ==
  ASSUME NEW fl \in [Page -> Sector], NEW C \in SUBSET Page, C # {}
  PROVE  \E i \in C : \A j \in C : Below(fl, j, i) \/ j = i
  <1> DEFINE Over(i) == {j \in C : Below(fl, i, j)}
             Overs == {Over(i) : i \in C}
             All == FiniteSubsetsOf(Page)
             Smaller == StrictSubsetOrdering(Page)
  <1>1. IsFiniteSet(Page)
    BY NPageAssumption, FS_Interval DEF Page
  <1>2. Overs \subseteq All /\ Overs # {}
    <2>1. \A i \in C : Over(i) \in SUBSET Page
      OBVIOUS
    <2>2. All = SUBSET Page
      BY <1>1, FS_FiniteSubsetsOfFinite
    <2>3. \A X \in Overs : X \in SUBSET Page
      BY <2>1
    <2>4. PICK i \in C : TRUE
      OBVIOUS
    <2>5. Over(i) \in Overs
      OBVIOUS
    <2> HIDE DEF Overs, All
    <2>6. QED
      BY <2>2, <2>3, <2>5
  <1>3. IsWellFoundedOn(Smaller, All)
    BY FS_StrictSubsetOrderingWellFounded
  <1>4. PICK X \in Overs : \A Y \in Overs : ~ (<<Y, X>> \in Smaller)
    <2> HIDE DEF Overs, All, Smaller
    <2>1. QED
      BY <1>2, <1>3, WFMin
  <1>5. PICK i \in C : X = Over(i)
    BY <1>4
  <1>6. ASSUME NEW j \in C, Below(fl, i, j)
        PROVE  FALSE
    <2>1. Over(j) \subseteq Over(i)
      BY <1>6, BelowOrders
    <2>2. j \in Over(i) /\ j \notin Over(j)
      BY <1>6, BelowOrders
    <2>3. Over(i) \subseteq Page /\ Over(j) \subseteq Page
      OBVIOUS
    <2>4. <<Over(j), X>> \in Smaller
      BY <1>5, <2>1, <2>2, <2>3 DEF StrictSubsetOrdering
    <2>5. QED
      BY <1>4, <2>4
  <1>7. QED
    BY <1>6, BelowOrders

\* What the scan settles on is the highest sector with head and write number,
\* if there is one that is not below the largest number seen before.
LEMMA ChoosesHighest ==
  ASSUME NEW fl \in [Page -> Sector], NEW max \in Nat, NEW c, c = Chosen(fl, max)
  PROVE  \/ c = NoPage /\ \A j \in Page : HeadTail(fl[j]) => fl[j].num < max
         \/ /\ c \in Page /\ c # NoPage /\ HeadTail(fl[c]) /\ fl[c].num >= max
            /\ \A j \in Page \ {c} : HeadTail(fl[j]) => Below(fl, j, c)
  <1> DEFINE cand == {i \in Page : HeadTail(fl[i]) /\ fl[i].num >= max}
             best == {i \in cand : \A j \in cand :
                        fl[j].num < fl[i].num \/ (fl[j].num = fl[i].num /\ j <= i)}
  <1>1. c = IF cand = {} THEN NoPage ELSE CHOOSE i \in best : TRUE
    BY DEF Chosen
  <1>2. \A j \in Page : fl[j].num \in Nat /\ j \in Int /\ j # NoPage
    BY NPageAssumption DEF Sector, Page, NoPage
  <1>3. CASE cand = {}
    BY <1>1, <1>2, <1>3
  <1>4. CASE cand # {}
    <2>1. PICK i \in cand : \A j \in cand : Below(fl, j, i) \/ j = i
      BY <1>4, Highest
    <2>2. i \in best
      BY <1>2, <2>1 DEF Below
    <2>3. c \in best
      <3> HIDE DEF best
      <3>1. QED
        BY <1>1, <1>4, <2>2
    <2>4. QED
      BY <1>2, <2>3 DEF Below
  <1>5. QED
    BY <1>3, <1>4

\* The scan finds the sector with the largest write number, if it is not below
\* the largest one seen before.
LEMMA ChoosesTop ==
  ASSUME NEW fl \in [Page -> Sector], NEW c, Tops(fl, Page, c), NEW max \in Nat
  PROVE  /\ fl[c].num >= max => Chosen(fl, max) = c
         /\ ~ (fl[c].num >= max) => Chosen(fl, max) = NoPage
  <1> DEFINE cand == {i \in Page : HeadTail(fl[i]) /\ fl[i].num >= max}
             best == {i \in cand : \A j \in cand :
                        fl[j].num < fl[i].num \/ (fl[j].num = fl[i].num /\ j <= i)}
  <1>1. /\ c \in Page /\ HeadTail(fl[c])
        /\ \A j \in Page : j # c /\ HeadTail(fl[j]) => fl[j].num < fl[c].num
    BY DEF Tops
  <1>2. \A j \in Page : fl[j].num \in Nat /\ j \in Int
    BY DEF Sector, Page
  <1>3. Chosen(fl, max) = IF cand = {} THEN NoPage ELSE CHOOSE i \in best : TRUE
    BY DEF Chosen
  <1>4. CASE fl[c].num >= max
    <2>1. c \in cand
      BY <1>1, <1>4
    <2>2. c \in best
      BY <1>1, <1>2, <2>1
    <2>3. ASSUME NEW i \in best, i # c
          PROVE  FALSE
      BY <1>1, <1>2, <2>1, <2>3
    <2> HIDE DEF best, cand
    <2>4. (CHOOSE i \in best : TRUE) \in best
      BY <2>2
    <2>5. QED
      BY <1>3, <1>4, <2>1, <2>3, <2>4
  <1>5. CASE ~ (fl[c].num >= max)
    <2>1. cand = {}
      BY <1>1, <1>2, <1>5
    <2>2. QED
      BY <1>3, <1>5, <2>1
  <1>6. QED
    BY <1>4, <1>5

\* Where no sector has a head and a number, the scan finds none.
LEMMA ChoosesNone ==
  ASSUME NEW fl, Blank(fl, Page), NEW max
  PROVE  Chosen(fl, max) = NoPage
  BY DEF Blank, Chosen

\* What can be recovered is the leading sector.
LEMMA RecoversLeader ==
  ASSUME NEW fl \in [Page -> Sector], NEW c, Leads(fl, Page, c)
  PROVE  /\ Newest(fl) = {c}
         /\ Recoverable(fl) = fl[c].data
  <1>1. /\ c \in Page /\ Intact(fl[c])
        /\ \A j \in Page : j # c /\ Intact(fl[j]) => fl[j].num < fl[c].num
    BY DEF Leads, Tops, Intact
  <1>2. \A j \in Page : fl[j].num \in Nat
    BY DEF Sector
  <1>3. c \in Newest(fl)
    BY <1>1, <1>2 DEF Newest
  <1>4. ASSUME NEW i \in Newest(fl)
        PROVE  i = c
    BY <1>1, <1>2, <1>4 DEF Newest
  <1>5. Newest(fl) = {c}
    BY <1>3, <1>4
  <1>6. QED
    BY <1>5 DEF Recoverable

\* Then the factory parameters are what can be recovered.
LEMMA RecoversDefault ==
  ASSUME NEW fl, Blank(fl, Page)
  PROVE  Newest(fl) = {} /\ Recoverable(fl) = Default
  <1>1. Newest(fl) = {}
    BY DEF Blank, Newest, Intact
  <1>2. QED
    BY <1>1 DEF Recoverable

\* Changing a sector in a way that gives it no head or write number it did not
\* have leaves those that lead the others in the lead.
LEMMA LeaderStays ==
  ASSUME NEW fl \in [Page -> Sector], NEW i \in Page, NEW s \in Sector,
         HeadTail(s) => HeadTail(fl[i]) /\ s.num = fl[i].num,
         NEW S \in SUBSET Page
  PROVE  LET new == [fl EXCEPT ![i] = s]
         IN  /\ \A c \in S : Leads(fl, S, c) /\ c # i => Leads(new, S, c)
             /\ Blank(fl, S) => Blank(new, S)
  BY DEF Leads, Tops, Blank

\* A sector with a larger write number than all others takes the lead.
LEMMA NewLeader ==
  ASSUME NEW fl \in [Page -> Sector], NEW i \in Page, NEW s \in Sector, HeadTail(s),
         \A j \in Page : HeadTail(fl[j]) => fl[j].num < s.num
  PROVE  Tops([fl EXCEPT ![i] = s], Page, i)
  BY DEF Tops

\* An erased sector and the data of a damaged one have their types.
LEMMA SectorTypes ==
  /\ Erased \in Sector /\ ~ HeadTail(Erased)
  /\ JunkData \in [Field -> Val \cup {Junk}]
  BY DEF Erased, Sector, JunkData, HeadTail

\* A damaged sector in the place of a damaged one changes nothing that can be
\* recovered.
LEMMA DamagedIgnored ==
  ASSUME NEW fl \in [Page -> Sector], NEW i \in Page, NEW s,
         ~ Intact(fl[i]), ~ Intact(s)
  PROVE  /\ Newest([fl EXCEPT ![i] = s]) = Newest(fl)
         /\ Recoverable([fl EXCEPT ![i] = s]) = Recoverable(fl)
  <1> DEFINE new == [fl EXCEPT ![i] = s]
  <1>1. new[i] = s /\ \A j \in Page \ {i} : new[j] = fl[j]
    OBVIOUS
  <1> HIDE DEF new
  <1>2. \A j \in Page : IF Intact(fl[j]) THEN new[j] = fl[j] ELSE ~ Intact(new[j])
    BY <1>1
  <1>3. Newest(new) = Newest(fl)
    BY <1>2 DEF Newest
  <1>4. Recoverable(new) = Recoverable(fl)
    <2>1. CASE Newest(fl) = {}
      BY <1>3, <2>1 DEF Recoverable
    <2>2. CASE Newest(fl) # {}
      <3>1. PICK c \in Newest(fl) : c = CHOOSE j \in Newest(fl) : TRUE
        BY <2>2
      <3>2. new[c] = fl[c]
        BY <1>2, <3>1 DEF Newest
      <3>3. Recoverable(fl) = fl[c].data /\ Recoverable(new) = new[c].data
        BY <1>3, <2>2, <3>1 DEF Recoverable
      <3>4. QED
        BY <3>2, <3>3
    <2>3. QED
      BY <2>1, <2>2
  <1>5. QED
    BY <1>3, <1>4 DEF new

\* An erase that is cut short leaves no head and no write number that was not
\* there, and nothing intact that was not there.
LEMMA TornEraseLeaves ==
  ASSUME NEW old \in Sector, NEW s \in TornErase(old)
  PROVE  /\ s \in Sector
         /\ HeadTail(s) => HeadTail(old) /\ s.num = old.num
         /\ s.ok => s = old \/ ~ HeadTail(s)
         /\ Intact(s) => s = old
  BY SectorTypes DEF TornErase, Sector, HeadTail, Intact, Erased, JunkData

-----------------------------------------------------------------------------
(* The inductive invariant                                                    *)

FlashOK == /\ Genuine(flash)
           /\ \/ Sound(flash, Page)
              \/ ~ up /\ TornTail /\ \E b \in Page : Hides(flash, b)

\* The start-up code settles on the leading sector, or discards what hides it.
BootOK ==
  /\ up => p[Boot] = IdleProc
  /\ ~ up => /\ p[Boot].op = "read" /\ p[Boot].csm
             /\ p[Boot].pc \in {"scan", "load", "discard", "empty", "merge"}
  /\ p[Boot].pc = "scan" =>
       /\ p[Boot].max = 0 \/ TornTail
       /\ \A b \in Page : Hides(flash, b) => p[Boot].max <= flash[b].num
  /\ p[Boot].pc \in {"load", "discard"} => p[Boot].max = flash[p[Boot].cur].num
  /\ p[Boot].pc = "empty" => Sound(flash, Page) /\ (Blank(flash, Page) \/ TornTail)
  /\ p[Boot].pc = "load" => \/ Leads(flash, Page, p[Boot].cur)
                            \/ TornTail /\ Hides(flash, p[Boot].cur)
  /\ p[Boot].pc = "discard" => TornTail /\ Hides(flash, p[Boot].cur)
  /\ p[Boot].pc = "merge" => /\ Leads(flash, Page, p[Boot].cur)
                             /\ p[Boot].buf = flash[p[Boot].cur]

\* The sector a save starts from, and its write number.
Based(t) == \/ p[t].cur = NoPage /\ Blank(flash, Page)
            \/ Leads(flash, Page, p[t].cur)
BaseNum(t) == IF p[t].cur = NoPage THEN 0 ELSE flash[p[t].cur].num

\* What the save of t will leave: its fields as they are in RAM.
Saved(t) == [f \in Field |-> IF f \in p[t].set THEN ram[f] ELSE Recoverable(flash)[f]]

\* A saving thread starts from the leading sector and has the next copy ready
\* before it erases another one.
ThreadInv(t) ==
  /\ p[t].pc = "idle" \/ ~ up => p[t] = IdleProc
  /\ p[t].pc # "discard"
  /\ p[t].pc \notin {"idle", "reset"} => p[t].set # {}
  /\ p[t].pc = "scan" => p[t].max = 0
  /\ p[t].pc = "load" => Leads(flash, Page, p[t].cur)
  /\ p[t].pc = "empty" => p[t].cur = NoPage /\ Blank(flash, Page)
  /\ p[t].pc \in {"merge", "check", "erase", "program"} => Based(t)
  /\ p[t].pc = "merge" => /\ p[t].buf.num = BaseNum(t)
                          /\ p[t].buf.data = Recoverable(flash)
  /\ p[t].pc \in {"check", "erase", "program"} =>
       p[t].buf = [magic |-> TRUE, num |-> BaseNum(t) + 1, ok |-> TRUE,
                   data |-> Saved(t)]
  /\ p[t].pc = "program" => flash[NextPage(p[t].cur)] = Erased

ThreadOK == \A t \in Thread : ThreadInv(t)

RamOK == up => ram \in [Field -> Val]

IInv == TypeOK /\ FlashOK /\ BootOK /\ ThreadOK /\ RamOK

\* So has what a thread works on when it begins or is idle.
LEMMA LocalTypes ==
  /\ IdleProc \in Local /\ ReadOp \in Local
  /\ IdleProc.pc = "idle" /\ IdleProc.set = {}
  /\ ReadOp.pc = "scan" /\ ReadOp.op = "read" /\ ReadOp.csm /\ ReadOp.max = 0
  /\ Starting \in [Proc -> Local]
  /\ Starting[Boot] = ReadOp
  /\ \A t \in Thread : Starting[t] = IdleProc
  <1>1. Boot \in Proc /\ Boot \notin Thread /\ Thread \subseteq Proc
    BY ProcAssumption DEF Proc
  <1>2. IdleProc \in Local
    BY SectorTypes DEF IdleProc, Local, PC, Op
  <1>3. ReadOp \in Local
    BY <1>2 DEF ReadOp, Local, PC, Op
  <1>4. /\ IdleProc.pc = "idle" /\ IdleProc.set = {}
        /\ ReadOp.pc = "scan" /\ ReadOp.op = "read" /\ ReadOp.csm /\ ReadOp.max = 0
    BY DEF IdleProc, ReadOp
  <1>5. QED
    BY <1>1, <1>2, <1>3, <1>4 DEF Starting

\* The region is erased and the start-up code begins its scan.
LEMMA InitInv == Init => IInv
  <1> SUFFICES ASSUME Init PROVE IInv
    OBVIOUS
  <1>1. /\ p = Starting /\ ~ up /\ flash = [i \in Page |-> Erased] /\ ram = Default
    BY DEF Init
  <1>2. Default \in [Field -> Val] /\ NoProc \notin Proc
    BY DefaultAssumption, ProcAssumption
  <1>3. TypeOK
    BY <1>1, <1>2, LocalTypes, SectorTypes DEF Init, TypeOK
  <1>4. FlashOK
    BY <1>1, SectorTypes DEF FlashOK, Genuine, Sound, Blank, Intact
  <1>5. BootOK
    BY <1>1, LocalTypes, SectorTypes DEF BootOK, Hides, Tops
  <1>6. ThreadOK
    BY <1>1, LocalTypes DEF ThreadOK, ThreadInv
  <1>7. QED
    BY <1>1, <1>3, <1>4, <1>5, <1>6 DEF IInv, RamOK

\* After a reset, whatever the power has left of the sectors.
LEMMA RestartInv ==
  ASSUME TypeOK, NEW fl \in [Page -> Sector], NEW low \in BOOLEAN, Restart(fl, low),
         Genuine(fl), Sound(fl, Page) \/ (TornTail /\ \E b \in Page : Hides(fl, b))
  PROVE  IInv'
  <1>1. /\ p' = Starting /\ ~ up' /\ up' \in BOOLEAN /\ flash' = fl /\ TornTail' = TornTail
    BY DEF Restart
  <1>2. TypeOK'
    BY <1>1, LocalTypes DEF Restart, TypeOK
  <1>3. FlashOK'
    BY <1>1 DEF FlashOK
  <1>4. BootOK'
    <2>1. \A b \in Page : fl[b].num \in Nat
      BY DEF Sector
    <2>2. QED
      BY <1>1, <2>1, LocalTypes DEF BootOK
  <1>5. ThreadOK'
    BY <1>1, LocalTypes DEF ThreadOK, ThreadInv
  <1>6. QED
    BY <1>1, <1>2, <1>3, <1>4, <1>5 DEF IInv, RamOK

\* Programming an erased sector, also if the power fails meanwhile.
LEMMA TornProgramLeaves ==
  ASSUME NEW old \in Sector, NEW new \in Sector, NEW s \in TornProgram(old, new)
  PROVE  /\ s \in Sector
         /\ Programmed(old, new) \in Sector
         /\ old = Erased => /\ Programmed(old, new) = new
                            /\ \/ s \in {old, new}
                               \/ ~ s.ok /\ (s.num = 0 \/ (TornTail /\ s.num = new.num))
  <1>1. old.magic \in BOOLEAN /\ new.num \in Nat /\ 0 \in Nat
    BY DEF Sector
  <1>2. Programmed(old, new) \in Sector
    BY <1>1, SectorTypes DEF Programmed, Sector
  <1>3. CASE s \in {old, Programmed(old, new)}
    BY <1>2, <1>3 DEF Programmed
  <1>4. CASE s \notin {old, Programmed(old, new)}
    <2>1. PICK m \in {TRUE}, n \in {0} \cup (IF TornTail THEN {new.num} ELSE {}) :
            s = [magic |-> m, num |-> n, ok |-> FALSE, data |-> JunkData]
      BY <1>4 DEF TornProgram
    <2>2. n \in Nat /\ (n = 0 \/ (TornTail /\ n = new.num))
      BY <1>1
    <2>3. s \in Sector /\ ~ s.ok /\ s.num = n
      BY <2>1, <2>2, SectorTypes DEF Sector
    <2>4. QED
      BY <1>2, <2>2, <2>3 DEF Programmed
  <1>5. QED
    BY <1>3, <1>4

\* The power changes one sector at most: the one being erased or programmed.
LEMMA TornChanges ==
  ASSUME TypeOK, NEW q \in Proc, NEW fl \in Torn(q),
         p[q].pc = "discard" => p[q].cur \in Page
  PROVE  \/ fl = flash
         \/ /\ p[q].pc \in {"erase", "program"}
            /\ \E s \in Sector : fl = [flash EXCEPT ![NextPage(p[q].cur)] = s]
         \/ /\ p[q].pc = "discard"
            /\ \E s \in Sector : fl = [flash EXCEPT ![p[q].cur] = s]
  <1>1. flash \in [Page -> Sector] /\ p[q] \in Local
    BY DEF TypeOK
  <1>2. p[q].cur \in Page \cup {NoPage} /\ p[q].buf \in Sector
    BY <1>1 DEF Local
  <1>3. NextPage(p[q].cur) \in Page
    BY <1>2, NextPageType
  <1>4. CASE p[q].pc = "erase"
    <2>1. PICK s \in TornErase(flash[NextPage(p[q].cur)]) :
            fl = [flash EXCEPT ![NextPage(p[q].cur)] = s]
      BY <1>4 DEF Torn
    <2>2. s \in Sector
      BY <1>1, <1>3, TornEraseLeaves
    <2>3. QED
      BY <1>4, <2>1, <2>2
  <1>5. CASE p[q].pc = "program"
    <2>1. PICK s \in TornProgram(flash[NextPage(p[q].cur)], p[q].buf) :
            fl = [flash EXCEPT ![NextPage(p[q].cur)] = s]
      BY <1>5 DEF Torn
    <2>2. QED
      BY <1>1, <1>2, <1>3, <1>5, <2>1, TornProgramLeaves
  <1>6. CASE p[q].pc = "discard" /\ Allowed
    <2>1. PICK s \in TornErase(flash[p[q].cur]) : fl = [flash EXCEPT ![p[q].cur] = s]
      BY <1>6 DEF Torn
    <2>2. QED
      BY <1>1, <1>6, <2>1, TornEraseLeaves
  <1>7. QED
    BY <1>4, <1>5, <1>6 DEF Torn

\* Whatever the power leaves of the sectors, they are sectors.
LEMMA TornType ==
  ASSUME TypeOK, NEW q \in Proc, NEW fl \in Torn(q),
         p[q].pc = "discard" => p[q].cur \in Page
  PROVE  fl \in [Page -> Sector]
  <1>1. flash \in [Page -> Sector] /\ NextPage(p[q].cur) \in Page
    BY NextPageType DEF TypeOK, Local
  <1>2. QED
    BY <1>1, TornChanges

\* A sector that is loaded or discarded is one of the region.
LEMMA SettlesOn ==
  ASSUME IInv, NEW q \in Proc, p[q].pc \in {"load", "discard"}
  PROVE  p[q].cur \in Page
  <1>1. q = Boot \/ q \in Thread
    BY DEF Proc
  <1>2. QED
    BY <1>1 DEF IInv, BootOK, ThreadOK, ThreadInv, Leads, Hides, Tops

\* What the scan settles on.
LEMMA ChosenType ==
  ASSUME IInv, NEW max \in Nat
  PROVE  /\ Chosen(flash, max) \in Page \cup {NoPage}
         /\ NoPage \notin Page
         /\ Chosen(flash, max) # NoPage =>
              \/ Leads(flash, Page, Chosen(flash, max))
              \/ ~ up /\ TornTail /\ Hides(flash, Chosen(flash, max))
         /\ Chosen(flash, 0) = NoPage => Blank(flash, Page)
         /\ Chosen(flash, max) = NoPage =>
              Sound(flash, Page) \/ \E b \in Page : Hides(flash, b) /\ ~ (flash[b].num >= max)
  <1>1. flash \in [Page -> Sector] /\ 0 \in Nat
    BY DEF IInv, TypeOK
  <1>2. NoPage \notin Page
    BY NPageAssumption DEF NoPage, Page
  <1>3. CASE Blank(flash, Page)
    BY <1>2, <1>3, ChoosesNone DEF Sound
  <1>4. ASSUME NEW c \in Page, Tops(flash, Page, c)
        PROVE  /\ Chosen(flash, max) \in {c, NoPage} /\ Chosen(flash, 0) = c
               /\ Chosen(flash, max) = NoPage => ~ (flash[c].num >= max)
    <2>1. flash[c].num >= 0
      BY <1>1 DEF Sector
    <2>2. c # NoPage
      BY <1>2
    <2>3. QED
      BY <1>1, <1>4, <2>1, <2>2, ChoosesTop
  <1>5. CASE \E c \in Page : Leads(flash, Page, c)
    BY <1>2, <1>4, <1>5 DEF Leads, Sound
  <1>6. CASE ~ up /\ TornTail /\ \E b \in Page : Hides(flash, b)
    BY <1>2, <1>4, <1>6 DEF Hides
  <1>7. QED
    BY <1>3, <1>5, <1>6 DEF IInv, FlashOK, Sound

\* What xy_choose_valid_ftl changes in a thread keeps its types.
LEMMA ChooseTypes ==
  ASSUME TypeOK, NEW q \in Proc, NEW step \in PC,
         NEW c \in Page \cup {NoPage}, NEW max \in Nat, NEW s \in Sector
  PROVE  /\ [p EXCEPT ![q].pc = step, ![q].cur = c, ![q].max = max] \in [Proc -> Local]
         /\ [p EXCEPT ![q].pc = step, ![q].buf = s] \in [Proc -> Local]
  <1>1. p \in [Proc -> Local]
    BY DEF TypeOK
  <1>2. [p EXCEPT ![q].pc = step, ![q].cur = c, ![q].max = max] \in [Proc -> Local]
    <2> DEFINE loc == [p[q] EXCEPT !.pc = step, !.cur = c, !.max = max]
    <2>1. loc \in Local
      BY <1>1 DEF Local
    <2>2. [p EXCEPT ![q].pc = step, ![q].cur = c, ![q].max = max] = [p EXCEPT ![q] = loc]
      BY <1>1 DEF Local
    <2> HIDE DEF loc
    <2>3. QED
      BY <1>1, <2>1, <2>2
  <1>3. [p EXCEPT ![q].pc = step, ![q].buf = s] \in [Proc -> Local]
    BY <1>1 DEF Local
  <1>4. QED
    BY <1>2, <1>3

\* After the scan, the sector it settled on is known.
Settled == \A q \in Proc : p[q].pc \in {"load", "discard"} => p[q].cur \in Page

\* Every step keeps the types.
LEMMA TypeStep == TypeOK /\ Settled /\ [Next]_vars => TypeOK'
  <1> SUFFICES ASSUME TypeOK, Settled, [Next]_vars PROVE TypeOK'
    OBVIOUS
  <1>1. TypeOK
    OBVIOUS
  <1>2. /\ Boot \in Proc /\ Thread \subseteq Proc /\ NoProc \notin Proc
        /\ IdleProc \in Local /\ \A q \in Proc : p[q] \in Local
    BY <1>1, ProcAssumption, LocalTypes DEF TypeOK, Proc
  <1>3. ASSUME NEW q \in Proc, Scan(q)
        PROVE  TypeOK'
    <2>1. p[q].max \in Nat
      BY <1>2 DEF Local
    <2>2. Chosen(flash, p[q].max) \in Page \cup {NoPage}
      BY <1>1, <2>1, ChoosesHighest DEF TypeOK
    <2> DEFINE c == Chosen(flash, p[q].max)
    <2>3. PICK step \in {"empty", "load"}, max \in Nat :
            p' = [p EXCEPT ![q].pc = step, ![q].cur = c, ![q].max = max]
      <3>1. CASE c = NoPage
        BY <1>3, <2>1, <3>1 DEF Scan
      <3>2. CASE c # NoPage
        <4>1. flash[c].num \in Nat
          BY <1>1, <2>2, <3>2 DEF TypeOK, Sector
        <4>2. QED
          BY <1>3, <3>2, <4>1 DEF Scan
      <3>3. QED
        BY <3>1, <3>2
    <2>4. step \in PC
      BY DEF PC
    <2>5. p' \in [Proc -> Local]
      BY <1>1, <2>2, <2>3, <2>4, SectorTypes, ChooseTypes
    <2>6. QED
      BY <1>1, <1>3, <2>5 DEF TypeOK, Scan, power
  <1>4. ASSUME NEW q \in Proc, Load(q)
        PROVE  TypeOK'
    <2>1. flash[p[q].cur] \in Sector
      BY <1>1, <1>4 DEF TypeOK, Settled, Load, At
    <2>2. PICK step \in {"discard", "merge"} :
            p' = [p EXCEPT ![q].pc = step, ![q].buf = flash[p[q].cur]]
      BY <1>4 DEF Load
    <2>3. step \in PC /\ 0 \in Nat
      BY DEF PC
    <2>4. p' \in [Proc -> Local]
      BY <1>1, <2>1, <2>2, <2>3, ChooseTypes
    <2>5. QED
      BY <1>1, <1>4, <2>4 DEF TypeOK, Load, power
  <1>5. ASSUME NEW q \in Proc, Discard(q)
        PROVE  TypeOK'
    <2>1. p[q].cur \in Page
      BY <1>5 DEF Settled, Discard, At
    <2>2. flash' \in [Page -> Sector]
      BY <1>1, <1>5, <2>1, SectorTypes DEF TypeOK, Discard
    <2>3. p' \in [Proc -> Local]
      BY <1>1, <1>2, <1>5 DEF TypeOK, Discard, Local, PC
    <2>4. g_vBat_is_low' \in BOOLEAN
      BY <1>1, <1>5 DEF TypeOK, Discard, LatchVbat, Sensed
    <2>5. QED
      BY <1>1, <1>5, <2>2, <2>3, <2>4 DEF TypeOK, Discard
  <1>6. ASSUME NEW fl \in [Page -> Sector], NEW low \in BOOLEAN, Restart(fl, low)
        PROVE  TypeOK'
    BY <1>1, <1>2, <1>6, LocalTypes DEF TypeOK, Restart
  <1>7. ASSUME NEW q \in Proc, LowVoltageReset(q)
        PROVE  TypeOK'
    BY <1>1, <1>6, <1>7 DEF TypeOK, LowVoltageReset
  <1>8. CASE ReadDefault \/ ReadDone
    <2>1. ram' \in [Field -> Val \cup {Junk}]
      BY <1>2, <1>8, DefaultAssumption DEF ReadDefault, ReadDone, Local, Sector
    <2>2. p' \in [Proc -> Local]
      BY <1>1, <1>2, <1>8 DEF TypeOK, ReadDefault, ReadDone, Restored
    <2>3. QED
      BY <1>1, <1>8, <2>1, <2>2 DEF TypeOK, ReadDefault, ReadDone, Restored
  <1>9. ASSUME NEW t \in Thread, NEW f \in AppField, NEW v \in Val, SaveParam(t, f, v)
        PROVE  TypeOK'
    <2>1. {f} \in SUBSET Field
      BY DEF Field
    <2>2. p' \in [Proc -> Local]
      BY <1>1, <1>2, <1>9, <2>1 DEF TypeOK, SaveParam, Local, PC, Op
    <2>3. QED
      BY <1>1, <1>9, <2>2 DEF TypeOK, SaveParam, power
  <1>10. ASSUME NEW t \in Thread, NEW op \in {"factory", "reboot"}, SaveFactory(t, op)
         PROVE  TypeOK'
    <2>1. DspField \in SUBSET Field
      BY DEF Field
    <2>2. p' \in [Proc -> Local]
      BY <1>1, <1>2, <1>10, <2>1 DEF TypeOK, SaveFactory, Local, PC, Op
    <2>3. ram' \in [Field -> Val \cup {Junk}]
      BY <1>1, <1>10 DEF TypeOK, SaveFactory
    <2>4. sched' \in Proc \cup {NoProc}
      BY <1>1, <1>2, <1>10 DEF TypeOK, SaveFactory
    <2>5. QED
      BY <1>1, <1>10, <2>2, <2>3, <2>4 DEF TypeOK, SaveFactory, power
  <1>11. ASSUME NEW t \in Thread
         PROVE  Returned(t) \in Local
    <2>1. /\ p[t].op \in Op /\ AppField \in SUBSET Field
      BY <1>2 DEF Local, Field
    <2>2. QED
      BY <1>2, <2>1 DEF Returned, Local, PC, Op
  <1>12. ASSUME NEW t \in Thread, WriteDefault(t)
         PROVE  TypeOK'
    <2>1. [Erased EXCEPT !.data = Default] \in Sector
      BY SectorTypes, DefaultAssumption DEF Sector
    <2>2. p' \in [Proc -> Local]
      BY <1>1, <1>2, <1>12, <2>1 DEF TypeOK, WriteDefault, Local, PC
    <2>3. QED
      BY <1>1, <1>12, <2>2 DEF TypeOK, WriteDefault, power
  <1>13. ASSUME NEW t \in Thread, WriteNothing(t)
         PROVE  TypeOK'
    BY <1>1, <1>2, <1>11, <1>13 DEF TypeOK, WriteNothing, power
  <1>14. ASSUME NEW t \in Thread, MergeData(t)
         PROVE  TypeOK'
    <2>1. Updated(t) \in Sector
      BY <1>1, <1>2 DEF TypeOK, Updated, Merged, Local, Sector
    <2>2. p' \in [Proc -> Local]
      BY <1>1, <1>2, <1>14, <2>1 DEF TypeOK, MergeData, Local, PC
    <2>3. QED
      BY <1>1, <1>14, <2>2 DEF TypeOK, MergeData, power
  <1>15. ASSUME NEW t \in Thread, CheckVbat(t)
         PROVE  TypeOK'
    <2>1. p' \in [Proc -> Local]
      BY <1>1, <1>2, <1>15 DEF TypeOK, CheckVbat, Local, PC
    <2>2. g_vBat_is_low' \in BOOLEAN
      BY <1>1, <1>15 DEF TypeOK, CheckVbat, LatchVbat, Sensed
    <2>3. QED
      BY <1>1, <1>2, <1>15, <2>1, <2>2 DEF TypeOK, CheckVbat
  <1>16. ASSUME NEW t \in Thread
         PROVE  NextPage(p[t].cur) \in Page /\ p[t].buf \in Sector
    BY <1>2, NextPageType DEF Local
  <1>17. ASSUME NEW t \in Thread, EraseSector(t)
         PROVE  TypeOK'
    <2>1. flash' \in [Page -> Sector]
      BY <1>1, <1>16, <1>17, SectorTypes DEF TypeOK, EraseSector
    <2>2. p' \in [Proc -> Local]
      BY <1>1, <1>2, <1>17 DEF TypeOK, EraseSector, Local, PC
    <2>3. QED
      BY <1>1, <1>17, <2>1, <2>2 DEF TypeOK, EraseSector, power
  <1>18. ASSUME NEW t \in Thread, ProgramSector(t)
         PROVE  TypeOK'
    <2>1. Programmed(flash[NextPage(p[t].cur)], p[t].buf) \in Sector
      BY <1>1, <1>16, TornProgramLeaves DEF TypeOK, TornProgram
    <2>2. flash' \in [Page -> Sector]
      BY <1>1, <1>16, <1>18, <2>1 DEF TypeOK, ProgramSector
    <2>3. QED
      BY <1>1, <1>2, <1>11, <1>18, <2>2 DEF TypeOK, ProgramSector, power
  <1>19. ASSUME NEW t \in Thread, WriteFailed(t) \/ Reboot(t)
         PROVE  TypeOK'
    BY <1>1, <1>6, <1>19 DEF TypeOK, WriteFailed, Reboot
  <1>20. CASE PowerLoss
    BY <1>1, <1>6, <1>20, TornType DEF Settled, PowerLoss
  <1>21. CASE VoltageChanges
    BY <1>1, <1>21 DEF TypeOK, VoltageChanges
  <1>22. CASE UNCHANGED vars
    BY <1>1, <1>22 DEF TypeOK, vars
  <1>23. QED
    BY <1>3, <1>4, <1>5, <1>7, <1>8, <1>9, <1>10, <1>12, <1>13, <1>14, <1>15,
       <1>17, <1>18, <1>19, <1>20, <1>21, <1>22 DEF Next, Choose, Call, Write

\* A write that returns has settled on nothing.
LEMMA ReturnedStep ==
  ASSUME NEW t
  PROVE  Returned(t).pc \in {"idle", "scan", "reset"}
  BY DEF Returned, IdleProc

\* Only the scan settles on a sector.
LEMMA SettledStep == TypeOK /\ Settled /\ [Next]_vars => Settled'
  <1> SUFFICES ASSUME TypeOK, Settled, [Next]_vars PROVE Settled'
    OBVIOUS
  <1>1. /\ p \in [Proc -> Local] /\ flash \in [Page -> Sector]
        /\ Boot \in Proc /\ Thread \subseteq Proc
    BY DEF TypeOK, Proc
  <1>2. ASSUME NEW q \in Proc, Choose(q)
        PROVE  Settled'
    <2>1. CASE Scan(q)
      <3>1. p[q].max \in Nat
        BY <1>1 DEF Local
      <3>2. Chosen(flash, p[q].max) \in Page \cup {NoPage}
        BY <1>1, <3>1, ChoosesHighest
      <3>3. p'[q].pc = "load" => p'[q].cur \in Page
        BY <1>1, <2>1, <3>2 DEF Scan, Local
      <3>4. p'[q].pc # "discard" /\ \A r \in Proc \ {q} : p'[r] = p[r]
        BY <1>1, <2>1 DEF Scan, Local
      <3>5. QED
        BY <3>3, <3>4 DEF Settled
    <2>2. CASE Load(q)
      <3>1. p'[q].cur = p[q].cur /\ \A r \in Proc \ {q} : p'[r] = p[r]
        BY <1>1, <2>2 DEF Load, Local
      <3>2. p[q].pc = "load"
        BY <2>2 DEF Load, At
      <3>3. QED
        BY <3>1, <3>2 DEF Settled
    <2>3. CASE Discard(q)
      <3>1. p'[q].pc = "scan" /\ \A r \in Proc \ {q} : p'[r] = p[r]
        BY <1>1, <2>3 DEF Discard, Local
      <3>2. QED
        BY <3>1 DEF Settled
    <2>4. CASE LowVoltageReset(q)
      BY <2>4, LocalTypes DEF LowVoltageReset, Restart, Settled, Proc
    <2>5. QED
      BY <1>2, <2>1, <2>2, <2>3, <2>4 DEF Choose
  <1>3. CASE ReadDefault \/ ReadDone
    <2>1. p' = [p EXCEPT ![Boot] = IdleProc]
      BY <1>3 DEF ReadDefault, ReadDone, Restored
    <2>2. QED
      BY <1>1, <2>1, LocalTypes DEF Settled
  <1>4. ASSUME NEW t \in Thread, Call(t) \/ Write(t)
        PROVE  Settled'
    <2>1. CASE WriteFailed(t) \/ Reboot(t)
      BY <2>1, LocalTypes DEF WriteFailed, Reboot, Restart, Settled, Proc
    <2>2. ASSUME ~ (WriteFailed(t) \/ Reboot(t))
          PROVE  /\ p'[t].pc \notin {"load", "discard"}
                 /\ \A r \in Proc \ {t} : p'[r] = p[r]
      <3>1. CASE Call(t)
        BY <1>1, <3>1 DEF Call, SaveParam, SaveFactory, IdleProc
      <3>2. CASE WriteNothing(t) \/ ProgramSector(t)
        BY <1>1, <3>2, ReturnedStep DEF WriteNothing, ProgramSector
      <3>3. CASE WriteDefault(t) \/ MergeData(t) \/ CheckVbat(t) \/ EraseSector(t)
        BY <1>1, <3>3 DEF WriteDefault, MergeData, CheckVbat, EraseSector, Local
      <3>4. QED
        BY <1>4, <2>2, <3>1, <3>2, <3>3 DEF Write
    <2>3. QED
      BY <2>1, <2>2 DEF Settled
  <1>5. CASE PowerLoss
    BY <1>5, LocalTypes DEF PowerLoss, Restart, Settled, Proc
  <1>6. CASE VoltageChanges \/ UNCHANGED vars
    BY <1>6 DEF VoltageChanges, vars, Settled
  <1>7. QED
    BY <1>2, <1>3, <1>4, <1>5, <1>6 DEF Next

-----------------------------------------------------------------------------
(* What a save does to the flash, step by step and when the power fails       *)

\* What can be recovered are values of the parameters.
LEMMA RecoverableType ==
  ASSUME Genuine(flash)
  PROVE  Recoverable(flash) \in [Field -> Val]
  <1>1. CASE Newest(flash) = {}
    BY <1>1, DefaultAssumption DEF Recoverable
  <1>2. CASE Newest(flash) # {}
    <2>1. (CHOOSE i \in Newest(flash) : TRUE) \in Newest(flash)
      BY <1>2
    <2>2. QED
      BY <1>2, <2>1 DEF Recoverable, Newest, Genuine
  <1>3. QED
    BY <1>1, <1>2

\* The sectors fl hold what flash holds, and t is still based on the same one.
Still(fl, t) ==
  /\ Genuine(fl)
  /\ Newest(fl) = Newest(flash) /\ Recoverable(fl) = Recoverable(flash)
  /\ \/ p[t].cur = NoPage /\ Blank(fl, Page)
     \/ /\ p[t].cur \in Page
        /\ Leads(fl, Page, p[t].cur) /\ fl[p[t].cur] = flash[p[t].cur]

\* Destroying the next sector, wholly or in part, loses nothing.
LEMMA BasedStays ==
  ASSUME TypeOK, Genuine(flash), NEW t \in Thread, Based(t), NEW s \in Sector,
         HeadTail(s) => /\ HeadTail(flash[NextPage(p[t].cur)])
                        /\ s.num = flash[NextPage(p[t].cur)].num,
         Intact(s) => s = flash[NextPage(p[t].cur)]
  PROVE  Still([flash EXCEPT ![NextPage(p[t].cur)] = s], t)
  <1> DEFINE c == p[t].cur
             i == NextPage(c)
             fl == [flash EXCEPT ![i] = s]
  <1>1. flash \in [Page -> Sector] /\ c \in Page \cup {NoPage}
    BY DEF TypeOK, Local, Proc
  <1>2. i \in Page /\ (c \in Page => i # c)
    BY <1>1, NextPageType
  <1>3. fl \in [Page -> Sector]
    BY <1>1, <1>2
  <1>4. Genuine(fl)
    BY <1>1, <1>2 DEF Genuine
  <1>5. CASE c = NoPage /\ Blank(flash, Page)
    <2>1. Blank(fl, Page)
      BY <1>1, <1>2, <1>5, LeaderStays
    <2>2. QED
      BY <1>4, <1>5, <2>1, RecoversDefault DEF Still
  <1>6. CASE Leads(flash, Page, c)
    <2>1. c \in Page
      BY <1>6 DEF Leads, Tops
    <2>2. fl[c] = flash[c]
      BY <1>1, <1>2, <2>1
    <2>3. Leads(fl, Page, c)
      BY <1>1, <1>2, <1>6, <2>1, LeaderStays
    <2>4. /\ Newest(fl) = {c} /\ Recoverable(fl) = fl[c].data
          /\ Newest(flash) = {c} /\ Recoverable(flash) = flash[c].data
      BY <1>1, <1>3, <1>6, <2>3, RecoversLeader
    <2>5. QED
      BY <1>4, <2>1, <2>2, <2>3, <2>4 DEF Still
  <1>7. QED
    BY <1>5, <1>6 DEF Based

\* So is what a save will leave.
LEMMA SavedType ==
  ASSUME IInv, up, NEW t \in Thread
  PROVE  Saved(t) \in [Field -> Val]
  BY RecoverableType DEF IInv, FlashOK, RamOK, Saved

\* The write number of the copy a save has ready is above all others.
LEMMA Newer ==
  ASSUME TypeOK, NEW t \in Thread, Based(t)
  PROVE  /\ BaseNum(t) \in Nat
         /\ \A j \in Page : HeadTail(flash[j]) => flash[j].num < BaseNum(t) + 1
  <1>1. flash \in [Page -> Sector] /\ NoPage \notin Page
    BY NPageAssumption DEF TypeOK, NoPage, Page
  <1>2. \A j \in Page : flash[j].num \in Nat
    BY <1>1 DEF Sector
  <1>3. CASE p[t].cur = NoPage
    BY <1>1, <1>3 DEF Based, BaseNum, Blank, Leads, Tops
  <1>4. CASE p[t].cur # NoPage
    <2>1. Leads(flash, Page, p[t].cur)
      BY <1>4 DEF Based
    <2>2. QED
      BY <1>2, <1>4, <2>1 DEF BaseNum, Leads, Tops
  <1>5. QED
    BY <1>3, <1>4

\* Programming the copy: it takes the lead, or nothing is lost; then its damaged
\* tail may hide the sector it was made from.
LEMMA ProgramLeaves ==
  ASSUME IInv, NEW t \in Thread, p[t].pc = "program",
         NEW s \in TornProgram(flash[NextPage(p[t].cur)], p[t].buf),
         NEW fl, fl = [flash EXCEPT ![NextPage(p[t].cur)] = s]
  PROVE  /\ Genuine(fl)
         /\ s = p[t].buf => /\ Leads(fl, Page, NextPage(p[t].cur))
                            /\ Recoverable(fl) = Saved(t) /\ Newest(fl) # {}
         /\ \/ s = p[t].buf
            \/ Still(fl, t)
            \/ /\ TornTail /\ \E b \in Page : Hides(fl, b)
               /\ Newest(fl) = Newest(flash) /\ Recoverable(fl) = Recoverable(flash)
  <1> DEFINE c == p[t].cur
             i == NextPage(c)
             new == p[t].buf
  <1>1. TypeOK /\ Genuine(flash) /\ up /\ Based(t)
    BY LocalTypes DEF IInv, FlashOK, ThreadOK, ThreadInv
  <1>2. flash \in [Page -> Sector] /\ c \in Page \cup {NoPage} /\ new \in Sector
    BY <1>1 DEF TypeOK, Local, Proc
  <1>3. i \in Page /\ (c \in Page => i # c)
    BY <1>2, NextPageType
  <1>4. flash[i] = Erased
    BY DEF IInv, ThreadOK, ThreadInv
  <1>5. /\ s \in Sector
        /\ \/ s \in {Erased, new}
           \/ ~ s.ok /\ (s.num = 0 \/ (TornTail /\ s.num = new.num))
    BY <1>2, <1>3, <1>4, TornProgramLeaves
  <1>6. new = [magic |-> TRUE, num |-> BaseNum(t) + 1, ok |-> TRUE, data |-> Saved(t)]
    BY DEF IInv, ThreadOK, ThreadInv
  <1>7. /\ new.num = BaseNum(t) + 1 /\ new.magic /\ new.ok /\ new.data = Saved(t)
        /\ HeadTail(new)
    <2>1. new.num = BaseNum(t) + 1 /\ new.magic /\ new.ok /\ new.data = Saved(t)
      BY <1>6
    <2>2. QED
      BY <1>1, <2>1, Newer DEF HeadTail
  <1>8. /\ BaseNum(t) \in Nat
        /\ \A j \in Page : HeadTail(flash[j]) => flash[j].num < new.num
    BY <1>1, <1>7, Newer
  <1>9. fl \in [Page -> Sector] /\ fl[i] = s
    BY <1>2, <1>3, <1>5
  <1>10. CASE ~ HeadTail(s)
    <2>1. Still(fl, t)
      BY <1>1, <1>5, <1>10, BasedStays DEF Intact
    <2>2. QED
      BY <1>7, <1>10, <2>1 DEF Still
  <1>11. CASE s = new
    <2>1. Leads(fl, Page, i)
      BY <1>2, <1>3, <1>7, <1>8, <1>9, <1>11, NewLeader DEF Leads
    <2>2. Newest(fl) = {i} /\ Recoverable(fl) = fl[i].data
      BY <1>9, <2>1, RecoversLeader
    <2>3. fl[i].data = Saved(t)
      BY <1>7, <1>9, <1>11
    <2>4. Genuine(fl)
      BY <1>1, <1>2, <1>3, <1>7, <1>9, <1>11, SavedType DEF Genuine
    <2>5. QED
      BY <1>11, <2>1, <2>2, <2>3, <2>4
  <1>12. CASE HeadTail(s) /\ s # new
    <2>1. TornTail /\ s.num = new.num /\ ~ s.ok
      BY <1>5, <1>12, SectorTypes DEF HeadTail
    <2>2. Tops(fl, Page, i)
      BY <1>2, <1>3, <1>5, <1>8, <1>12, <2>1, NewLeader
    <2>3. \A j \in Page \ {i} : fl[j] = flash[j]
      BY <1>2
    <2>4. Sound(fl, Page \ {i})
      <3>1. CASE Blank(flash, Page)
        BY <2>3, <3>1 DEF Blank, Sound
      <3>2. CASE Leads(flash, Page, c)
        <4>1. c \in Page \ {i}
          BY <1>3, <3>2 DEF Leads, Tops
        <4>2. Leads(fl, Page \ {i}, c)
          BY <2>3, <3>2, <4>1 DEF Leads, Tops
        <4>3. QED
          BY <4>1, <4>2 DEF Sound
      <3>3. QED
        BY <1>1, <3>1, <3>2 DEF Based
    <2>5. Hides(fl, i)
      BY <1>9, <2>1, <2>2, <2>4 DEF Hides
    <2>6. Genuine(fl)
      BY <1>1, <1>9, <2>1, <2>3 DEF Genuine, Intact
    <2>7. ~ Intact(flash[i]) /\ ~ Intact(s)
      BY <1>4, <2>1, SectorTypes DEF Intact
    <2>8. Newest(fl) = Newest(flash) /\ Recoverable(fl) = Recoverable(flash)
      BY <1>2, <1>3, <2>7, DamagedIgnored
    <2>9. QED
      BY <1>3, <1>12, <2>1, <2>5, <2>6, <2>8
  <1>13. QED
    BY <1>10, <1>11, <1>12

\* Whatever the power leaves of the sectors: no damaged sector passes as intact,
\* and the newest data are those before the save or after it.
LEMMA TornLeaves ==
  ASSUME IInv, NEW q \in Proc, NEW fl \in Torn(q)
  PROVE  /\ fl \in [Page -> Sector] /\ Genuine(fl)
         /\ Sound(fl, Page) \/ (TornTail /\ \E b \in Page : Hides(fl, b))
         /\ \/ Newest(fl) = Newest(flash) /\ Recoverable(fl) = Recoverable(flash)
            \/ /\ q \in Thread /\ up /\ Newest(fl) # {} /\ Recoverable(fl) = Saved(q)
               /\ p[q].set # {}
  <1>1. TypeOK /\ FlashOK /\ fl \in [Page -> Sector] /\ flash \in [Page -> Sector]
    BY SettlesOn, TornType DEF IInv, TypeOK
  <1>2. q = Boot \/ q \in Thread
    BY DEF Proc
  <1>3. p[q].pc \in {"erase", "program"} => q \in Thread /\ up /\ p[q].set # {} /\ Based(q)
    BY <1>2, LocalTypes DEF IInv, BootOK, ThreadOK, ThreadInv
  <1>4. NextPage(p[q].cur) \in Page
    BY <1>1, NextPageType DEF TypeOK, Local
  <1>5. ASSUME q \in Thread, Still(fl, q)
        PROVE  Sound(fl, Page)
    BY <1>5 DEF Still, Sound
  <1>6. CASE p[q].pc = "erase"
    <2>1. PICK s \in TornErase(flash[NextPage(p[q].cur)]) :
            fl = [flash EXCEPT ![NextPage(p[q].cur)] = s]
      BY <1>6 DEF Torn
    <2>2. flash[NextPage(p[q].cur)] \in Sector
      BY <1>1, <1>4
    <2>3. Still(fl, q)
      BY <1>1, <1>3, <1>6, <2>1, <2>2, TornEraseLeaves, BasedStays DEF FlashOK
    <2>4. QED
      BY <1>1, <1>3, <1>5, <1>6, <2>3 DEF Still
  <1>7. CASE p[q].pc = "program"
    <2>1. PICK s \in TornProgram(flash[NextPage(p[q].cur)], p[q].buf) :
            fl = [flash EXCEPT ![NextPage(p[q].cur)] = s]
      BY <1>7 DEF Torn
    <2>2. q \in Thread
      BY <1>3, <1>7
    <2>3. /\ Genuine(fl)
          /\ \/ /\ Leads(fl, Page, NextPage(p[q].cur))
                /\ Recoverable(fl) = Saved(q) /\ Newest(fl) # {}
             \/ Still(fl, q)
             \/ /\ TornTail /\ \E b \in Page : Hides(fl, b)
                /\ Newest(fl) = Newest(flash) /\ Recoverable(fl) = Recoverable(flash)
      BY <1>7, <2>1, <2>2, ProgramLeaves
    <2>4. QED
      BY <1>1, <1>3, <1>4, <1>5, <1>7, <2>2, <2>3 DEF Still, Sound
  <1>8. CASE p[q].pc = "discard" /\ Allowed
    <2>1. PICK s \in TornErase(flash[p[q].cur]) : fl = [flash EXCEPT ![p[q].cur] = s]
      BY <1>8 DEF Torn
    <2>2. TornTail /\ Hides(flash, p[q].cur) /\ p[q].cur \in Page
      BY <1>2, <1>8, SettlesOn DEF IInv, BootOK, ThreadOK, ThreadInv
    <2> DEFINE b == p[q].cur
    <2>3. /\ s \in Sector /\ (Intact(s) => s = flash[b])
          /\ (HeadTail(s) => HeadTail(flash[b]) /\ s.num = flash[b].num)
          /\ (s.ok => s = flash[b] \/ ~ HeadTail(s))
      BY <1>1, <2>1, <2>2, TornEraseLeaves
    <2>4. fl[b] = s /\ \A j \in Page \ {b} : fl[j] = flash[j]
      BY <1>1, <2>1, <2>2
    <2> HIDE DEF b
    <2>5. Genuine(fl)
      BY <1>1, <2>3, <2>4 DEF Genuine, FlashOK
    <2>6. Sound(flash, Page \ {b}) /\ Tops(flash, Page, b) /\ ~ flash[b].ok
      BY <2>2 DEF Hides, b
    <2>7. Sound(fl, Page \ {b})
      BY <2>4, <2>6 DEF Sound, Blank, Leads, Tops
    <2>8. Newest(fl) = Newest(flash) /\ Recoverable(fl) = Recoverable(flash)
      <3>1. ~ Intact(flash[b]) /\ ~ Intact(s)
        BY <2>3, <2>6 DEF Intact
      <3>2. QED
        BY <1>1, <2>1, <2>2, <3>1, DamagedIgnored DEF b
    <2>9. CASE HeadTail(s)
      <3>1. Tops(fl, Page, b)
        BY <2>3, <2>4, <2>6, <2>9 DEF Tops
      <3>2. ~ fl[b].ok
        BY <2>3, <2>4, <2>6, <2>9
      <3>3. QED
        BY <1>1, <2>2, <2>5, <2>7, <2>8, <3>1, <3>2 DEF Hides, b
    <2>10. CASE ~ HeadTail(s)
      <3>1. Sound(fl, Page)
        BY <2>4, <2>7, <2>10 DEF Sound, Blank, Leads, Tops
      <3>2. QED
        BY <1>1, <2>2, <2>5, <2>8, <3>1
    <2>11. QED
      BY <2>9, <2>10
  <1>9. CASE fl = flash
    BY <1>1, <1>9 DEF FlashOK
  <1>10. QED
    BY <1>6, <1>7, <1>8, <1>9 DEF Torn

-----------------------------------------------------------------------------
(* Every step keeps the invariant: the start-up code                          *)

\* While the start-up code runs, no thread does.
LEMMA BootAlone ==
  ASSUME IInv, p[Boot].pc # "idle"
  PROVE  ~ up /\ p[Boot].op = "read" /\ p[Boot].csm /\ \A t \in Thread : p[t] = IdleProc
  BY LocalTypes DEF IInv, BootOK, ThreadOK, ThreadInv

\* While nobody saves, nothing can contradict ThreadOK.
LEMMA ThreadsIdle ==
  ASSUME \A t \in Thread : p[t] = IdleProc, \A t \in Thread : p'[t] = p[t]
  PROVE  ThreadOK'
  BY LocalTypes DEF ThreadOK, ThreadInv

\* xy_choose_valid_ftl at start-up, with the sectors it erases.
LEMMA BootStep ==
  ASSUME IInv, Scan(Boot) \/ Load(Boot) \/ Discard(Boot)
  PROVE  FlashOK' /\ BootOK' /\ ThreadOK' /\ RamOK'
  <1>1. /\ TypeOK /\ FlashOK /\ BootOK /\ TornTail' = TornTail /\ up' = up
        /\ Boot \in Proc /\ Boot \notin Thread /\ Thread \subseteq Proc
    BY ProcAssumption DEF IInv, Scan, Load, Discard, power, Proc
  <1>2. ~ up /\ p[Boot].op = "read" /\ p[Boot].csm /\ \A t \in Thread : p[t] = IdleProc
    BY BootAlone DEF Scan, Load, Discard, At
  <1>3. /\ p \in [Proc -> Local] /\ flash \in [Page -> Sector]
        /\ p[Boot] \in Local
    BY <1>1 DEF TypeOK
  <1>4. \A t \in Thread : p'[t] = p[t]
    BY <1>1, <1>3 DEF Scan, Load, Discard
  <1>5. ThreadOK' /\ RamOK'
    BY <1>1, <1>2, <1>4, ThreadsIdle DEF RamOK
  <1>6. CASE Scan(Boot)
    <2> DEFINE max == p[Boot].max
               c   == Chosen(flash, max)
    <2>1. max \in Nat
      BY <1>3 DEF Local
    <2>2. /\ c \in Page \cup {NoPage} /\ NoPage \notin Page
          /\ c # NoPage => Leads(flash, Page, c) \/ (TornTail /\ Hides(flash, c))
          /\ max = 0 /\ c = NoPage => Blank(flash, Page)
          /\ c = NoPage =>
               Sound(flash, Page) \/ \E b \in Page : Hides(flash, b) /\ ~ (flash[b].num >= max)
      BY <2>1, ChosenType
    <2>3. /\ max = 0 \/ TornTail
          /\ \A b \in Page : Hides(flash, b) => max <= flash[b].num
      BY <1>1, <1>6 DEF BootOK, Scan, At
    <2>4. \A b \in Page : flash[b].num \in Nat
      BY <1>3 DEF Sector
    <2>5. flash' = flash
      BY <1>6 DEF Scan
    <2>6. FlashOK'
      BY <1>1, <2>5 DEF FlashOK
    <2>7. CASE c = NoPage
      <3>1. p'[Boot].pc = "empty" /\ p'[Boot].op = "read" /\ p'[Boot].csm
        BY <1>1, <1>2, <1>3, <1>6, <2>7 DEF Scan
      <3>2. Sound(flash, Page)
        BY <2>1, <2>2, <2>3, <2>4, <2>7
      <3>3. QED
        BY <1>1, <1>2, <1>5, <2>2, <2>3, <2>5, <2>6, <2>7, <3>1, <3>2 DEF BootOK
    <2>8. CASE c # NoPage
      <3>1. /\ p'[Boot].pc = "load" /\ p'[Boot].op = "read" /\ p'[Boot].csm
            /\ p'[Boot].cur = c /\ p'[Boot].max = flash[c].num
        BY <1>1, <1>2, <1>3, <1>6, <2>8 DEF Scan, Local
      <3>2. QED
        BY <1>1, <1>2, <1>5, <2>2, <2>5, <2>6, <2>8, <3>1 DEF BootOK
    <2>9. QED
      BY <2>7, <2>8
  <1>7. CASE Load(Boot)
    <2> DEFINE c == p[Boot].cur
    <2>1. /\ c \in Page /\ p[Boot].max = flash[c].num
          /\ Leads(flash, Page, c) \/ (TornTail /\ Hides(flash, c))
      BY <1>1, <1>7, SettlesOn DEF BootOK, Load, At
    <2>2. flash' = flash
      BY <1>7 DEF Load
    <2>3. FlashOK'
      BY <1>1, <2>2 DEF FlashOK
    <2>4. /\ p'[Boot].pc = (IF ~ flash[c].ok THEN "discard" ELSE "merge")
          /\ p'[Boot].op = "read" /\ p'[Boot].csm /\ p'[Boot].cur = c
          /\ p'[Boot].max = p[Boot].max /\ p'[Boot].buf = flash[c]
      BY <1>1, <1>2, <1>3, <1>7 DEF Load, Local
    <2>5. IF flash[c].ok THEN Leads(flash, Page, c) ELSE TornTail /\ Hides(flash, c)
      BY <2>1 DEF Leads, Hides
    <2>6. QED
      BY <1>1, <1>2, <1>5, <2>1, <2>2, <2>3, <2>4, <2>5 DEF BootOK
  <1>8. CASE Discard(Boot)
    <2> DEFINE b == p[Boot].cur
    <2>1. /\ b \in Page /\ p[Boot].max = flash[b].num /\ TornTail /\ Hides(flash, b)
      BY <1>1, <1>8, SettlesOn DEF BootOK, Discard, At
    <2>2. /\ p'[Boot].pc = "scan" /\ p'[Boot].op = "read" /\ p'[Boot].csm
          /\ p'[Boot].max = p[Boot].max
      BY <1>1, <1>2, <1>3, <1>8 DEF Discard, Local
    <2>3. \A a \in Page : flash[a].num \in Nat
      BY <1>3 DEF Sector
    <2>4. CASE Allowed
      <3>1. flash' = [flash EXCEPT ![b] = Erased]
        BY <1>8, <2>4 DEF Discard
      <3>2. flash'[b] = Erased /\ \A j \in Page \ {b} : flash'[j] = flash[j]
        BY <1>3, <2>1, <3>1
      <3>3. Sound(flash, Page \ {b})
        BY <2>1 DEF Hides
      <3> HIDE DEF b
      <3>4. Sound(flash', Page)
        BY <3>2, <3>3, SectorTypes DEF Sound, Blank, Leads, Tops
      <3>5. Genuine(flash')
        BY <1>1, <3>2, SectorTypes DEF FlashOK, Genuine, Intact
      <3>6. \A a \in Page : ~ Hides(flash', a)
        <4>1. CASE Blank(flash', Page)
          BY <4>1 DEF Blank, Hides, Tops
        <4>2. ASSUME NEW c \in Page, Leads(flash', Page, c), NEW a \in Page, Hides(flash', a)
              PROVE  FALSE
          <5>1. flash' \in [Page -> Sector]
            BY <1>3, <2>1, <3>1, SectorTypes
          <5>2. flash'[a].num \in Nat /\ flash'[c].num \in Nat
            BY <5>1 DEF Sector
          <5>3. QED
            BY <4>2, <5>2 DEF Leads, Hides, Tops
        <4>3. QED
          BY <3>4, <4>1, <4>2 DEF Sound
      <3>7. QED
        BY <1>1, <1>2, <1>5, <2>1, <2>2, <3>4, <3>5, <3>6 DEF FlashOK, BootOK
    <2>5. CASE ~ Allowed
      <3>1. flash' = flash
        BY <1>8, <2>5 DEF Discard
      <3>2. \A a \in Page : Hides(flash, a) => a = b
        BY <2>1, <2>3 DEF Hides, Tops
      <3>3. p[Boot].max <= flash[b].num
        BY <2>1, <2>3
      <3>4. \A a \in Page : Hides(flash, a) => p[Boot].max <= flash[a].num
        BY <3>2, <3>3
      <3>5. QED
        BY <1>1, <1>2, <1>5, <2>1, <2>2, <3>1, <3>4 DEF FlashOK, BootOK
    <2>6. QED
      BY <2>4, <2>5
  <1>9. QED
    BY <1>6, <1>7, <1>8

\* nv_restore ends, with the default or with the sector it has loaded.
LEMMA ReadStep ==
  ASSUME IInv, ReadDefault \/ ReadDone
  PROVE  FlashOK' /\ BootOK' /\ ThreadOK' /\ RamOK'
  <1>1. /\ TypeOK /\ FlashOK /\ BootOK /\ TornTail' = TornTail /\ up' = TRUE
        /\ flash' = flash
        /\ Boot \in Proc /\ Boot \notin Thread /\ Thread \subseteq Proc
    BY ProcAssumption DEF IInv, ReadDefault, ReadDone, Restored, Proc
  <1>2. /\ p \in [Proc -> Local] /\ flash \in [Page -> Sector]
    BY <1>1 DEF TypeOK
  <1>3. \A t \in Thread : p[t] = IdleProc
    BY BootAlone DEF ReadDefault, ReadDone, At
  <1>4. p'[Boot] = IdleProc /\ \A t \in Thread : p'[t] = p[t]
    BY <1>1, <1>2 DEF ReadDefault, ReadDone, Restored
  <1>5. ThreadOK' /\ BootOK'
    BY <1>1, <1>3, <1>4, ThreadsIdle, LocalTypes DEF BootOK
  <1>6. CASE ReadDefault
    <2>1. Sound(flash, Page)
      BY <1>1, <1>6 DEF BootOK, ReadDefault, At
    <2>2. QED
      BY <1>1, <1>5, <1>6, <2>1, DefaultAssumption DEF FlashOK, RamOK, ReadDefault
  <1>7. CASE ReadDone
    <2>1. Leads(flash, Page, p[Boot].cur) /\ p[Boot].buf = flash[p[Boot].cur]
      BY <1>1, <1>7 DEF BootOK, ReadDone, At
    <2>2. p[Boot].cur \in Page /\ Intact(flash[p[Boot].cur])
      BY <2>1 DEF Leads, Tops, Intact
    <2>3. ram' \in [Field -> Val]
      BY <1>1, <1>7, <2>1, <2>2 DEF ReadDone, FlashOK, Genuine
    <2>4. QED
      BY <1>1, <1>5, <2>1, <2>2, <2>3 DEF FlashOK, RamOK, Sound
  <1>8. QED
    BY <1>6, <1>7

-----------------------------------------------------------------------------
(* Every step keeps the invariant: the thread that saves                      *)

\* While the thread runs, the system is up, and the flash leads with one sector.
LEMMA ThreadRuns ==
  ASSUME IInv, NEW t \in Thread, NEW step, At(t, step)
  PROVE  /\ up /\ p[Boot] = IdleProc /\ Sound(flash, Page) /\ Genuine(flash)
         /\ p[t].pc = step /\ ram \in [Field -> Val]
  BY ProcAssumption DEF IInv, BootOK, FlashOK, RamOK, At, Runs

\* The start-up code is done for good.
LEMMA BootIdle ==
  ASSUME up', p'[Boot] = IdleProc
  PROVE  BootOK'
  BY LocalTypes DEF BootOK

\* After its write the thread is done, or saves the M3 core's part, or resets.
LEMMA ReturnedFacts ==
  ASSUME NEW t
  PROVE  \/ Returned(t) = IdleProc
         \/ Returned(t).pc = "scan" /\ Returned(t).set # {} /\ Returned(t).max = 0
         \/ Returned(t).pc = "reset"
  BY FieldAssumption DEF Returned, IdleProc

\* The thread is idle again, or at a step before it has chosen a sector.
LEMMA ThreadAnew ==
  ASSUME OneSaver, up', NEW t \in Thread,
         \/ p'[t] = IdleProc
         \/ p'[t].pc = "scan" /\ p'[t].set # {} /\ p'[t].max = 0
         \/ p'[t].pc = "reset"
         \/ p'[t].pc = "failed" /\ p'[t].set # {}
  PROVE  ThreadOK'
  BY LocalTypes DEF OneSaver, ThreadOK, ThreadInv

\* A thread begins to save: no other one does.
LEMMA CallStep ==
  ASSUME IInv, OneSaver, NEW t \in Thread, Call(t)
  PROVE  FlashOK' /\ BootOK' /\ ThreadOK' /\ RamOK'
  <1>1. At(t, "idle")
    BY DEF Call, SaveParam, SaveFactory
  <1>2. /\ up /\ p[Boot] = IdleProc /\ Sound(flash, Page) /\ Genuine(flash)
        /\ ram \in [Field -> Val]
    BY <1>1, ThreadRuns
  <1>3. /\ p \in [Proc -> Local] /\ t \in Proc /\ Boot \in Proc /\ Boot # t
    BY ProcAssumption DEF IInv, TypeOK, Proc
  <1>4. flash' = flash /\ up' = up /\ TornTail' = TornTail
    BY DEF Call, SaveParam, SaveFactory, power
  <1>5. /\ p'[Boot] = p[Boot]
        /\ p'[t].pc = "scan" /\ p'[t].set # {} /\ p'[t].max = 0
    <2>1. \A op, set : LET r == [IdleProc EXCEPT !.pc = "scan", !.op = op, !.set = set]
                       IN  r.pc = "scan" /\ r.set = set /\ r.max = 0
      BY DEF IdleProc
    <2>2. \A op, set : LET r == [IdleProc EXCEPT !.pc = "scan", !.op = op, !.set = set,
                                                 !.csm = FALSE]
                       IN  r.pc = "scan" /\ r.set = set /\ r.max = 0
      BY DEF IdleProc
    <2>3. CASE \E f \in AppField, v \in Val : SaveParam(t, f, v)
      BY <1>3, <2>1, <2>3 DEF SaveParam
    <2>4. CASE \E op \in {"factory", "reboot"} : SaveFactory(t, op)
      BY <1>3, <2>2, <2>4, FieldAssumption DEF SaveFactory
    <2>5. QED
      BY <2>3, <2>4 DEF Call
  <1>6. ram' \in [Field -> Val]
    <2>1. CASE \E f \in AppField, v \in Val : SaveParam(t, f, v)
      BY <1>2, <2>1 DEF SaveParam
    <2>2. CASE \E op \in {"factory", "reboot"} : SaveFactory(t, op)
      <3>1. PICK new \in [DspField -> Val] :
              ram' = [f \in Field |-> IF f \in DspField THEN new[f] ELSE ram[f]]
        BY <2>2 DEF SaveFactory
      <3>2. QED
        BY <1>2, <3>1
    <2>3. QED
      BY <2>1, <2>2 DEF Call
  <1>7. QED
    BY <1>2, <1>4, <1>5, <1>6, BootIdle, ThreadAnew DEF FlashOK, RamOK

\* A saving thread settles on the leading sector and erases nothing.
LEMMA ThreadChooses ==
  ASSUME IInv, OneSaver, NEW t \in Thread, Scan(t) \/ Load(t) \/ Discard(t)
  PROVE  FlashOK' /\ BootOK' /\ ThreadOK' /\ RamOK'
  <1>1. ThreadInv(t) /\ FlashOK /\ RamOK
    BY DEF IInv, ThreadOK
  <1>2. /\ up /\ p[Boot] = IdleProc /\ Sound(flash, Page) /\ Genuine(flash)
        /\ p[t].pc \in {"scan", "load", "discard"}
    BY ThreadRuns DEF Scan, Load, Discard
  <1>3. ~ Discard(t)
    BY <1>1 DEF ThreadInv, Discard, At
  <1>4. /\ p \in [Proc -> Local] /\ t \in Proc /\ Boot \in Proc /\ Boot # t
        /\ p[t] \in Local /\ flash \in [Page -> Sector]
    BY ProcAssumption DEF IInv, TypeOK, Proc
  <1>5. flash' = flash /\ up' = up /\ TornTail' = TornTail /\ ram' = ram
    BY <1>3 DEF Scan, Load, power
  <1>6. p'[Boot] = IdleProc
    BY <1>2, <1>3, <1>4 DEF Scan, Load
  <1>7. FlashOK' /\ BootOK' /\ RamOK'
    BY <1>1, <1>2, <1>5, <1>6, BootIdle DEF FlashOK, RamOK
  <1>8. p[t].set # {}
    BY <1>1, <1>2 DEF ThreadInv
  <1>9. CASE Scan(t)
    <2> DEFINE c == Chosen(flash, p[t].max)
    <2>1. p[t].max = 0 /\ p[t].max \in Nat
      BY <1>1, <1>4, <1>9 DEF ThreadInv, Scan, At, Local
    <2>2. /\ c # NoPage => Leads(flash, Page, c)
          /\ c = NoPage => Blank(flash, Page)
      BY <1>2, <2>1, ChosenType
    <2>3. /\ p'[t].pc = (IF c = NoPage THEN "empty" ELSE "load")
          /\ p'[t].cur = c /\ p'[t].set = p[t].set
      BY <1>4, <1>9 DEF Scan, Local
    <2>4. ThreadInv(t)'
      BY <1>2, <1>5, <1>8, <2>2, <2>3 DEF ThreadInv
    <2>5. QED
      BY <1>7, <2>4 DEF ThreadOK, OneSaver
  <1>10. CASE Load(t)
    <2> DEFINE c == p[t].cur
    <2>1. Leads(flash, Page, c)
      BY <1>1, <1>10 DEF ThreadInv, Load, At
    <2>2. c \in Page /\ flash[c].ok /\ c # NoPage
      BY <2>1, NPageAssumption DEF Leads, Tops, Page, NoPage
    <2>3. Recoverable(flash) = flash[c].data
      BY <1>4, <2>1, RecoversLeader
    <2>4. /\ p'[t].pc = "merge" /\ p'[t].cur = c /\ p'[t].set = p[t].set
          /\ p'[t].buf = flash[c]
      BY <1>4, <1>10, <2>2 DEF Load, Local
    <2>5. ThreadInv(t)'
      BY <1>2, <1>5, <1>8, <2>1, <2>2, <2>3, <2>4 DEF ThreadInv, Based, BaseNum
    <2>6. QED
      BY <1>7, <2>5 DEF ThreadOK, OneSaver
  <1>11. QED
    BY <1>3, <1>9, <1>10

\* The write, up to the erase.
LEMMA ThreadPrepares ==
  ASSUME IInv, OneSaver, NEW t \in Thread,
         WriteDefault(t) \/ WriteNothing(t) \/ MergeData(t) \/ CheckVbat(t)
  PROVE  FlashOK' /\ BootOK' /\ ThreadOK' /\ RamOK'
  <1>1. ThreadInv(t) /\ FlashOK /\ RamOK
    BY DEF IInv, ThreadOK
  <1>2. /\ up /\ p[Boot] = IdleProc /\ Sound(flash, Page) /\ Genuine(flash)
        /\ p[t].pc \in {"empty", "merge", "check"}
    BY ThreadRuns DEF WriteDefault, WriteNothing, MergeData, CheckVbat
  <1>3. /\ p \in [Proc -> Local] /\ t \in Proc /\ Boot \in Proc /\ Boot # t
        /\ p[t] \in Local /\ flash \in [Page -> Sector]
    BY ProcAssumption DEF IInv, TypeOK, Proc
  <1>4. flash' = flash /\ up' = up /\ TornTail' = TornTail /\ ram' = ram
    BY DEF WriteDefault, WriteNothing, MergeData, CheckVbat, power
  <1>5. p'[Boot] = IdleProc
    BY <1>2, <1>3 DEF WriteDefault, WriteNothing, MergeData, CheckVbat
  <1>6. FlashOK' /\ BootOK' /\ RamOK'
    BY <1>1, <1>2, <1>4, <1>5, BootIdle DEF FlashOK, RamOK
  <1>7. p[t].set # {}
    BY <1>1, <1>2 DEF ThreadInv
  <1>8. CASE WriteDefault(t)
    <2>1. p[t].cur = NoPage /\ Blank(flash, Page)
      BY <1>1, <1>8 DEF ThreadInv, WriteDefault, At
    <2>2. Recoverable(flash) = Default
      BY <2>1, RecoversDefault
    <2>3. /\ p'[t].pc = "merge" /\ p'[t].cur = p[t].cur /\ p'[t].set = p[t].set
          /\ p'[t].buf = [Erased EXCEPT !.data = Default]
      BY <1>3, <1>8 DEF WriteDefault, Local
    <2>4. p'[t].buf.num = 0 /\ p'[t].buf.data = Default
      BY <2>3 DEF Erased
    <2>5. ThreadInv(t)'
      BY <1>2, <1>4, <1>7, <2>1, <2>2, <2>3, <2>4 DEF ThreadInv, Based, BaseNum
    <2>6. QED
      BY <1>6, <2>5 DEF ThreadOK, OneSaver
  <1>9. CASE WriteNothing(t)
    <2>1. p'[t] = Returned(t)
      BY <1>3, <1>9 DEF WriteNothing
    <2>2. QED
      BY <1>2, <1>4, <1>6, <2>1, ReturnedFacts, ThreadAnew
  <1>10. CASE MergeData(t)
    <2>1. /\ Based(t) /\ p[t].buf.num = BaseNum(t)
          /\ p[t].buf.data = Recoverable(flash)
      BY <1>1, <1>10 DEF ThreadInv, MergeData, At
    <2>2. Updated(t) = [magic |-> TRUE, num |-> BaseNum(t) + 1, ok |-> TRUE,
                        data |-> Saved(t)]
      BY <2>1 DEF Updated, Merged, Saved
    <2>3. /\ p'[t].pc = "check" /\ p'[t].cur = p[t].cur /\ p'[t].set = p[t].set
          /\ p'[t].buf = Updated(t)
      BY <1>3, <1>10 DEF MergeData, Local
    <2>4. Based(t)' /\ BaseNum(t)' = BaseNum(t) /\ Saved(t)' = Saved(t)
      BY <1>4, <2>1, <2>3 DEF Based, BaseNum, Saved
    <2>5. ThreadInv(t)'
      BY <1>2, <1>4, <1>7, <2>2, <2>3, <2>4 DEF ThreadInv
    <2>6. QED
      BY <1>6, <2>5 DEF ThreadOK, OneSaver
  <1>11. CASE CheckVbat(t)
    <2>1. /\ Based(t)
          /\ p[t].buf = [magic |-> TRUE, num |-> BaseNum(t) + 1, ok |-> TRUE,
                         data |-> Saved(t)]
      BY <1>1, <1>11 DEF ThreadInv, CheckVbat, At
    <2>2. /\ p'[t].pc = (IF Allowed THEN "erase" ELSE "failed")
          /\ p'[t].cur = p[t].cur /\ p'[t].set = p[t].set /\ p'[t].buf = p[t].buf
      BY <1>3, <1>11 DEF CheckVbat, Local
    <2>3. Based(t)' /\ BaseNum(t)' = BaseNum(t) /\ Saved(t)' = Saved(t)
      BY <1>4, <2>1, <2>2 DEF Based, BaseNum, Saved
    <2>4. p'[t].pc \in {"erase", "failed"}
      BY <2>2
    <2>5. ThreadInv(t)'
      BY <1>2, <1>4, <1>7, <2>1, <2>2, <2>3, <2>4 DEF ThreadInv
    <2>6. QED
      BY <1>6, <2>5 DEF ThreadOK, OneSaver
  <1>12. QED
    BY <1>8, <1>9, <1>10, <1>11

\* The erase, torn or whole, leaves the sector the save started from.
LEMMA ThreadErases ==
  ASSUME IInv, OneSaver, NEW t \in Thread, EraseSector(t)
  PROVE  FlashOK' /\ BootOK' /\ ThreadOK' /\ RamOK' /\ Still(flash', t)
  <1>1. TypeOK /\ ThreadInv(t) /\ RamOK
    BY DEF IInv, ThreadOK
  <1>2. /\ up /\ p[Boot] = IdleProc /\ Genuine(flash) /\ p[t].pc = "erase"
    BY ThreadRuns DEF EraseSector
  <1>3. /\ p \in [Proc -> Local] /\ t \in Proc /\ Boot \in Proc /\ Boot # t
        /\ p[t] \in Local /\ flash \in [Page -> Sector]
    BY ProcAssumption DEF IInv, TypeOK, Proc
  <1>4. /\ Based(t) /\ p[t].set # {}
        /\ p[t].buf = [magic |-> TRUE, num |-> BaseNum(t) + 1, ok |-> TRUE,
                       data |-> Saved(t)]
    BY <1>1, <1>2 DEF ThreadInv
  <1> DEFINE i == NextPage(p[t].cur)
  <1>5. i \in Page
    BY <1>3, NextPageType DEF Local
  <1>6. /\ flash' = [flash EXCEPT ![i] = Erased] /\ flash'[i] = Erased
        /\ up' = up /\ ram' = ram
    BY <1>3, <1>5 DEF EraseSector
  <1>7. p'[Boot] = IdleProc
    BY <1>2, <1>3 DEF EraseSector
  <1>8. Still(flash', t)
    BY <1>1, <1>2, <1>4, <1>6, SectorTypes, BasedStays DEF Intact
  <1>9. FlashOK' /\ BootOK' /\ RamOK'
    BY <1>1, <1>2, <1>6, <1>7, <1>8, BootIdle DEF FlashOK, RamOK, Still, Sound
  <1>10. /\ p'[t].pc = "program" /\ p'[t].cur = p[t].cur /\ p'[t].set = p[t].set
         /\ p'[t].buf = p[t].buf
    BY <1>3 DEF EraseSector, Local
  <1>11. Based(t)' /\ BaseNum(t)' = BaseNum(t) /\ Saved(t)' = Saved(t)
    <2>1. Based(t)'
      BY <1>8, <1>10 DEF Still, Based
    <2>2. NoPage \notin Page
      BY NPageAssumption DEF Page, NoPage
    <2>3. BaseNum(t)' = BaseNum(t)
      BY <1>8, <1>10, <2>2 DEF Still, BaseNum
    <2>4. Recoverable(flash)' = Recoverable(flash)
      BY <1>8 DEF Still
    <2>5. Saved(t)' = Saved(t)
      BY <1>6, <1>10, <2>4 DEF Saved
    <2>6. QED
      BY <2>1, <2>3, <2>5
  <1>12. NextPage(p'[t].cur) = i
    BY <1>10
  <1>13. ThreadInv(t)'
    BY <1>2, <1>4, <1>6, <1>10, <1>11, <1>12 DEF ThreadInv
  <1>14. QED
    BY <1>8, <1>9, <1>13 DEF ThreadOK, OneSaver

\* A program that ends makes its copy the leading sector.
LEMMA ThreadPrograms ==
  ASSUME IInv, OneSaver, NEW t \in Thread, ProgramSector(t)
  PROVE  /\ FlashOK' /\ BootOK' /\ ThreadOK' /\ RamOK'
         /\ Recoverable(flash') = Saved(t) /\ Newest(flash') # {}
  <1>1. TypeOK /\ ThreadInv(t) /\ RamOK
    BY DEF IInv, ThreadOK
  <1>2. /\ up /\ p[Boot] = IdleProc /\ p[t].pc = "program"
    BY ThreadRuns DEF ProgramSector
  <1>3. /\ p \in [Proc -> Local] /\ t \in Proc /\ Boot \in Proc /\ Boot # t
        /\ p[t] \in Local /\ flash \in [Page -> Sector]
    BY ProcAssumption DEF IInv, TypeOK, Proc
  <1> DEFINE i == NextPage(p[t].cur)
             s == Programmed(flash[i], p[t].buf)
  <1>4. i \in Page /\ flash[i] = Erased
    BY <1>1, <1>2, <1>3, NextPageType DEF Local, ThreadInv
  <1>5. s \in TornProgram(flash[i], p[t].buf) /\ s = p[t].buf
    BY <1>4 DEF TornProgram, Programmed
  <1>6. flash' = [flash EXCEPT ![i] = s] /\ up' = up /\ ram' = ram
    BY <1>3, <1>4 DEF ProgramSector
  <1>7. /\ Genuine(flash') /\ Leads(flash', Page, i)
        /\ Recoverable(flash') = Saved(t) /\ Newest(flash') # {}
    BY <1>2, <1>5, <1>6, ProgramLeaves
  <1>8. p'[Boot] = IdleProc /\ p'[t] = Returned(t)
    BY <1>2, <1>3 DEF ProgramSector
  <1>9. ThreadOK'
    BY <1>2, <1>6, <1>8, ReturnedFacts, ThreadAnew
  <1>10. QED
    BY <1>1, <1>2, <1>4, <1>6, <1>7, <1>8, <1>9, BootIdle DEF FlashOK, RamOK, Sound

-----------------------------------------------------------------------------
(* Every step                                                                 *)

\* The invariant is inductive.
LEMMA InvStep == OneSaver /\ IInv /\ [Next]_vars => IInv'
  <1> SUFFICES ASSUME OneSaver, IInv, [Next]_vars PROVE IInv'
    OBVIOUS
  <1>1. /\ TypeOK /\ Genuine(flash) /\ flash \in [Page -> Sector]
        /\ Sound(flash, Page) \/ (TornTail /\ \E b \in Page : Hides(flash, b))
    BY DEF IInv, TypeOK, FlashOK
  <1>2. TypeOK'
    <2>1. Settled
      BY SettlesOn DEF Settled
    <2>2. QED
      BY <1>1, <2>1, TypeStep
  <1>3. ASSUME NEW low \in BOOLEAN, Restart(flash, low)
        PROVE  IInv'
    BY <1>1, <1>3, RestartInv
  <1>4. ASSUME NEW q \in Proc, Choose(q)
        PROVE  IInv'
    <2>1. CASE LowVoltageReset(q)
      BY <1>3, <2>1 DEF LowVoltageReset
    <2>2. CASE q = Boot /\ ~ LowVoltageReset(q)
      BY <1>2, <1>4, <2>2, BootStep DEF Choose, IInv
    <2>3. CASE q \in Thread /\ ~ LowVoltageReset(q)
      BY <1>2, <1>4, <2>3, ThreadChooses DEF Choose, IInv
    <2>4. QED
      BY <2>1, <2>2, <2>3 DEF Proc
  <1>5. CASE ReadDefault \/ ReadDone
    BY <1>2, <1>5, ReadStep DEF IInv
  <1>6. ASSUME NEW t \in Thread, Call(t)
        PROVE  IInv'
    BY <1>2, <1>6, CallStep DEF IInv
  <1>7. ASSUME NEW t \in Thread, Write(t)
        PROVE  IInv'
    <2>1. CASE WriteFailed(t) \/ Reboot(t)
      BY <1>3, <2>1 DEF WriteFailed, Reboot
    <2>2. CASE EraseSector(t)
      BY <1>2, <2>2, ThreadErases DEF IInv
    <2>3. CASE ProgramSector(t)
      BY <1>2, <2>3, ThreadPrograms DEF IInv
    <2>4. CASE WriteDefault(t) \/ WriteNothing(t) \/ MergeData(t) \/ CheckVbat(t)
      BY <1>2, <2>4, ThreadPrepares DEF IInv
    <2>5. QED
      BY <1>7, <2>1, <2>2, <2>3, <2>4 DEF Write
  <1>8. CASE PowerLoss
    <2>1. PICK q \in Proc : \E fl \in Torn(q) : Restart(fl, FALSE)
      BY <1>8 DEF PowerLoss
    <2>2. PICK fl \in Torn(q) : Restart(fl, FALSE)
      BY <2>1
    <2>3. QED
      BY <1>1, <2>2, TornLeaves, RestartInv
  <1>9. CASE VoltageChanges \/ UNCHANGED vars
    <2>1. /\ flash' = flash /\ up' = up /\ p' = p /\ ram' = ram /\ TornTail' = TornTail
      BY <1>9 DEF VoltageChanges, vars
    <2>2. FlashOK' /\ BootOK' /\ RamOK'
      BY <2>1 DEF IInv, FlashOK, BootOK, RamOK
    <2>3. \A t \in Thread : ThreadInv(t) => ThreadInv(t)'
      BY <2>1 DEF ThreadInv, Based, BaseNum, Saved
    <2>4. QED
      BY <1>2, <2>2, <2>3 DEF IInv, ThreadOK
  <1>10. QED
    BY <1>4, <1>5, <1>6, <1>7, <1>8, <1>9 DEF Next

-----------------------------------------------------------------------------
(* Several threads that save while the DSP runs: the order of the sectors     *)
(* does not tell which is the last save, but damaged ones never come out on   *)
(* top.                                                                       *)

Damaged(s) == HeadTail(s) /\ ~ s.ok

\* Of the sectors S, none is damaged, or i is intact and above the damaged ones.
Clean(fl, S) == \A j \in S : ~ Damaged(fl[j])
Over(fl, S, i) == i \in S /\ Intact(fl[i]) /\ \A j \in S : Damaged(fl[j]) => Below(fl, j, i)

\* The scan does not settle on a damaged one.
Safe(fl, S) == Clean(fl, S) \/ \E i \in S : Over(fl, S, i)

\* It does not once one damaged sector is erased.
Half(fl) == \E b \in Page : Damaged(fl[b]) /\ Safe(fl, Page \ {b})

\* The damaged sectors have smaller write numbers.
Above(fl, n) == \A j \in Page : Damaged(fl[j]) => fl[j].num < n

\* The scan settles on c.
Top(fl, c) == /\ c \in Page /\ HeadTail(fl[c])
              /\ \A j \in Page \ {c} : HeadTail(fl[j]) => Below(fl, j, c)

FlashSafe == Genuine(flash) /\ (Safe(flash, Page) \/ (~ up /\ Half(flash)))

\* The start-up code discards a damaged sector the others are safe without.
BootSafe ==
  /\ up => p[Boot] = IdleProc
  /\ ~ up => /\ p[Boot].op = "read" /\ p[Boot].csm
             /\ p[Boot].pc \in {"scan", "load", "discard", "empty", "merge"}
  /\ p[Boot].pc = "scan" =>
       \/ Safe(flash, Page)
       \/ \E b \in Page : /\ HeadTail(flash[b]) /\ p[Boot].max <= flash[b].num
                          /\ Safe(flash, Page \ {b})
  /\ p[Boot].pc = "empty" => Safe(flash, Page)
  /\ p[Boot].pc \in {"load", "discard"} =>
       Top(flash, p[Boot].cur) /\ p[Boot].max = flash[p[Boot].cur].num
  /\ p[Boot].pc = "discard" =>
       ~ flash[p[Boot].cur].ok /\ Safe(flash, Page \ {p[Boot].cur})
  /\ p[Boot].pc = "merge" => /\ Over(flash, Page, p[Boot].cur)
                             /\ p[Boot].buf = flash[p[Boot].cur]

\* The sector that a save started from is above the damaged ones, unless another
\* save has erased it and is about to program it.
Stands(t) ==
  p[t].pc \in {"load", "empty", "merge", "check", "erase", "program"} =>
    IF p[t].cur = NoPage THEN Clean(flash, Page) ELSE Over(flash, Page, p[t].cur)
Replaced(t) == \E u \in Thread \ {t} : p[u].pc = "program" /\ NextPage(p[u].cur) = p[t].cur

\* So is the copy that it has made.
Copied(t) ==
  /\ p[t].pc = "merge" => /\ p[t].buf.data \in [Field -> Val]
                          /\ Above(flash, p[t].buf.num + 1)
  /\ p[t].pc \in {"check", "erase", "program"} =>
       Intact(p[t].buf) /\ p[t].buf.data \in [Field -> Val] /\ Above(flash, p[t].buf.num)

\* It keeps the others from running while it erases and programs.
Locks(t) == /\ p[t].pc \in {"erase", "program"} => sched = t
            /\ p[t].pc = "program" => flash[NextPage(p[t].cur)] = Erased

Steps(t) == /\ p[t].pc = "idle" \/ ~ up => p[t] = IdleProc
            /\ p[t].pc # "discard"
            /\ p[t].pc = "scan" => p[t].max = 0
            /\ p[t].pc = "load" => p[t].cur # NoPage
            /\ p[t].pc = "empty" => p[t].cur = NoPage

SaverSafe(t) == Steps(t) /\ (Replaced(t) \/ Stands(t)) /\ Copied(t) /\ Locks(t)

SInv == TypeOK /\ FlashSafe /\ BootSafe /\ (\A t \in Thread : SaverSafe(t)) /\ RamOK

\* The scan settles on a sector that the damaged ones are below, if all are safe.
LEMMA ChoosesOver ==
  ASSUME NEW fl \in [Page -> Sector], NEW max \in Nat, NEW c, c = Chosen(fl, max)
  PROVE  /\ c # NoPage => Top(fl, c) /\ fl[c].num >= max
         /\ c # NoPage /\ Safe(fl, Page) => Over(fl, Page, c)
         /\ c = NoPage /\ max = 0 => Clean(fl, Page)
         /\ c = NoPage => \A j \in Page : HeadTail(fl[j]) => fl[j].num < max
  <1>1. \/ c = NoPage /\ \A j \in Page : HeadTail(fl[j]) => fl[j].num < max
        \/ c # NoPage /\ Top(fl, c) /\ fl[c].num >= max
    BY ChoosesHighest DEF Top
  <1>2. ASSUME Top(fl, c), Safe(fl, Page)
        PROVE  Over(fl, Page, c)
    <2>1. ~ Damaged(fl[c])
      BY <1>2, BelowOrders DEF Top, Safe, Clean, Over, Damaged, Intact
    <2>2. QED
      BY <1>2, <2>1 DEF Top, Over, Damaged, Intact
  <1>3. \A j \in Page : fl[j].num \in Nat
    BY DEF Sector
  <1>4. c = NoPage /\ max = 0 => Clean(fl, Page)
    BY <1>1, <1>3 DEF Clean, Damaged
  <1>5. QED
    BY <1>1, <1>2, <1>4

\* Where the scan settles on c, and one damaged sector may be the cause: c is
\* intact, or it is the damaged one.
LEMMA TopOrHalf ==
  ASSUME NEW fl \in [Page -> Sector], NEW c, Top(fl, c),
         \/ Safe(fl, Page)
         \/ \E b \in Page : HeadTail(fl[b]) /\ Safe(fl, Page \ {b})
  PROVE  /\ fl[c].ok => Over(fl, Page, c)
         /\ ~ fl[c].ok => Safe(fl, Page \ {c})
  <1>1. c \in Page /\ HeadTail(fl[c])
        /\ \A j \in Page \ {c} : Damaged(fl[j]) \/ Intact(fl[j]) => Below(fl, j, c)
    BY DEF Top, Damaged, Intact
  <1>2. fl[c].ok => Over(fl, Page, c)
    BY <1>1 DEF Over, Damaged, Intact
  <1>3. ASSUME NEW S \in SUBSET Page, c \in S, Safe(fl, S)
        PROVE  fl[c].ok
    <2>1. CASE Clean(fl, S)
      BY <1>1, <1>3, <2>1 DEF Clean, Damaged
    <2>2. CASE \E i \in S : Over(fl, S, i)
      <3>1. PICK i \in S : Over(fl, S, i)
        BY <2>2
      <3>2. i # c /\ ~ fl[c].ok => Below(fl, c, i) /\ Below(fl, i, c)
        BY <1>1, <1>3, <3>1 DEF Over, Damaged
      <3>3. QED
        BY <1>1, <3>1, <3>2, BelowOrders DEF Over, Intact
    <2>3. QED
      BY <1>3, <2>1, <2>2 DEF Safe
  <1>4. ~ fl[c].ok => Safe(fl, Page \ {c})
    BY <1>1, <1>3
  <1>5. QED
    BY <1>2, <1>4

\* Changing a sector.
LEMMA SectorChanges ==
  ASSUME NEW fl \in [Page -> Sector], NEW k \in Page, NEW s \in Sector,
         NEW new, new = [fl EXCEPT ![k] = s]
  PROVE  /\ new \in [Page -> Sector]
         /\ Safe(fl, Page \ {k}) => /\ Safe(new, Page \ {k})
                                    /\ ~ Damaged(s) => Safe(new, Page)
                                    /\ Damaged(s) => Half(new)
         /\ ~ Damaged(s) => /\ \A i \in Page \ {k} : Over(fl, Page, i) => Over(new, Page, i)
                            /\ Clean(fl, Page) => Clean(new, Page)
                            /\ \A n : Above(fl, n) => Above(new, n)
         /\ Intact(s) /\ Above(fl, s.num) => Over(new, Page, k)
         /\ Genuine(fl) /\ (Intact(s) => s.data \in [Field -> Val]) => Genuine(new)
  <1>1. new[k] = s /\ \A j \in Page \ {k} : new[j] = fl[j]
    OBVIOUS
  <1>2. new \in [Page -> Sector]
    OBVIOUS
  <1>3. ASSUME NEW i \in Page \ {k}, NEW j \in Page \ {k}
        PROVE  Below(new, j, i) <=> Below(fl, j, i)
    BY <1>1 DEF Below
  <1>4. ASSUME Safe(fl, Page \ {k})
        PROVE  Safe(new, Page \ {k})
    BY <1>1, <1>3, <1>4 DEF Safe, Clean, Over
  <1>5. ASSUME Safe(new, Page \ {k}), ~ Damaged(s)
        PROVE  Safe(new, Page)
    BY <1>1, <1>5 DEF Safe, Clean, Over
  <1>6. ASSUME Safe(new, Page \ {k}), Damaged(s)
        PROVE  Half(new)
    BY <1>1, <1>6 DEF Half
  <1>7. ASSUME ~ Damaged(s), NEW i \in Page \ {k}, Over(fl, Page, i)
        PROVE  Over(new, Page, i)
    BY <1>1, <1>3, <1>7 DEF Over
  <1>8. ASSUME ~ Damaged(s)
        PROVE  /\ Clean(fl, Page) => Clean(new, Page)
               /\ \A n : Above(fl, n) => Above(new, n)
    BY <1>1, <1>8 DEF Clean, Above
  <1>9. ASSUME Intact(s), Above(fl, s.num)
        PROVE  Over(new, Page, k)
    BY <1>1, <1>9 DEF Over, Above, Below, Damaged, Intact
  <1>10. ASSUME Genuine(fl), Intact(s) => s.data \in [Field -> Val]
         PROVE  Genuine(new)
    BY <1>1, <1>10 DEF Genuine
  <1>11. QED
    BY <1>2, <1>4, <1>5, <1>6, <1>7, <1>8, <1>9, <1>10

\* Without the sector that a save writes, the others are safe.
LEMMA NextIsSpare ==
  ASSUME NEW fl \in [Page -> Sector], NEW c \in Page \cup {NoPage},
         IF c = NoPage THEN Clean(fl, Page) ELSE Over(fl, Page, c)
  PROVE  NextPage(c) \in Page /\ Safe(fl, Page \ {NextPage(c)})
  <1>1. NextPage(c) \in Page /\ (c \in Page => NextPage(c) # c)
    BY NextPageType
  <1>2. CASE c = NoPage
    BY <1>1, <1>2 DEF Safe, Clean
  <1>3. CASE c # NoPage
    <2>1. c \in Page /\ Over(fl, Page \ {NextPage(c)}, c)
      BY <1>1, <1>3 DEF Over
    <2>2. QED
      BY <1>1, <2>1 DEF Safe, Over
  <1>4. QED
    BY <1>2, <1>3

\* The region is erased and the start-up code begins its scan.
LEMMA SafeInit == Init => SInv
  <1> SUFFICES ASSUME Init PROVE SInv
    OBVIOUS
  <1>1. /\ p = Starting /\ ~ up /\ flash = [i \in Page |-> Erased]
    BY DEF Init
  <1>2. TypeOK
    BY InitInv DEF IInv
  <1>3. Safe(flash, Page) /\ Genuine(flash)
    BY <1>1, SectorTypes DEF Safe, Clean, Damaged, Genuine, Intact
  <1>4. BootSafe
    BY <1>1, <1>3, LocalTypes DEF BootSafe
  <1>5. \A t \in Thread : SaverSafe(t)
    BY <1>1, LocalTypes DEF SaverSafe, Steps, Stands, Copied, Locks
  <1>6. QED
    BY <1>1, <1>2, <1>3, <1>4, <1>5 DEF SInv, FlashSafe, RamOK

\* After a reset, whatever the power has left of the sectors.
LEMMA RestartSafe ==
  ASSUME TypeOK, NEW fl \in [Page -> Sector], NEW low \in BOOLEAN, Restart(fl, low),
         Genuine(fl), Safe(fl, Page) \/ Half(fl)
  PROVE  SInv'
  <1>1. p' = Starting /\ ~ up' /\ up' \in BOOLEAN /\ flash' = fl /\ TornTail' = TornTail
    BY DEF Restart
  <1>2. TypeOK'
    BY <1>1, LocalTypes DEF Restart, TypeOK
  <1>3. FlashSafe'
    BY <1>1 DEF FlashSafe
  <1>4. BootSafe'
    <2>1. \A b \in Page : 0 <= fl[b].num
      BY DEF Sector
    <2>2. \/ Safe(fl, Page)
          \/ \E b \in Page : HeadTail(fl[b]) /\ 0 <= fl[b].num /\ Safe(fl, Page \ {b})
      BY <2>1 DEF Half, Damaged
    <2>3. QED
      BY <1>1, <2>2, LocalTypes DEF BootSafe
  <1>5. \A t \in Thread : SaverSafe(t)'
    BY <1>1, LocalTypes DEF SaverSafe, Steps, Stands, Copied, Locks
  <1>6. QED
    BY <1>1, <1>2, <1>3, <1>4, <1>5 DEF SInv, RamOK

\* Idle threads are safe.
LEMMA IdleSafe ==
  ASSUME \A t \in Thread : p'[t] = IdleProc
  PROVE  \A t \in Thread : SaverSafe(t)'
  BY LocalTypes DEF SaverSafe, Steps, Stands, Copied, Locks

\* xy_choose_valid_ftl at start-up, with the sectors it erases.
LEMMA BootChooses ==
  ASSUME SInv, Scan(Boot) \/ Load(Boot) \/ Discard(Boot)
  PROVE  FlashSafe' /\ BootSafe' /\ (\A t \in Thread : SaverSafe(t)') /\ RamOK'
  <1>1. /\ TypeOK /\ FlashSafe /\ BootSafe /\ TornTail' = TornTail /\ up' = up
        /\ Boot \in Proc /\ Boot \notin Thread /\ Thread \subseteq Proc
    BY ProcAssumption DEF SInv, Scan, Load, Discard, power, Proc
  <1>2. ~ up /\ p[Boot].op = "read" /\ p[Boot].csm /\ \A t \in Thread : p[t] = IdleProc
    BY <1>1, LocalTypes DEF SInv, BootSafe, SaverSafe, Steps, Scan, Load, Discard, At
  <1>3. /\ p \in [Proc -> Local] /\ flash \in [Page -> Sector] /\ p[Boot] \in Local
    BY <1>1 DEF TypeOK
  <1>4. \A t \in Thread : p'[t] = IdleProc
    BY <1>1, <1>2, <1>3 DEF Scan, Load, Discard
  <1>5. (\A t \in Thread : SaverSafe(t)') /\ RamOK'
    BY <1>1, <1>2, <1>4, IdleSafe DEF RamOK
  <1>6. \A j \in Page : flash[j].num \in Nat
    BY <1>3 DEF Sector
  <1>7. CASE Scan(Boot)
    <2> DEFINE max == p[Boot].max
               c   == Chosen(flash, max)
    <2>1. max \in Nat
      BY <1>3 DEF Local
    <2>2. \/ Safe(flash, Page)
          \/ \E b \in Page : HeadTail(flash[b]) /\ max <= flash[b].num /\ Safe(flash, Page \ {b})
      BY <1>1, <1>7 DEF BootSafe, Scan, At
    <2>3. /\ c # NoPage => Top(flash, c)
          /\ c = NoPage => \A j \in Page : HeadTail(flash[j]) => flash[j].num < max
      BY <1>3, <2>1, ChoosesOver
    <2>4. flash' = flash
      BY <1>7 DEF Scan
    <2>5. FlashSafe'
      BY <1>1, <2>4 DEF FlashSafe
    <2>6. CASE c = NoPage
      <3>1. p'[Boot].pc = "empty" /\ p'[Boot].op = "read" /\ p'[Boot].csm
        BY <1>1, <1>2, <1>3, <1>7, <2>6 DEF Scan
      <3>2. ASSUME NEW b \in Page, HeadTail(flash[b]), max <= flash[b].num
            PROVE  FALSE
        BY <1>6, <2>1, <2>3, <2>6, <3>2
      <3>3. Safe(flash, Page)
        BY <2>2, <3>2
      <3>4. QED
        BY <1>1, <1>2, <1>5, <2>4, <2>5, <3>1, <3>3 DEF BootSafe
    <2>7. CASE c # NoPage
      <3>1. /\ p'[Boot].pc = "load" /\ p'[Boot].op = "read" /\ p'[Boot].csm
            /\ p'[Boot].cur = c /\ p'[Boot].max = flash[c].num
        BY <1>1, <1>2, <1>3, <1>7, <2>7 DEF Scan, Local
      <3>2. QED
        BY <1>1, <1>2, <1>5, <2>3, <2>4, <2>5, <2>7, <3>1 DEF BootSafe
    <2>8. QED
      BY <2>6, <2>7
  <1>8. CASE Load(Boot)
    <2> DEFINE c == p[Boot].cur
    <2>1. Top(flash, c) /\ p[Boot].max = flash[c].num
      BY <1>1, <1>8 DEF BootSafe, Load, At
    <2>2. /\ flash[c].ok => Over(flash, Page, c)
          /\ ~ flash[c].ok => Safe(flash, Page \ {c})
      BY <1>1, <1>3, <2>1, TopOrHalf DEF FlashSafe, Half, Damaged
    <2>3. flash' = flash
      BY <1>8 DEF Load
    <2>4. FlashSafe'
      BY <1>1, <2>3 DEF FlashSafe
    <2>5. /\ p'[Boot].pc = (IF ~ flash[c].ok THEN "discard" ELSE "merge")
          /\ p'[Boot].op = "read" /\ p'[Boot].csm /\ p'[Boot].cur = c
          /\ p'[Boot].max = p[Boot].max /\ p'[Boot].buf = flash[c]
      BY <1>1, <1>2, <1>3, <1>8 DEF Load, Local
    <2>6. QED
      BY <1>1, <1>2, <1>5, <2>1, <2>2, <2>3, <2>4, <2>5 DEF BootSafe
  <1>9. CASE Discard(Boot)
    <2> DEFINE b == p[Boot].cur
    <2>1. Top(flash, b) /\ p[Boot].max = flash[b].num /\ Safe(flash, Page \ {b})
      BY <1>1, <1>9 DEF BootSafe, Discard, At
    <2>2. b \in Page /\ HeadTail(flash[b])
      BY <2>1 DEF Top
    <2>3. /\ p'[Boot].pc = "scan" /\ p'[Boot].op = "read" /\ p'[Boot].csm
          /\ p'[Boot].max = p[Boot].max
      BY <1>1, <1>2, <1>3, <1>9 DEF Discard, Local
    <2>4. CASE Allowed
      <3>1. flash' = [flash EXCEPT ![b] = Erased]
        BY <1>9, <2>4 DEF Discard
      <3>2. Genuine(flash) /\ ~ Damaged(Erased) /\ ~ Intact(Erased)
        BY <1>1, SectorTypes DEF FlashSafe, Damaged, Intact
      <3> HIDE DEF b
      <3>3. Safe(flash', Page) /\ Genuine(flash')
        BY <1>3, <2>1, <2>2, <3>1, <3>2, SectorTypes, SectorChanges
      <3>4. QED
        BY <1>1, <1>2, <1>5, <2>3, <3>3 DEF FlashSafe, BootSafe
    <2>5. CASE ~ Allowed
      <3>1. flash' = flash
        BY <1>9, <2>5 DEF Discard
      <3>2. FlashSafe'
        BY <1>1, <3>1 DEF FlashSafe
      <3>3. p'[Boot].max <= flash[b].num
        BY <1>6, <2>1, <2>2, <2>3
      <3>4. QED
        BY <1>1, <1>2, <1>5, <2>1, <2>2, <2>3, <3>1, <3>2, <3>3 DEF BootSafe
    <2>6. QED
      BY <2>4, <2>5
  <1>10. QED
    BY <1>7, <1>8, <1>9

\* nv_restore ends.
LEMMA BootReturns ==
  ASSUME SInv, ReadDefault \/ ReadDone
  PROVE  FlashSafe' /\ BootSafe' /\ (\A t \in Thread : SaverSafe(t)') /\ RamOK'
  <1>1. /\ TypeOK /\ FlashSafe /\ BootSafe /\ up' /\ flash' = flash
        /\ p' = [p EXCEPT ![Boot] = IdleProc]
        /\ Boot \in Proc /\ Boot \notin Thread /\ Thread \subseteq Proc
    BY ProcAssumption DEF SInv, ReadDefault, ReadDone, Restored, Proc
  <1>2. p \in [Proc -> Local]
    BY <1>1 DEF TypeOK
  <1>3. \A t \in Thread : p[t] = IdleProc
    BY <1>1, LocalTypes DEF SInv, BootSafe, SaverSafe, Steps, ReadDefault, ReadDone, At
  <1>4. p'[Boot] = IdleProc /\ \A t \in Thread : p'[t] = IdleProc
    BY <1>1, <1>2, <1>3
  <1>5. (\A t \in Thread : SaverSafe(t)') /\ BootSafe'
    BY <1>1, <1>4, IdleSafe, LocalTypes DEF BootSafe
  <1>6. Safe(flash, Page) /\ ram' \in [Field -> Val]
    <2>1. CASE ReadDefault
      BY <1>1, <2>1, DefaultAssumption DEF BootSafe, ReadDefault, At
    <2>2. CASE ReadDone
      <3>1. Over(flash, Page, p[Boot].cur) /\ p[Boot].buf = flash[p[Boot].cur]
        BY <1>1, <2>2 DEF BootSafe, ReadDone, At
      <3>2. p[Boot].cur \in Page /\ Intact(flash[p[Boot].cur])
        BY <3>1 DEF Over
      <3>3. QED
        BY <1>1, <2>2, <3>1, <3>2 DEF ReadDone, FlashSafe, Genuine, Safe
    <2>3. QED
      BY <2>1, <2>2
  <1>7. QED
    BY <1>1, <1>5, <1>6 DEF FlashSafe, RamOK

\* While a thread runs, no other one erases or programs.
LEMMA SaverRuns ==
  ASSUME SInv, NEW t \in Thread, Runs(t)
  PROVE  /\ up /\ p[Boot] = IdleProc /\ ram \in [Field -> Val]
         /\ Genuine(flash) /\ Safe(flash, Page)
         /\ \A u \in Thread \ {t} : p[u].pc \notin {"erase", "program"}
         /\ Stands(t)
         /\ p[t].pc # "program" => \A u \in Thread : Stands(u)
  <1>1. /\ up /\ sched \in {NoProc, t} /\ NoProc \notin Thread
        /\ \A u \in Thread : Locks(u) /\ (Replaced(u) \/ Stands(u))
    BY ProcAssumption DEF SInv, SaverSafe, Runs, Proc
  <1>2. \A u \in Thread \ {t} : p[u].pc \notin {"erase", "program"}
    BY <1>1 DEF Locks
  <1>3. QED
    BY <1>1, <1>2 DEF SInv, FlashSafe, BootSafe, RamOK, Replaced

\* A thread that a step of another one leaves alone, flash and all.
LEMMA OthersSafe ==
  ASSUME NEW u \in Thread, up, up', SaverSafe(u), Stands(u), flash' = flash,
         p'[u] = p[u], p[u].pc \notin {"erase", "program"}
  PROVE  SaverSafe(u)'
  BY DEF SaverSafe, Steps, Stands, Copied, Locks

\* A step of a saving thread that leaves the flash alone.
LEMMA QuietStep ==
  ASSUME SInv, NEW t \in Thread, Runs(t), p[t].pc # "program", flash' = flash, up' = up,
         \A q \in Proc \ {t} : p'[q] = p[q], ram' \in [Field -> Val],
         Steps(t)', Stands(t)', Copied(t)', Locks(t)'
  PROVE  FlashSafe' /\ BootSafe' /\ (\A u \in Thread : SaverSafe(u)') /\ RamOK'
  <1>1. /\ up /\ p[Boot] = IdleProc /\ Genuine(flash) /\ Safe(flash, Page)
        /\ \A u \in Thread \ {t} : p[u].pc \notin {"erase", "program"} /\ Stands(u)
    BY SaverRuns
  <1>2. p'[Boot] = IdleProc /\ \A u \in Thread \ {t} : p'[u] = p[u]
    BY <1>1, ProcAssumption DEF Proc
  <1>3. \A u \in Thread \ {t} : SaverSafe(u)'
    BY <1>1, <1>2, OthersSafe DEF SInv
  <1>4. SaverSafe(t)'
    BY DEF SaverSafe
  <1>5. BootSafe'
    BY <1>1, <1>2, LocalTypes DEF BootSafe
  <1>6. QED
    BY <1>1, <1>3, <1>4, <1>5 DEF FlashSafe, RamOK

\* A thread at a step before it has settled on a sector.
LEMMA SaverAnew ==
  ASSUME NEW t \in Thread, up',
         \/ p'[t] = IdleProc
         \/ p'[t].pc = "scan" /\ p'[t].max = 0
         \/ p'[t].pc \in {"reset", "failed"}
  PROVE  Steps(t)' /\ Stands(t)' /\ Copied(t)' /\ Locks(t)'
  BY LocalTypes DEF Steps, Stands, Copied, Locks

\* A thread begins to save.
LEMMA SaverCalls ==
  ASSUME SInv, NEW t \in Thread, Call(t)
  PROVE  FlashSafe' /\ BootSafe' /\ (\A u \in Thread : SaverSafe(u)') /\ RamOK'
  <1>1. Runs(t) /\ p[t].pc # "program" /\ flash' = flash /\ up' = up /\ up
    BY DEF Call, SaveParam, SaveFactory, At
  <1>2. p \in [Proc -> Local] /\ t \in Proc /\ ram \in [Field -> Val]
    BY <1>1 DEF SInv, TypeOK, Proc, RamOK
  <1>3. /\ \A q \in Proc \ {t} : p'[q] = p[q]
        /\ p'[t].pc = "scan" /\ p'[t].max = 0
    <2>1. \A op, set : LET r == [IdleProc EXCEPT !.pc = "scan", !.op = op, !.set = set]
                       IN  r.pc = "scan" /\ r.max = 0
      BY DEF IdleProc
    <2>2. \A op, set : LET r == [IdleProc EXCEPT !.pc = "scan", !.op = op, !.set = set,
                                                 !.csm = FALSE]
                       IN  r.pc = "scan" /\ r.max = 0
      BY DEF IdleProc
    <2>3. CASE \E f \in AppField, v \in Val : SaveParam(t, f, v)
      BY <1>2, <2>1, <2>3 DEF SaveParam
    <2>4. CASE \E op \in {"factory", "reboot"} : SaveFactory(t, op)
      BY <1>2, <2>2, <2>4 DEF SaveFactory
    <2>5. QED
      BY <2>3, <2>4 DEF Call
  <1>4. ram' \in [Field -> Val]
    <2>1. CASE \E f \in AppField, v \in Val : SaveParam(t, f, v)
      BY <1>2, <2>1 DEF SaveParam
    <2>2. CASE \E op \in {"factory", "reboot"} : SaveFactory(t, op)
      <3>1. PICK new \in [DspField -> Val] :
              ram' = [f \in Field |-> IF f \in DspField THEN new[f] ELSE ram[f]]
        BY <2>2 DEF SaveFactory
      <3>2. QED
        BY <1>2, <3>1
    <2>3. QED
      BY <2>1, <2>2 DEF Call
  <1>5. QED
    BY <1>1, <1>3, <1>4, SaverAnew, QuietStep

\* A saving thread settles on a sector and erases none.
LEMMA SaverChooses ==
  ASSUME SInv, NEW t \in Thread, Scan(t) \/ Load(t) \/ Discard(t)
  PROVE  FlashSafe' /\ BootSafe' /\ (\A u \in Thread : SaverSafe(u)') /\ RamOK'
  <1>1. /\ Runs(t) /\ SaverSafe(t) /\ p \in [Proc -> Local] /\ t \in Proc
        /\ flash \in [Page -> Sector] /\ p[t] \in Local
    BY DEF SInv, TypeOK, Proc, Scan, Load, Discard, At
  <1>2. /\ up /\ ram \in [Field -> Val] /\ Genuine(flash) /\ Safe(flash, Page) /\ Stands(t)
    BY <1>1, SaverRuns
  <1>3. ~ Discard(t)
    BY <1>1 DEF SaverSafe, Steps, Discard, At
  <1>4. /\ flash' = flash /\ up' = up /\ ram' = ram /\ p[t].pc # "program"
        /\ \A q \in Proc \ {t} : p'[q] = p[q]
    BY <1>1, <1>3 DEF Scan, Load, At
  <1>5. CASE Scan(t)
    <2> DEFINE c == Chosen(flash, 0)
    <2>1. p[t].max = 0 /\ 0 \in Nat
      BY <1>1, <1>5 DEF SaverSafe, Steps, Scan, At
    <2>2. IF c = NoPage THEN Clean(flash, Page) ELSE Over(flash, Page, c)
      BY <1>1, <1>2, <2>1, ChoosesOver
    <2>3. p'[t].pc = (IF c = NoPage THEN "empty" ELSE "load") /\ p'[t].cur = c
      BY <1>1, <1>5, <2>1 DEF Scan, Local
    <2>4. Steps(t)' /\ Stands(t)' /\ Copied(t)' /\ Locks(t)'
      BY <1>2, <1>4, <2>2, <2>3 DEF Steps, Stands, Copied, Locks
    <2>5. QED
      BY <1>1, <1>2, <1>4, <2>4, QuietStep
  <1>6. CASE Load(t)
    <2> DEFINE c == p[t].cur
    <2>1. c # NoPage /\ Over(flash, Page, c)
      BY <1>1, <1>2, <1>6 DEF SaverSafe, Steps, Stands, Load, At
    <2>2. c \in Page /\ Intact(flash[c])
      BY <2>1 DEF Over
    <2>3. p'[t].pc = "merge" /\ p'[t].cur = c /\ p'[t].buf = flash[c]
      BY <1>1, <1>6, <2>2 DEF Load, Local, Intact
    <2>4. flash[c].data \in [Field -> Val]
      BY <1>2, <2>2 DEF Genuine
    <2>5. Above(flash, flash[c].num + 1)
      <3>1. \A j \in Page : flash[j].num \in Nat
        BY <1>1 DEF Sector
      <3>2. \A j \in Page : Damaged(flash[j]) => flash[j].num <= flash[c].num
        BY <2>1, <2>2, <3>1 DEF Over, Below
      <3>3. QED
        BY <2>2, <3>1, <3>2 DEF Above
    <2>6. Steps(t)' /\ Stands(t)' /\ Copied(t)' /\ Locks(t)'
      BY <1>2, <1>4, <2>1, <2>3, <2>4, <2>5 DEF Steps, Stands, Copied, Locks
    <2>7. QED
      BY <1>1, <1>2, <1>4, <2>6, QuietStep
  <1>7. QED
    BY <1>3, <1>5, <1>6

\* Then it makes its copy, and locks scheduling before the DSP erases.
LEMMA SaverPrepares ==
  ASSUME SInv, DualCore, NEW t \in Thread,
         WriteDefault(t) \/ WriteNothing(t) \/ MergeData(t) \/ CheckVbat(t)
  PROVE  FlashSafe' /\ BootSafe' /\ (\A u \in Thread : SaverSafe(u)') /\ RamOK'
  <1>1. /\ Runs(t) /\ SaverSafe(t) /\ p \in [Proc -> Local] /\ t \in Proc
        /\ p[t] \in Local
    BY DEF SInv, TypeOK, Proc, WriteDefault, WriteNothing, MergeData, CheckVbat, At
  <1>2. /\ up /\ ram \in [Field -> Val] /\ Stands(t)
    BY <1>1, SaverRuns
  <1>3. /\ flash' = flash /\ up' = up /\ ram' = ram /\ p[t].pc # "program"
        /\ \A q \in Proc \ {t} : p'[q] = p[q]
    BY <1>1 DEF WriteDefault, WriteNothing, MergeData, CheckVbat, At
  <1>4. CASE WriteDefault(t)
    <2>1. p[t].cur = NoPage /\ Clean(flash, Page)
      BY <1>1, <1>2, <1>4 DEF SaverSafe, Steps, Stands, WriteDefault, At
    <2>2. p'[t].pc = "merge" /\ p'[t].cur = NoPage /\ p'[t].buf.data = Default
      BY <1>1, <1>4, <2>1 DEF WriteDefault, Local, Erased
    <2>3. Steps(t)' /\ Stands(t)' /\ Copied(t)' /\ Locks(t)'
      BY <1>2, <1>3, <2>1, <2>2, DefaultAssumption
         DEF Steps, Stands, Copied, Locks, Clean, Above
    <2>4. QED
      BY <1>1, <1>2, <1>3, <2>3, QuietStep
  <1>5. CASE WriteNothing(t)
    <2>1. p'[t] = Returned(t)
      BY <1>1, <1>5 DEF WriteNothing
    <2>2. QED
      BY <1>1, <1>2, <1>3, <2>1, ReturnedFacts, SaverAnew, QuietStep
  <1>6. CASE MergeData(t)
    <2>1. /\ p[t].buf.data \in [Field -> Val] /\ Above(flash, p[t].buf.num + 1)
          /\ p[t].buf.num \in Nat
          /\ IF p[t].cur = NoPage THEN Clean(flash, Page) ELSE Over(flash, Page, p[t].cur)
      BY <1>1, <1>2, <1>6 DEF SaverSafe, Stands, Copied, MergeData, At, Local, Sector
    <2>2. p'[t].pc = "check" /\ p'[t].cur = p[t].cur /\ p'[t].buf = Updated(t)
      BY <1>1, <1>6 DEF MergeData, Local
    <2>3. Merged(t) \in [Field -> Val]
      BY <1>2, <2>1 DEF Merged
    <2>4. /\ Updated(t).data = Merged(t) /\ Updated(t).num = p[t].buf.num + 1
          /\ Intact(Updated(t))
      BY <2>1 DEF Updated, Intact, HeadTail
    <2>5. Steps(t)' /\ Stands(t)' /\ Copied(t)' /\ Locks(t)'
      BY <1>2, <1>3, <2>1, <2>2, <2>3, <2>4 DEF Steps, Stands, Copied, Locks
    <2>6. QED
      BY <1>1, <1>2, <1>3, <2>5, QuietStep
  <1>7. CASE CheckVbat(t)
    <2>1. /\ p'[t].pc = (IF Allowed THEN "erase" ELSE "failed")
          /\ p'[t].cur = p[t].cur /\ p'[t].buf = p[t].buf
          /\ Allowed => sched' = t
          /\ p[t].pc = "check"
      BY <1>1, <1>7 DEF CheckVbat, Local, At
    <2>2. Copied(t) /\ Stands(t)
      BY <1>1, <1>2 DEF SaverSafe
    <2>3. Steps(t)' /\ Stands(t)' /\ Copied(t)' /\ Locks(t)'
      BY <1>2, <1>3, <2>1, <2>2 DEF Steps, Stands, Copied, Locks
    <2>4. QED
      BY <1>1, <1>2, <1>3, <2>3, QuietStep
  <1>8. QED
    BY <1>4, <1>5, <1>6, <1>7

\* What a saving thread may rely on while it erases and programs.
LEMMA SaverWrites ==
  ASSUME SInv, NEW t \in Thread, Runs(t), p[t].pc \in {"erase", "program"},
         NEW k, k = NextPage(p[t].cur)
  PROVE  /\ k \in Page /\ p[t].cur # k /\ k # NoPage /\ Safe(flash, Page \ {k})
         /\ p[t].cur \in Page \cup {NoPage}
         /\ IF p[t].cur = NoPage THEN Clean(flash, Page) ELSE Over(flash, Page, p[t].cur)
         /\ p[t].buf \in Sector /\ Intact(p[t].buf) /\ p[t].buf.data \in [Field -> Val]
         /\ Above(flash, p[t].buf.num)
         /\ p[t].pc = "program" => flash[k] = Erased
  <1>1. /\ SaverSafe(t) /\ p[t] \in Local /\ flash \in [Page -> Sector]
    BY DEF SInv, TypeOK, Proc
  <1>2. p[t].cur \in Page \cup {NoPage} /\ p[t].buf \in Sector
    BY <1>1 DEF Local
  <1>3. IF p[t].cur = NoPage THEN Clean(flash, Page) ELSE Over(flash, Page, p[t].cur)
    BY SaverRuns DEF Stands
  <1>4. k \in Page /\ Safe(flash, Page \ {k})
    BY <1>1, <1>2, <1>3, NextIsSpare
  <1>5. k # NoPage /\ p[t].cur # k
    BY <1>2, <1>4, NextPageType, NPageAssumption DEF Page, NoPage
  <1>6. QED
    BY <1>1, <1>2, <1>3, <1>4, <1>5 DEF SaverSafe, Copied, Locks

\* Whoever had settled on the sector that t writes is replaced until it is
\* programmed, and starts from the new copy then.
LEMMA OthersFollow ==
  ASSUME NEW u \in Thread, NEW k \in Page, NEW s \in Sector, ~ Damaged(s),
         flash \in [Page -> Sector], flash' = [flash EXCEPT ![k] = s], up, up',
         SaverSafe(u), p'[u] = p[u], p[u].pc \notin {"erase", "program"},
         Stands(u) \/ p[u].cur = k,
         p[u].cur = k => Replaced(u)' \/ Over(flash', Page, k)
  PROVE  SaverSafe(u)'
  <1>1. /\ \A i \in Page \ {k} : Over(flash, Page, i) => Over(flash', Page, i)
        /\ Clean(flash, Page) => Clean(flash', Page)
        /\ \A n : Above(flash, n) => Above(flash', n)
    BY SectorChanges
  <1>2. Steps(u)' /\ Copied(u)' /\ Locks(u)'
    BY <1>1 DEF SaverSafe, Steps, Copied, Locks
  <1>3. k # NoPage
    BY NPageAssumption DEF Page, NoPage
  <1>4. CASE p[u].cur = k
    BY <1>2, <1>3, <1>4 DEF SaverSafe, Stands
  <1>5. CASE p[u].cur # k
    <2>1. Stands(u)
      BY <1>5
    <2>2. \A i : Over(flash, Page, i) => i \in Page
      BY DEF Over
    <2>3. Stands(u)'
      BY <1>1, <1>5, <2>1, <2>2 DEF Stands
    <2>4. QED
      BY <1>2, <2>3 DEF SaverSafe
  <1>6. QED
    BY <1>4, <1>5

\* The DSP erases the next sector.
LEMMA SaverErases ==
  ASSUME SInv, NEW t \in Thread, EraseSector(t)
  PROVE  FlashSafe' /\ BootSafe' /\ (\A u \in Thread : SaverSafe(u)') /\ RamOK'
  <1> DEFINE k == NextPage(p[t].cur)
  <1>1. /\ Runs(t) /\ SaverSafe(t) /\ p \in [Proc -> Local] /\ t \in Proc
        /\ flash \in [Page -> Sector] /\ p[t] \in Local /\ p[t].pc = "erase"
    BY DEF SInv, TypeOK, Proc, EraseSector, At
  <1>2. /\ up /\ p[Boot] = IdleProc /\ ram \in [Field -> Val] /\ Genuine(flash)
        /\ \A u \in Thread \ {t} : p[u].pc \notin {"erase", "program"} /\ Stands(u)
    BY <1>1, SaverRuns
  <1>3. /\ flash' = [flash EXCEPT ![k] = Erased] /\ up' = up /\ ram' = ram /\ sched' = sched
        /\ p'[t].pc = "program" /\ p'[t].cur = p[t].cur /\ p'[t].buf = p[t].buf
        /\ p'[Boot] = IdleProc /\ \A u \in Thread \ {t} : p'[u] = p[u]
    BY <1>1, <1>2, ProcAssumption DEF EraseSector, Local, Proc
  <1>4. /\ k \in Page /\ p[t].cur # k /\ k # NoPage /\ Safe(flash, Page \ {k})
        /\ p[t].cur \in Page \cup {NoPage}
        /\ IF p[t].cur = NoPage THEN Clean(flash, Page) ELSE Over(flash, Page, p[t].cur)
        /\ Intact(p[t].buf) /\ p[t].buf.data \in [Field -> Val]
        /\ Above(flash, p[t].buf.num)
    BY <1>1, SaverWrites
  <1>5. Erased \in Sector /\ ~ Damaged(Erased) /\ ~ Intact(Erased)
    BY SectorTypes DEF Damaged, Intact
  <1>6. sched = t
    BY <1>1 DEF SaverSafe, Locks
  <1> HIDE DEF k
  <1>7. /\ Safe(flash', Page) /\ Genuine(flash')
        /\ \A i \in Page \ {k} : Over(flash, Page, i) => Over(flash', Page, i)
        /\ Clean(flash, Page) => Clean(flash', Page)
        /\ \A n : Above(flash, n) => Above(flash', n)
    BY <1>1, <1>2, <1>3, <1>4, <1>5, SectorChanges
  <1>8. flash'[k] = Erased
    BY <1>1, <1>3, <1>4
  <1>9. SaverSafe(t)'
    <2>1. Steps(t)' /\ Copied(t)'
      BY <1>2, <1>3, <1>4, <1>7 DEF Steps, Copied
    <2>2. Stands(t)'
      BY <1>3, <1>4, <1>7 DEF Stands
    <2>3. Locks(t)'
      BY <1>3, <1>6, <1>8 DEF Locks, k
    <2>4. QED
      BY <2>1, <2>2, <2>3 DEF SaverSafe
  <1>10. ASSUME NEW u \in Thread \ {t}
         PROVE  SaverSafe(u)'
    <2>1. p[u].cur = k => Replaced(u)'
      BY <1>3, <1>10 DEF Replaced, k
    <2>2. SaverSafe(u)
      BY DEF SInv
    <2>3. QED
      BY <1>1, <1>2, <1>3, <1>4, <1>5, <1>10, <2>1, <2>2, OthersFollow
  <1>11. BootSafe'
    BY <1>2, <1>3, LocalTypes DEF BootSafe
  <1>12. QED
    BY <1>2, <1>3, <1>7, <1>9, <1>10, <1>11 DEF FlashSafe, RamOK

\* The DSP programs it, and scheduling is unlocked.
LEMMA SaverPrograms ==
  ASSUME SInv, NEW t \in Thread, ProgramSector(t)
  PROVE  FlashSafe' /\ BootSafe' /\ (\A u \in Thread : SaverSafe(u)') /\ RamOK'
  <1> DEFINE k == NextPage(p[t].cur)
             s == p[t].buf
  <1>1. /\ Runs(t) /\ SaverSafe(t) /\ p \in [Proc -> Local] /\ t \in Proc
        /\ flash \in [Page -> Sector] /\ p[t] \in Local /\ p[t].pc = "program"
    BY DEF SInv, TypeOK, Proc, ProgramSector, At
  <1>2. /\ up /\ p[Boot] = IdleProc /\ ram \in [Field -> Val] /\ Genuine(flash)
        /\ \A u \in Thread \ {t} : p[u].pc \notin {"erase", "program"}
    BY <1>1, SaverRuns
  <1>3. /\ k \in Page /\ Safe(flash, Page \ {k}) /\ flash[k] = Erased
        /\ s \in Sector /\ Intact(s) /\ s.data \in [Field -> Val]
        /\ Above(flash, s.num)
    BY <1>1, SaverWrites
  <1>4. /\ flash' = [flash EXCEPT ![k] = s] /\ up' = up /\ ram' = ram
        /\ p'[t] = Returned(t)
        /\ p'[Boot] = IdleProc /\ \A u \in Thread \ {t} : p'[u] = p[u]
    BY <1>1, <1>2, <1>3, ProcAssumption DEF ProgramSector, Programmed, Proc
  <1>5. ~ Damaged(s)
    BY <1>3 DEF Damaged, Intact
  <1> HIDE DEF k, s
  <1>6. Safe(flash', Page) /\ Genuine(flash') /\ Over(flash', Page, k)
    BY <1>1, <1>2, <1>3, <1>4, <1>5, SectorChanges
  <1>7. SaverSafe(t)'
    BY <1>2, <1>4, ReturnedFacts, SaverAnew DEF SaverSafe
  <1>8. ASSUME NEW u \in Thread \ {t}
        PROVE  SaverSafe(u)'
    <2>1. SaverSafe(u)
      BY DEF SInv
    <2>2. Replaced(u) => p[u].cur = k
      BY <1>2, <1>8 DEF Replaced, k
    <2>3. Stands(u) \/ p[u].cur = k
      BY <2>1, <2>2 DEF SaverSafe
    <2>4. QED
      BY <1>1, <1>2, <1>3, <1>4, <1>5, <1>6, <1>8, <2>1, <2>3, OthersFollow
  <1>9. BootSafe'
    BY <1>2, <1>4, LocalTypes DEF BootSafe
  <1>10. QED
    BY <1>2, <1>4, <1>6, <1>7, <1>8, <1>9 DEF FlashSafe, RamOK

\* Whatever the power leaves of the sectors, at most one damaged one hides the
\* others.
LEMMA TornSafe ==
  ASSUME SInv, NEW q \in Proc, Runs(q), NEW fl \in Torn(q)
  PROVE  /\ fl \in [Page -> Sector] /\ Genuine(fl)
         /\ Safe(fl, Page) \/ Half(fl)
  <1>1. /\ TypeOK /\ flash \in [Page -> Sector] /\ p[q] \in Local /\ Genuine(flash)
        /\ Safe(flash, Page) \/ Half(flash)
    BY DEF SInv, TypeOK, FlashSafe
  <1>2. q \in Thread \/ q = Boot
    BY DEF Proc
  <1>3. CASE fl = flash
    BY <1>1, <1>3
  <1>4. ASSUME NEW k \in Page, NEW s \in Sector, fl = [flash EXCEPT ![k] = s],
               Safe(flash, Page \ {k}),
               Intact(s) => s = flash[k] \/ s.data \in [Field -> Val]
        PROVE  /\ fl \in [Page -> Sector] /\ Genuine(fl)
               /\ Safe(fl, Page) \/ Half(fl)
    <2>1. Intact(s) => s.data \in [Field -> Val]
      BY <1>1, <1>4 DEF Genuine
    <2>2. QED
      BY <1>1, <1>4, <2>1, SectorChanges
  <1>5. CASE p[q].pc = "erase" /\ q \in Thread
    <2> DEFINE k == NextPage(p[q].cur)
    <2>1. k \in Page /\ Safe(flash, Page \ {k})
      BY <1>5, SaverWrites
    <2>2. PICK s \in TornErase(flash[k]) : fl = [flash EXCEPT ![k] = s]
      BY <1>5 DEF Torn
    <2>3. s \in Sector /\ (Intact(s) => s = flash[k])
      BY <1>1, <2>1, <2>2, TornEraseLeaves
    <2> HIDE DEF k
    <2>4. QED
      BY <1>4, <2>1, <2>2, <2>3
  <1>6. CASE p[q].pc = "program" /\ q \in Thread
    <2> DEFINE k == NextPage(p[q].cur)
               new == p[q].buf
    <2>1. /\ k \in Page /\ Safe(flash, Page \ {k}) /\ flash[k] = Erased
          /\ new \in Sector /\ new.data \in [Field -> Val]
      BY <1>6, SaverWrites
    <2>2. PICK s \in TornProgram(flash[k], new) : fl = [flash EXCEPT ![k] = s]
      BY <1>6 DEF Torn
    <2> HIDE DEF k, new
    <2>3. s \in Sector /\ (s \in {Erased, new} \/ ~ s.ok)
      BY <1>1, <2>1, <2>2, TornProgramLeaves
    <2>4. Intact(s) => s = flash[k] \/ s.data \in [Field -> Val]
      BY <2>1, <2>3 DEF Intact
    <2>5. QED
      BY <1>4, <2>1, <2>2, <2>3, <2>4
  <1>7. CASE q = Boot /\ p[q].pc = "discard" /\ Allowed
    <2> DEFINE k == p[q].cur
    <2>1. k \in Page /\ Safe(flash, Page \ {k})
      BY <1>7 DEF SInv, BootSafe, Top
    <2>2. PICK s \in TornErase(flash[k]) : fl = [flash EXCEPT ![k] = s]
      BY <1>7 DEF Torn
    <2>3. s \in Sector /\ (Intact(s) => s = flash[k])
      BY <1>1, <2>1, <2>2, TornEraseLeaves
    <2> HIDE DEF k
    <2>4. QED
      BY <1>4, <2>1, <2>2, <2>3
  <1>8. /\ q \in Thread => p[q].pc # "discard"
        /\ q = Boot => p[q].pc \notin {"erase", "program"}
    BY LocalTypes DEF SInv, SaverSafe, Steps, BootSafe
  <1>9. QED
    BY <1>2, <1>3, <1>5, <1>6, <1>7, <1>8 DEF Torn

\* The invariant is inductive for any number of threads.
LEMMA SafeStep == DualCore /\ SInv /\ [Next]_vars => SInv'
  <1> SUFFICES ASSUME DualCore, SInv, [Next]_vars PROVE SInv'
    OBVIOUS
  <1>1. /\ TypeOK /\ Genuine(flash) /\ flash \in [Page -> Sector]
        /\ Safe(flash, Page) \/ Half(flash)
    BY DEF SInv, TypeOK, FlashSafe
  <1>2. TypeOK'
    <2>1. ASSUME NEW t \in Thread, p[t].pc \in {"load", "discard"}
          PROVE  p[t].cur \in Page
      BY <1>1, <2>1 DEF SInv, SaverSafe, Steps, TypeOK, Local, Proc
    <2>2. p[Boot].pc \in {"load", "discard"} => p[Boot].cur \in Page
      BY DEF SInv, BootSafe, Top
    <2>3. Settled
      BY <2>1, <2>2 DEF Settled, Proc
    <2>4. QED
      BY <1>1, <2>3, TypeStep
  <1>3. ASSUME NEW low \in BOOLEAN, Restart(flash, low)
        PROVE  SInv'
    BY <1>1, <1>3, RestartSafe
  <1>4. ASSUME NEW q \in Proc, Choose(q)
        PROVE  SInv'
    <2>1. CASE LowVoltageReset(q)
      BY <1>3, <2>1 DEF LowVoltageReset
    <2>2. CASE q = Boot /\ ~ LowVoltageReset(q)
      BY <1>2, <1>4, <2>2, BootChooses DEF Choose, SInv
    <2>3. CASE q \in Thread /\ ~ LowVoltageReset(q)
      BY <1>2, <1>4, <2>3, SaverChooses DEF Choose, SInv
    <2>4. QED
      BY <2>1, <2>2, <2>3 DEF Proc
  <1>5. CASE ReadDefault \/ ReadDone
    BY <1>2, <1>5, BootReturns DEF SInv
  <1>6. ASSUME NEW t \in Thread, Call(t)
        PROVE  SInv'
    BY <1>2, <1>6, SaverCalls DEF SInv
  <1>7. ASSUME NEW t \in Thread, Write(t)
        PROVE  SInv'
    <2>1. CASE WriteFailed(t) \/ Reboot(t)
      BY <1>3, <2>1 DEF WriteFailed, Reboot
    <2>2. CASE EraseSector(t)
      BY <1>2, <2>2, SaverErases DEF SInv
    <2>3. CASE ProgramSector(t)
      BY <1>2, <2>3, SaverPrograms DEF SInv
    <2>4. CASE WriteDefault(t) \/ WriteNothing(t) \/ MergeData(t) \/ CheckVbat(t)
      BY <1>2, <2>4, SaverPrepares DEF SInv
    <2>5. QED
      BY <1>7, <2>1, <2>2, <2>3, <2>4 DEF Write
  <1>8. CASE PowerLoss
    <2>1. PICK q \in Proc : \E fl \in Torn(q) : Runs(q) /\ Restart(fl, FALSE)
      BY <1>8 DEF PowerLoss
    <2>2. PICK fl \in Torn(q) : Restart(fl, FALSE)
      BY <2>1
    <2>3. QED
      BY <1>1, <2>1, <2>2, TornSafe, RestartSafe
  <1>9. CASE VoltageChanges \/ UNCHANGED vars
    <2>1. /\ flash' = flash /\ up' = up /\ p' = p /\ ram' = ram /\ sched' = sched
      BY <1>9 DEF VoltageChanges, vars
    <2>2. FlashSafe' /\ BootSafe' /\ RamOK'
      BY <2>1 DEF SInv, FlashSafe, BootSafe, RamOK
    <2>3. \A t \in Thread : SaverSafe(t) => SaverSafe(t)'
      BY <2>1 DEF SaverSafe, Steps, Stands, Replaced, Copied, Locks
    <2>4. QED
      BY <1>2, <2>2, <2>3 DEF SInv
  <1>10. QED
    BY <1>4, <1>5, <1>6, <1>7, <1>8, <1>9 DEF Next

-----------------------------------------------------------------------------
(* What follows from the invariant                                            *)

\* It holds in every state, with one saving thread.
LEMMA Invariance ==
  ASSUME OneSaver
  PROVE  Spec => []IInv
  <1>1. IInv /\ [Next]_vars => IInv'
    BY InvStep
  <1>2. QED
    BY <1>1, InitInv, PTL DEF Spec

\* Type correctness of the FTL, its flash sectors and the locals of every call,
\* with any number of saving threads.
THEOREM TypeCorrect == Spec => []TypeOK
  <1>1. Init => TypeOK /\ Settled
    BY InitInv, SettlesOn DEF IInv, Settled
  <1>2. TypeOK /\ Settled /\ [Next]_vars => (TypeOK /\ Settled)'
    BY TypeStep, SettledStep
  <1>3. QED
    BY <1>1, <1>2, PTL DEF Spec

\* Only what a save wrote passes the checksum, and the system runs on nothing
\* else: a sector damaged by a power loss is neither served by xy_ftl_read nor
\* copied into a sector with a right checksum by xy_ftl_write.  One thread saves,
\* or several do while the DSP runs, for which they lock scheduling from the
\* erase to the end of the program.
THEOREM JunkNeverServed ==
  ASSUME OneSaver \/ DualCore
  PROVE  Spec => []NoJunk
  <1>1. CASE OneSaver
    <2>1. IInv => NoJunk
      BY DEF IInv, RamOK, FlashOK, Genuine, NoJunk
    <2>2. QED
      BY <1>1, <2>1, Invariance, PTL
  <1>2. CASE DualCore
    <2>1. SInv /\ [Next]_vars => SInv'
      BY <1>2, SafeStep
    <2>2. SInv => NoJunk
      BY DEF SInv, RamOK, FlashSafe, Genuine, NoJunk
    <2>3. QED
      BY <2>1, <2>2, SafeInit, PTL DEF Spec
  <1>3. QED
    BY <1>1, <1>2

\* There is a newest copy if there is one.
LEMMA Copies ==
  ASSUME NEW fl \in [Page -> Sector]
  PROVE  Newest(fl) # {} <=> \E i \in Page : Intact(fl[i])
  <1> DEFINE C == {i \in Page : Intact(fl[i])}
  <1>1. ASSUME NEW i \in Page, Intact(fl[i])
        PROVE  Newest(fl) # {}
    <2>1. PICK c \in C : \A j \in C : Below(fl, j, c) \/ j = c
      BY <1>1, Highest
    <2>2. \A j \in Page : fl[j].num \in Nat
      BY DEF Sector
    <2>3. \A j \in Page : Intact(fl[j]) => fl[j].num <= fl[c].num
      BY <2>1, <2>2 DEF Below
    <2>4. QED
      BY <2>1, <2>3 DEF Newest
  <1>2. Newest(fl) # {} => \E i \in Page : Intact(fl[i])
    BY DEF Newest
  <1>3. QED
    BY <1>1, <1>2

\* A copy is found in another sector than the one to be erased.
Spared(k) == k \in Page /\ \E i \in Page \ {k} : Intact(flash[i])

\* Where erases spare a copy, every step leaves one: an erased sector that is
\* being programmed and a damaged one that is discarded were none.
LEMMA CopyStep ==
  ASSUME TypeOK, Next, Newest(flash) # {},
         \A t \in Thread : Runs(t) /\ p[t].pc = "erase" => Spared(NextPage(p[t].cur)),
         \A t \in Thread : Runs(t) /\ p[t].pc = "program" => flash[NextPage(p[t].cur)] = Erased,
         p[Boot].pc \notin {"erase", "program"}, \A t \in Thread : p[t].pc # "discard",
         p[Boot].pc = "discard" => p[Boot].cur \in Page /\ ~ flash[p[Boot].cur].ok
  PROVE  Newest(flash') # {}
  <1>1. flash \in [Page -> Sector] /\ \A q \in Proc : p[q] \in Local
    BY DEF TypeOK
  <1>2. PICK i \in Page : Intact(flash[i])
    BY <1>1, Copies
  <1>3. ASSUME NEW k, Spared(k), NEW s \in Sector, NEW fl, fl = [flash EXCEPT ![k] = s]
        PROVE  Newest(fl) # {}
    <2>1. PICK j \in Page \ {k} : Intact(flash[j])
      BY <1>3 DEF Spared
    <2>2. fl \in [Page -> Sector] /\ fl[j] = flash[j]
      BY <1>1, <1>3, <2>1
    <2>3. QED
      BY <2>1, <2>2, Copies
  <1>4. ASSUME NEW q \in Proc, Runs(q), p[q].pc \in {"erase", "program"}
        PROVE  Spared(NextPage(p[q].cur))
    <2>1. q \in Thread
      BY <1>4 DEF Proc
    <2>2. CASE p[q].pc = "erase"
      BY <1>4, <2>1, <2>2
    <2>3. CASE p[q].pc = "program"
      <3>1. NextPage(p[q].cur) \in Page
        BY <1>1, NextPageType DEF Local
      <3>2. ~ Intact(flash[NextPage(p[q].cur)])
        BY <1>4, <2>1, <2>3, SectorTypes DEF Intact
      <3>3. QED
        BY <1>2, <3>1, <3>2 DEF Spared
    <2>4. QED
      BY <1>4, <2>2, <2>3
  <1>5. ASSUME NEW q \in Proc, p[q].pc = "discard"
        PROVE  p[q].cur \in Page /\ Spared(p[q].cur)
    BY <1>2, <1>5 DEF Spared, Intact, Proc
  <1>6. CASE flash' = flash
    BY <1>6
  <1>7. ASSUME NEW q \in Proc, Discard(q)
        PROVE  Newest(flash') # {}
    <2>1. flash' = flash \/ flash' = [flash EXCEPT ![p[q].cur] = Erased]
      BY <1>7 DEF Discard
    <2>2. QED
      BY <1>3, <1>5, <1>6, <1>7, <2>1, SectorTypes DEF Discard, At
  <1>8. ASSUME NEW t \in Thread, EraseSector(t) \/ ProgramSector(t)
        PROVE  Newest(flash') # {}
    <2>1. /\ t \in Proc /\ Runs(t) /\ p[t].pc \in {"erase", "program"}
          /\ p[t].buf \in Sector
      BY <1>1, <1>8 DEF EraseSector, ProgramSector, At, Proc, Local
    <2>2. flash[NextPage(p[t].cur)] \in Sector
      BY <1>1, <1>4, <2>1 DEF Spared
    <2>3. Programmed(flash[NextPage(p[t].cur)], p[t].buf) \in Sector
      BY <2>1, <2>2, TornProgramLeaves DEF TornProgram
    <2>4. \E s \in Sector : flash' = [flash EXCEPT ![NextPage(p[t].cur)] = s]
      BY <1>8, <2>3, SectorTypes DEF EraseSector, ProgramSector
    <2>5. QED
      BY <1>3, <1>4, <2>1, <2>4
  <1>9. CASE PowerLoss
    <2>1. PICK q \in Proc : \E fl \in Torn(q) : Runs(q) /\ flash' = fl
      BY <1>9 DEF PowerLoss, Restart
    <2>2. Runs(q) /\ flash' \in Torn(q)
      BY <2>1
    <2>3. QED
      BY <1>3, <1>4, <1>5, <1>6, <2>2, TornChanges
  <1>10. CASE \E q \in Proc : Scan(q) \/ Load(q) \/ LowVoltageReset(q)
    BY <1>6, <1>10 DEF Scan, Load, LowVoltageReset, Restart
  <1>11. CASE ReadDefault \/ ReadDone \/ VoltageChanges
    BY <1>6, <1>11 DEF ReadDefault, ReadDone, Restored, VoltageChanges
  <1>12. CASE \E t \in Thread : Call(t)
    BY <1>6, <1>12 DEF Call, SaveParam, SaveFactory
  <1>13. CASE \E t \in Thread : \/ WriteDefault(t) \/ WriteNothing(t) \/ MergeData(t)
                                \/ CheckVbat(t) \/ WriteFailed(t) \/ Reboot(t)
    BY <1>6, <1>13 DEF WriteDefault, WriteNothing, MergeData, CheckVbat, WriteFailed,
                       Reboot, Restart
  <1>14. QED
    BY <1>7, <1>8, <1>9, <1>10, <1>11, <1>12, <1>13 DEF Next, Choose, Write

\* No step of a save, no discarded sector, no reset and no power loss destroys
\* the last intact copy, whatever it leaves of the sector being written.
THEOREM CopyNeverLost ==
  ASSUME OneSaver
  PROVE  Spec => CopySurvives
  <1>1. ASSUME IInv, Next, Newest(flash) # {}
        PROVE  Newest(flash') # {}
    <2>1. TypeOK /\ ThreadOK /\ BootOK
      BY <1>1 DEF IInv
    <2>2. ASSUME NEW t \in Thread, p[t].pc = "erase"
          PROVE  Spared(NextPage(p[t].cur))
      <3>1. Leads(flash, Page, p[t].cur)
        BY <1>1, <2>1, <2>2, RecoversDefault DEF ThreadOK, ThreadInv, Based
      <3>2. p[t].cur \in Page /\ Intact(flash[p[t].cur])
        BY <3>1 DEF Leads, Tops, Intact
      <3>3. QED
        BY <3>2, NextPageType DEF Spared
    <2>3. \A t \in Thread : /\ p[t].pc = "program" => flash[NextPage(p[t].cur)] = Erased
                            /\ p[t].pc # "discard"
      BY <2>1 DEF ThreadOK, ThreadInv
    <2>4. /\ p[Boot].pc \notin {"erase", "program"}
          /\ p[Boot].pc = "discard" => p[Boot].cur \in Page /\ ~ flash[p[Boot].cur].ok
      BY <2>1, LocalTypes DEF BootOK, Hides, Tops
    <2>5. QED
      BY <1>1, <2>1, <2>2, <2>3, <2>4, CopyStep
  <1>2. IInv /\ [Next]_vars => [Newest(flash) # {} => Newest(flash') # {}]_vars
    BY <1>1
  <1>3. QED
    BY <1>2, Invariance, PTL DEF Spec, CopySurvives

\* Several threads that save while the DSP runs do lose saves, but the last copy
\* only in one way: two find the region empty, and the second erases what the
\* first has saved.
THEOREM OnlyFirstSavesLose ==
  ASSUME DualCore
  PROVE  Spec => [][Newest(flash) # {} /\ Newest(flash') = {} =>
                      \E t \in Thread : p[t].pc = "erase" /\ p[t].cur = NoPage]_vars
  <1> DEFINE Lose == Newest(flash) # {} /\ Newest(flash') = {} =>
                       \E t \in Thread : p[t].pc = "erase" /\ p[t].cur = NoPage
  <1>1. ASSUME SInv, Next, Newest(flash) # {},
               \A t \in Thread : p[t].pc = "erase" => p[t].cur # NoPage
        PROVE  Newest(flash') # {}
    <2>1. TypeOK /\ BootSafe /\ \A t \in Thread : SaverSafe(t)
      BY <1>1 DEF SInv
    <2>2. ASSUME NEW t \in Thread, Runs(t), p[t].pc = "erase"
          PROVE  Spared(NextPage(p[t].cur))
      BY <1>1, <2>2, SaverWrites DEF Spared, Over
    <2>3. \A t \in Thread : /\ p[t].pc = "program" => flash[NextPage(p[t].cur)] = Erased
                            /\ p[t].pc # "discard"
      BY <2>1 DEF SaverSafe, Steps, Locks
    <2>4. /\ p[Boot].pc \notin {"erase", "program"}
          /\ p[Boot].pc = "discard" => p[Boot].cur \in Page /\ ~ flash[p[Boot].cur].ok
      BY <2>1, LocalTypes DEF BootSafe, Top
    <2>5. QED
      BY <1>1, <2>1, <2>2, <2>3, <2>4, CopyStep
  <1>2. SInv /\ [Next]_vars => [Lose]_vars
    BY <1>1
  <1>3. SInv /\ [Next]_vars => SInv'
    BY SafeStep
  <1>4. QED
    BY <1>2, <1>3, SafeInit, PTL DEF Spec

\* The start-up code falls back to the main factory NV only when there is no
\* intact copy: xy_choose_valid_ftl finds the sector whenever there is one.
THEOREM DefaultIsLastResort ==
  ASSUME OneSaver
  PROVE  Spec => DefaultOnlyIfNone
  <1>1. ASSUME IInv, ReadDefault
        PROVE  TornTail \/ Newest(flash) = {}
    BY <1>1, RecoversDefault DEF IInv, BootOK, ReadDefault, At
  <1>2. IInv /\ [Next]_vars => [ReadDefault => TornTail \/ Newest(flash) = {}]_vars
    BY <1>1
  <1>3. QED
    BY <1>2, Invariance, PTL DEF Spec, DefaultOnlyIfNone

-----------------------------------------------------------------------------
(* The region implements the atomic store                                     *)

Pend == [t \in Thread |-> Saving(t)]

\* What the save of t does to the store is what Merge says.
LEMMA SavedIsMerged ==
  ASSUME up, NEW t \in Thread
  PROVE  Store!Merge(Pend[t]) = Saved(t)
  BY DEF Store!Merge, Saved, Saving, Pend

\* A step that keeps the fields being saved.
LEMMA PendKept ==
  ASSUME up' = up, \A t \in Thread : p'[t].set = p[t].set
  PROVE  Pend' = Pend
  BY DEF Pend, Saving

\* A step of one thread.
LEMMA PendStep ==
  ASSUME IInv, up, up' = up, NEW t \in Thread, NEW loc, p' = [p EXCEPT ![t] = loc]
  PROVE  Pend' = [Pend EXCEPT ![t] = loc.set] /\ Pend[t] = p[t].set
  <1>1. p \in [Proc -> Local] /\ t \in Proc /\ Thread \subseteq Proc
    BY DEF IInv, TypeOK, Proc
  <1>2. p'[t].set = loc.set /\ \A u \in Thread \ {t} : p'[u].set = p[u].set
    BY <1>1
  <1>3. Pend = [u \in Thread |-> p[u].set] /\ Pend' = [u \in Thread |-> p'[u].set]
    BY DEF Pend, Saving
  <1>4. QED
    BY <1>2, <1>3

\* After a reset the store is what it was, or what a save left.
LEMMA RestartCrashes ==
  ASSUME IInv, NEW fl, NEW low, Restart(fl, low),
         \/ Recoverable(fl) = Recoverable(flash)
         \/ \E t \in Thread : up /\ Recoverable(fl) = Saved(t)
  PROVE  Store!Crash
  <1>1. /\ up' = FALSE /\ ram' = ram /\ flash' = fl
    BY DEF Restart
  <1>2. Pend' = Store!NoPend
    BY <1>1 DEF Pend, Saving, Store!NoPend
  <1>3. \/ Recoverable(flash') = Recoverable(flash)
        \/ \E t \in Thread : Recoverable(flash') = Store!Merge(Pend[t])
    BY <1>1, SavedIsMerged
  <1>4. QED
    BY <1>1, <1>2, <1>3 DEF Store!Crash, Pend

\* A call is the beginning of a save in the store.
LEMMA CallBegins ==
  ASSUME IInv, NEW t \in Thread, Call(t)
  PROVE  \E S \in SUBSET Field : Store!Begin(t, S)
  <1>1. At(t, "idle")
    BY DEF Call, SaveParam, SaveFactory
  <1>2. up /\ ram \in [Field -> Val] /\ p[t].pc = "idle"
    BY <1>1, ThreadRuns
  <1>3. p[t].set = {}
    BY <1>2, LocalTypes DEF IInv, ThreadOK, ThreadInv
  <1>4. up' = up /\ flash' = flash
    BY DEF Call, SaveParam, SaveFactory
  <1>5. CASE \E f \in AppField, v \in Val : SaveParam(t, f, v)
    <2>1. PICK f \in AppField, v \in Val : SaveParam(t, f, v)
      BY <1>5
    <2> DEFINE loc == [IdleProc EXCEPT !.pc = "scan", !.op = "param", !.set = {f}]
               S   == {f}
    <2>2. p' = [p EXCEPT ![t] = loc] /\ ram' = [ram EXCEPT ![f] = v] /\ loc.set = S
      BY <2>1 DEF SaveParam, IdleProc
    <2> HIDE DEF loc, S
    <2>3. Pend' = [Pend EXCEPT ![t] = S] /\ Pend[t] = {}
      <3>1. Pend' = [Pend EXCEPT ![t] = loc.set] /\ Pend[t] = p[t].set
        BY <1>2, <1>4, <2>2, PendStep, Zenon
      <3>2. QED
        BY <1>3, <2>2, <3>1
    <2>4. S \in SUBSET Field /\ S # {} /\ f \in Field
      BY DEF Field, S
    <2> DEFINE new == [g \in Field |-> v]
    <2>5. new \in [Field -> Val]
      OBVIOUS
    <2>6. ram' = [g \in Field |-> IF g \in S THEN new[g] ELSE ram[g]]
      BY <1>2, <2>2, <2>4 DEF S
    <2> HIDE DEF new
    <2>7. Store!Begin(t, S)
      BY <1>2, <1>4, <2>3, <2>4, <2>5, <2>6 DEF Store!Begin, Pend
    <2>8. QED
      BY <2>4, <2>7
  <1>6. CASE \E op \in {"factory", "reboot"} : SaveFactory(t, op)
    <2>1. PICK op \in {"factory", "reboot"} : SaveFactory(t, op)
      BY <1>6
    <2> DEFINE loc == [IdleProc EXCEPT !.pc = "scan", !.op = op,
                                       !.set = DspField, !.csm = FALSE]
    <2>2. p' = [p EXCEPT ![t] = loc] /\ loc.set = DspField
      BY <2>1 DEF SaveFactory, IdleProc
    <2> HIDE DEF loc
    <2>3. Pend' = [Pend EXCEPT ![t] = DspField] /\ Pend[t] = {}
      <3>1. Pend' = [Pend EXCEPT ![t] = loc.set] /\ Pend[t] = p[t].set
        BY <1>2, <1>4, <2>2, PendStep, Zenon
      <3>2. QED
        BY <1>3, <2>2, <3>1
    <2>4. DspField \in SUBSET Field /\ DspField # {}
      BY FieldAssumption DEF Field
    <2>5. PICK dsp \in [DspField -> Val] :
            ram' = [g \in Field |-> IF g \in DspField THEN dsp[g] ELSE ram[g]]
      BY <2>1 DEF SaveFactory
    <2> DEFINE new == [g \in Field |-> IF g \in DspField THEN dsp[g] ELSE ram[g]]
    <2>6. new \in [Field -> Val]
      BY <1>2
    <2>7. ram' = [g \in Field |-> IF g \in DspField THEN new[g] ELSE ram[g]]
      BY <2>5
    <2> HIDE DEF new
    <2>8. Store!Begin(t, DspField)
      BY <1>2, <1>4, <2>3, <2>4, <2>6, <2>7 DEF Store!Begin, Pend
    <2>9. QED
      BY <2>4, <2>8
  <1>7. QED
    BY <1>5, <1>6 DEF Call

\* The step at which the fields of a save reach the store.
LEMMA WriteCommits ==
  ASSUME IInv, OneSaver, NEW t \in Thread, ProgramSector(t) \/ WriteNothing(t)
  PROVE  \E S \in SUBSET Field : Store!Commit(t, S)
  <1>1. TypeOK /\ ThreadInv(t) /\ Genuine(flash)
    BY DEF IInv, ThreadOK, FlashOK
  <1>2. up /\ p[t].pc \in {"program", "merge"} /\ p[t].set # {}
    BY <1>1, ThreadRuns DEF ProgramSector, WriteNothing, ThreadInv
  <1>3. up' = up /\ ram' = ram /\ p' = [p EXCEPT ![t] = Returned(t)]
    BY DEF ProgramSector, WriteNothing
  <1>4. /\ Pend' = [Pend EXCEPT ![t] = Returned(t).set]
        /\ Pend[t] = p[t].set /\ Returned(t).set \in SUBSET Field
    <2>1. Returned(t).set \in {{}, AppField}
      BY DEF Returned, IdleProc
    <2>2. QED
      <3>1. Pend' = [Pend EXCEPT ![t] = Returned(t).set] /\ Pend[t] = p[t].set
        BY <1>2, <1>3, PendStep, Zenon
      <3>2. QED
        BY <2>1, <3>1 DEF Field
  <1>5. Recoverable(flash') = Saved(t)
    <2>1. CASE ProgramSector(t)
      BY <2>1, ThreadPrograms
    <2>2. CASE WriteNothing(t)
      <3>1. flash' = flash /\ \A f \in p[t].set : p[t].buf.data[f] = ram[f]
        BY <2>2 DEF WriteNothing, Same
      <3>2. p[t].buf.data = Recoverable(flash)
        BY <1>1, <2>2 DEF ThreadInv, WriteNothing, At
      <3>3. Recoverable(flash) \in [Field -> Val]
        BY <1>1, RecoverableType
      <3>4. Recoverable(flash) = [f \in Field |-> Recoverable(flash)[f]]
        BY <3>3
      <3>5. Recoverable(flash) = Saved(t)
        BY <3>1, <3>2, <3>4 DEF Saved
      <3>6. QED
        BY <3>1, <3>5
    <2>3. QED
      BY <2>1, <2>2
  <1>6. Recoverable(flash') = Store!Merge(Pend[t])
    BY <1>2, <1>5, SavedIsMerged
  <1>7. QED
    BY <1>2, <1>3, <1>4, <1>6 DEF Store!Commit, Pend

\* The end of nv_restore is the restart of the store.
LEMMA ReadRestarts ==
  ASSUME IInv, ReadDefault \/ ReadDone, ~ ReadMisses
  PROVE  Store!Restart
  <1>1. ~ up /\ \A t \in Thread : p[t] = IdleProc
    BY BootAlone DEF ReadDefault, ReadDone, At
  <1>2. up' = TRUE /\ flash' = flash
    BY DEF ReadDefault, ReadDone, Restored
  <1>3. \A t \in Thread : p'[t] = p[t]
    BY ProcAssumption DEF IInv, TypeOK, Proc, ReadDefault, ReadDone, Restored
  <1>4. Pend' = Pend
    BY <1>1, <1>2, <1>3, LocalTypes DEF Pend, Saving
  <1>5. ram' = Recoverable(flash)
    <2>1. CASE ReadDefault
      BY <2>1 DEF ReadMisses, ReadDefault, Recoverable
    <2>2. CASE ReadDone
      BY <2>2, RecoversLeader DEF IInv, TypeOK, BootOK, ReadDone, At
    <2>3. QED
      BY <2>1, <2>2
  <1>6. QED
    BY <1>1, <1>2, <1>4, <1>5 DEF Store!Restart, Pend

\* The steps between leave the store alone.
LEMMA StoreKept ==
  ASSUME IInv, OneSaver,
         \/ \E q \in Proc : Scan(q) \/ Load(q) \/ Discard(q)
         \/ \E t \in Thread : WriteDefault(t) \/ MergeData(t) \/ CheckVbat(t)
                              \/ EraseSector(t)
         \/ VoltageChanges \/ UNCHANGED vars
  PROVE  UNCHANGED Store!vars
  <1>1. p \in [Proc -> Local] /\ Thread \subseteq Proc
    BY DEF IInv, TypeOK, Proc
  <1>2. up' = up /\ ram' = ram
    BY DEF Scan, Load, Discard, WriteDefault, MergeData, CheckVbat, EraseSector,
           VoltageChanges, vars
  <1>3. \A t \in Thread : p'[t].set = p[t].set
    <2>1. CASE \E q \in Proc : Scan(q) \/ Load(q) \/ Discard(q)
      <3>1. PICK q \in Proc : Scan(q) \/ Load(q) \/ Discard(q)
        BY <2>1
      <3>2. p'[q].set = p[q].set /\ \A u \in Proc \ {q} : p'[u] = p[u]
        <4>1. CASE Scan(q)
          BY <1>1, <4>1 DEF Scan, Local
        <4>2. CASE Load(q)
          BY <1>1, <4>2 DEF Load, Local
        <4>3. CASE Discard(q)
          BY <1>1, <4>3 DEF Discard, Local
        <4>4. QED
          BY <3>1, <4>1, <4>2, <4>3
      <3>3. QED
        BY <1>1, <3>2
    <2>2. CASE \E t \in Thread : WriteDefault(t) \/ MergeData(t)
      BY <1>1, <2>2 DEF WriteDefault, MergeData, Local
    <2>3. CASE \E t \in Thread : CheckVbat(t) \/ EraseSector(t)
      BY <1>1, <2>3 DEF CheckVbat, EraseSector, Local
    <2>4. CASE VoltageChanges \/ UNCHANGED vars
      BY <2>4 DEF VoltageChanges, vars
    <2>5. QED
      BY <2>1, <2>2, <2>3, <2>4
  <1>4. Pend' = Pend
    BY <1>2, <1>3, PendKept
  <1>5. Recoverable(flash') = Recoverable(flash)
    <2>1. CASE \E t \in Thread : EraseSector(t)
      BY <2>1, ThreadErases DEF Still
    <2>2. CASE \E q \in Proc : Discard(q)
      <3>1. PICK q \in Proc : Discard(q)
        BY <2>2
      <3>2. p[q].pc = "discard" /\ q = Boot
        BY <3>1 DEF IInv, ThreadOK, ThreadInv, Discard, At, Proc
      <3>3. ~ Intact(flash[p[q].cur]) /\ p[q].cur \in Page
        BY <3>2, SettlesOn DEF IInv, BootOK, Hides, Intact
      <3>4. flash \in [Page -> Sector] /\ ~ Intact(Erased)
        BY SectorTypes DEF IInv, TypeOK, Intact
      <3>5. flash' = flash \/ flash' = [flash EXCEPT ![p[q].cur] = Erased]
        BY <3>1 DEF Discard
      <3>6. QED
        BY <3>3, <3>4, <3>5, DamagedIgnored
    <2>3. CASE (~ \E t \in Thread : EraseSector(t)) /\ ~ \E q \in Proc : Discard(q)
      BY <2>3 DEF Scan, Load, WriteDefault, MergeData, CheckVbat, VoltageChanges, vars
    <2>4. QED
      BY <2>1, <2>2, <2>3
  <1>6. QED
    BY <1>2, <1>4, <1>5 DEF Store!vars, Pend

\* The refinement: saves take effect atomically, at the program or when nothing
\* has to be written, a reset or a power loss keeps the store or completes one
\* save, and the system starts from what the store holds, unless start-up misses
\* the copies behind a torn payload.
THEOREM FtlImplementsStore ==
  ASSUME OneSaver
  PROVE  Spec => ImplementsStore
  <1>1. Init => Store!Init
    <2> SUFFICES ASSUME Init PROVE Store!Init
      OBVIOUS
    <2>1. flash = [i \in Page |-> Erased] /\ ram = Default /\ up = FALSE
      BY DEF Init
    <2>2. Recoverable(flash) = Default
      BY <2>1, SectorTypes, RecoversDefault DEF Blank
    <2>3. Pend = Store!NoPend
      BY <2>1 DEF Pend, Saving, Store!NoPend
    <2>4. QED
      BY <2>1, <2>2, <2>3 DEF Store!Init, Pend
  <1>2. ASSUME IInv, [Next]_vars, ~ ReadMisses
        PROVE  Store!Next \/ UNCHANGED Store!vars
    <2>1. CASE PowerLoss
      <3>1. PICK q \in Proc : \E fl \in Torn(q) : Restart(fl, FALSE)
        BY <2>1 DEF PowerLoss
      <3>2. PICK fl \in Torn(q) : Restart(fl, FALSE)
        BY <3>1
      <3>3. Store!Crash
        BY <1>2, <3>2, TornLeaves, RestartCrashes
      <3>4. QED
        BY <3>3 DEF Store!Next
    <2>2. CASE \/ \E q \in Proc : LowVoltageReset(q)
               \/ \E t \in Thread : WriteFailed(t) \/ Reboot(t)
      <3>1. PICK low \in BOOLEAN : Restart(flash, low)
        BY <2>2 DEF LowVoltageReset, WriteFailed, Reboot
      <3>2. QED
        BY <1>2, <3>1, RestartCrashes DEF Store!Next
    <2>3. CASE ReadDefault \/ ReadDone
      BY <1>2, <2>3, ReadRestarts DEF Store!Next
    <2>4. CASE \E t \in Thread : Call(t)
      BY <1>2, <2>4, CallBegins DEF Store!Next
    <2>5. CASE \E t \in Thread : ProgramSector(t) \/ WriteNothing(t)
      BY <1>2, <2>5, WriteCommits DEF Store!Next
    <2>6. CASE \/ \E q \in Proc : Scan(q) \/ Load(q) \/ Discard(q)
               \/ \E t \in Thread : WriteDefault(t) \/ MergeData(t) \/ CheckVbat(t)
                                    \/ EraseSector(t)
               \/ VoltageChanges \/ UNCHANGED vars
      BY <1>2, <2>6, StoreKept
    <2>7. QED
      BY <1>2, <2>1, <2>2, <2>3, <2>4, <2>5, <2>6 DEF Next, Choose, Write
  <1>3. IInv /\ [Next]_vars => [ReadMisses \/ Store!Next]_(Store!vars)
    BY <1>2
  <1>4. QED
    BY <1>1, <1>3, Invariance, PTL DEF Spec, ImplementsStore

=============================================================================
