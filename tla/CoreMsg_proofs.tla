--------------------------- MODULE CoreMsg_proofs ---------------------------
(* Who owns a buffer and whose answer it is, for any number of threads and    *)
(* buffers and rings and queues of any length.                                *)
EXTENDS CoreMsg, SequenceTheorems, FiniteSetTheorems, FunctionTheorems, TLAPS

Bufs == DspBufs \cup ArmBufs

(* What travels in each ring and queue, and whose buffer comes with it.        *)
ToDsp == [k : {"free"}, b : DspBufs, of : {None}]
         \cup [k : {"at", "ip"}, b : ArmBufs, of : {None}]
         \cup [k : {"req"}, b : ArmBufs, of : Apps]
Delivery(B) == [k : {"at", "ip", "msg"}, b : B, of : {None}] \cup [k : {"ans"}, b : B, of : Apps]
FromDsp == [k : {"free"}, b : ArmBufs, of : {None}] \cup Delivery(DspBufs)
ToProxy == [k : {"free"}, b : DspBufs, of : {None}] \cup [k : {"cmd", "pdp"}, b : {None}, of : {None}]

(* What each thread holds while it is about to do what its pc says.            *)
ReaderStates ==
  [pc : {"read"}, m : Delivery({None}) \cup {FreeMsg(None)}]
  \cup [pc : {"give"}, m : Delivery(DspBufs)]
  \cup [pc : {"deliver"}, m : Delivery(Pool \cup {None})]
AtStates == [pc : {"get", "proxy", "pdp", "again"}, b : {None}] \cup [pc : {"tx"}, b : ArmBufs]
ProxyStates == [pc : {"get", "again"}, b : {None}] \cup [pc : {"free"}, b : DspBufs]
               \cup [pc : {"at"}, b : ArmBufs]
AppStates == [pc : {"idle", "wait", "take"}, b : {None}] \cup [pc : {"write"}, b : ArmBufs]
DspStates == [pc : {"get"}, b : {None}] \cup [pc : {"reply"}, b : ArmBufs]

Types ==
  /\ tx \in Seq(ToDsp) /\ rx \in Seq(FromDsp) /\ proxyQ \in Seq(ToProxy)
  /\ dspFree \subseteq DspBufs /\ armFree \subseteq ArmBufs /\ held \subseteq Pool
  /\ reader \in ReaderStates /\ atctl \in AtStates /\ proxy \in ProxyStates
  /\ app \in [Apps -> AppStates] /\ dsp \in DspStates
  /\ mux \in Apps \cup {None} /\ syncId \in Apps \cup {None} /\ sem \in {0, 1}
  /\ answer \in [b : DspBufs \cup {None}, of : Apps \cup {None}] /\ owed \subseteq Apps

-----------------------------------------------------------------------------
(* The synchronous request.                                                    *)
Carries(q, u) == \E i \in DOMAIN q : q[i].of = u
Once(q) == \A i, j \in DOMAIN q : q[i].of # None /\ q[i].of = q[j].of => i = j
Reading(u) == reader.pc # "read" /\ reader.m.of = u

Turn == \A u \in Apps : app[u].pc # "idle" <=> mux = u
Known == \A u \in Apps : app[u].pc \in {"write", "wait"} => syncId = u
OneCopy == /\ Once(tx) /\ Once(rx)
           /\ \A u \in Apps : /\ Carries(tx, u) => u \notin owed /\ ~ Carries(rx, u) /\ ~ Reading(u)
                              /\ u \in owed => ~ Carries(rx, u) /\ ~ Reading(u)
                              /\ Carries(rx, u) => ~ Reading(u)
OneAsked == \A u \in Apps : Carries(tx, u) \/ u \in owed \/ Carries(rx, u) \/ Reading(u)
                              => app[u].pc = "wait" /\ sem = 0
Answered == /\ sem = 1 => mux \in Apps /\ app[mux].pc = "wait" /\ answer.of = mux
            /\ \A u \in Apps : app[u].pc = "take" => sem = 0 /\ answer.of = u
            /\ answer.b # None => sem = 1 \/ (mux \in Apps /\ app[mux].pc = "take")
SInv == Turn /\ Known /\ OneCopy /\ OneAsked /\ Answered

-----------------------------------------------------------------------------
(* One owner.                                                                  *)
Holds(q, b) == \E i \in DOMAIN q : q[i].b = b
Apart(q) == \A i, j \in DOMAIN q : q[i].b # None /\ q[i].b = q[j].b => i = j
Alone == \A u, v \in Apps : app[u].b # None /\ app[u].b = app[v].b => u = v
Asks(b) == \E u \in Apps : app[u].b = b

Keeps(p, b) ==
  \/ p = "tx" /\ Holds(tx, b)
  \/ p = "rx" /\ Holds(rx, b)
  \/ p = "proxyQ" /\ Holds(proxyQ, b)
  \/ p = "app" /\ Asks(b)
  \/ p = "free" /\ b \in dspFree \cup armFree
  \/ p = "held" /\ b \in held
  \/ p = "reader" /\ reader.m.b = b
  \/ p = "proxy" /\ proxy.b = b
  \/ p = "atctl" /\ atctl.b = b
  \/ p = "answer" /\ answer.b = b
  \/ p = "dsp" /\ dsp.b = b
Place == {"tx", "rx", "proxyQ", "app", "free", "held", "reader", "proxy", "atctl", "answer", "dsp"}
Owner == \A b \in Bufs : \E p \in Place : \A o \in Place : Keeps(o, b) <=> o = p
OInv == /\ Apart(tx) /\ Apart(rx) /\ Apart(proxyQ)
        /\ Alone
        /\ Owner

-----------------------------------------------------------------------------
(* Rings and queues: what a message at the end or at the head changes.        *)

\* A message joins a ring.
LEMMA Joins ==
  ASSUME NEW S, NEW q \in Seq(S), NEW m \in S
  PROVE  /\ Append(q, m) \in Seq(S)
         /\ \A u : Carries(Append(q, m), u) <=> Carries(q, u) \/ m.of = u
         /\ \A b : Holds(Append(q, m), b) <=> Holds(q, b) \/ m.b = b
         /\ Once(q) /\ (m.of = None \/ ~ Carries(q, m.of)) => Once(Append(q, m))
         /\ Apart(q) /\ (m.b = None \/ ~ Holds(q, m.b)) => Apart(Append(q, m))
PROOF
  <1> DEFINE r == Append(q, m)
             n == Len(q) + 1
  <1>1. r \in Seq(S) /\ Len(q) \in Nat /\ DOMAIN q = 1 .. Len(q) /\ DOMAIN r = 1 .. n
        /\ r[n] = m /\ \A i \in 1 .. Len(q) : r[i] = q[i]
    BY AppendProperties
  <1> HIDE DEF r
  <1>2. DOMAIN r = DOMAIN q \cup {n} /\ n \notin DOMAIN q
    BY <1>1
  <1>3. \A i \in DOMAIN q : r[i] = q[i]
    BY <1>1
  <1> HIDE DEF n
  <1>4. /\ \A u : Carries(r, u) <=> Carries(q, u) \/ m.of = u
        /\ \A b : Holds(r, b) <=> Holds(q, b) \/ m.b = b
    BY <1>1, <1>2, <1>3 DEF Carries, Holds
  <1>5. Once(q) /\ (m.of = None \/ ~ Carries(q, m.of)) => Once(r)
    BY <1>1, <1>2, <1>3 DEF Carries, Once
  <1>6. Apart(q) /\ (m.b = None \/ ~ Holds(q, m.b)) => Apart(r)
    BY <1>1, <1>2, <1>3 DEF Holds, Apart
  <1> QED  BY <1>1, <1>4, <1>5, <1>6 DEF r

\* A message leaves a ring.
LEMMA Leaves ==
  ASSUME NEW S, NEW q \in Seq(S), q # << >>
  PROVE  /\ Tail(q) \in Seq(S) /\ Head(q) \in S
         /\ \A u : Carries(q, u) <=> Carries(Tail(q), u) \/ Head(q).of = u
         /\ \A b : Holds(q, b) <=> Holds(Tail(q), b) \/ Head(q).b = b
         /\ Once(q) => /\ Once(Tail(q))
                       /\ Head(q).of # None => ~ Carries(Tail(q), Head(q).of)
         /\ Apart(q) => /\ Apart(Tail(q))
                        /\ Head(q).b # None => ~ Holds(Tail(q), Head(q).b)
PROOF
  <1> DEFINE r == Tail(q)
  <1>1. r \in Seq(S) /\ Head(q) \in S /\ Len(q) \in Nat \ {0} /\ DOMAIN q = 1 .. Len(q)
        /\ DOMAIN r = 1 .. Len(q) - 1 /\ Head(q) = q[1]
        /\ \A i \in 1 .. Len(q) - 1 : r[i] = q[i + 1]
    BY HeadTailProperties, EmptySeq
  <1> HIDE DEF r
  <1>2. 1 \in DOMAIN q /\ \A i \in DOMAIN r : i + 1 \in DOMAIN q /\ i + 1 # 1 /\ q[i + 1] = r[i]
    BY <1>1
  <1>3. \A j \in DOMAIN q : j # 1 => j - 1 \in DOMAIN r /\ r[j - 1] = q[j]
    BY <1>1
  <1>4. \A i, j \in DOMAIN r : i + 1 = j + 1 => i = j
    BY <1>1
  <1>5. /\ \A u : Carries(q, u) <=> Carries(r, u) \/ Head(q).of = u
        /\ \A b : Holds(q, b) <=> Holds(r, b) \/ Head(q).b = b
    <2>1. ASSUME NEW u  PROVE Carries(q, u) <=> Carries(r, u) \/ Head(q).of = u
      <3>1. Carries(r, u) \/ Head(q).of = u => Carries(q, u)
        BY <1>1, <1>2, Zenon DEF Carries
      <3>2. ASSUME NEW j \in DOMAIN q, q[j].of = u, j # 1  PROVE Carries(r, u)
        BY <1>3, <3>2, Zenon DEF Carries
      <3> QED  BY <1>1, <3>1, <3>2, Zenon DEF Carries
    <2>2. ASSUME NEW b  PROVE Holds(q, b) <=> Holds(r, b) \/ Head(q).b = b
      <3>1. Holds(r, b) \/ Head(q).b = b => Holds(q, b)
        BY <1>1, <1>2, Zenon DEF Holds
      <3>2. ASSUME NEW j \in DOMAIN q, q[j].b = b, j # 1  PROVE Holds(r, b)
        BY <1>3, <3>2, Zenon DEF Holds
      <3> QED  BY <1>1, <3>1, <3>2, Zenon DEF Holds
    <2> QED  BY <2>1, <2>2, Zenon
  <1>6. Once(q) => Once(r) /\ (Head(q).of # None => ~ Carries(r, Head(q).of))
    <2>1. Once(q) => Once(r)
      BY <1>2, <1>4 DEF Once
    <2>2. Once(q) /\ Head(q).of # None => ~ Carries(r, Head(q).of)
      BY <1>1, <1>2 DEF Carries, Once
    <2> QED  BY <2>1, <2>2
  <1>7. Apart(q) => Apart(r) /\ (Head(q).b # None => ~ Holds(r, Head(q).b))
    BY <1>1, <1>2, <1>4 DEF Holds, Apart
  <1> QED  BY <1>1, <1>5, <1>6, <1>7 DEF r

-----------------------------------------------------------------------------
(* Types.                                                                     *)

\* In the initial state everything is empty or free.
LEMMA TypesInit == Init => Types
  BY CoreAssumption DEF Init, Types, FreeMsg, Msg, ReaderStates, Delivery, Idle, AtStates,
     ProxyStates, AppStates, DspStates, NoAnswer, DspBufs

\* What the reader holds at each step.
LEMMA ReaderHolds ==
  ASSUME Types
  PROVE  /\ reader.pc = "read" => reader.m \in Delivery({None}) \cup {FreeMsg(None)}
         /\ reader.pc = "give" => reader.m \in Delivery(DspBufs)
         /\ reader.pc = "deliver" => reader.m \in Delivery(Pool \cup {None})
         /\ reader.pc \in {"read", "give", "deliver"}
         /\ reader = [pc |-> reader.pc, m |-> reader.m]
  BY DEF Types, ReaderStates

\* What becomes of the reader's record.
LEMMA ReaderBecomes ==
  /\ \A m \in Delivery(DspBufs \cup {None}) : \A B :
       /\ m.b \in B => m \in Delivery(B)
       /\ [m EXCEPT !.b = None] \in Delivery({None})
       /\ [m EXCEPT !.b = None].of = m.of
  /\ \A m \in Delivery({None}) : [pc |-> "read", m |-> m] \in ReaderStates
  /\ \A m \in Delivery(DspBufs) : [pc |-> "give", m |-> m] \in ReaderStates
  /\ \A m \in Delivery(Pool \cup {None}) : [pc |-> "deliver", m |-> m] \in ReaderStates
  /\ Delivery({None}) \subseteq Delivery(Pool \cup {None})
  /\ Delivery(Pool \cup {None}) \subseteq Delivery(DspBufs \cup {None})
  /\ Delivery(DspBufs) \subseteq Delivery(DspBufs \cup {None})
PROOF
  <1>1. /\ \A m \in Delivery({None}) : [pc |-> "read", m |-> m] \in ReaderStates
        /\ \A m \in Delivery(DspBufs) : [pc |-> "give", m |-> m] \in ReaderStates
        /\ \A m \in Delivery(Pool \cup {None}) : [pc |-> "deliver", m |-> m] \in ReaderStates
    BY DEF ReaderStates
  <1>2. /\ Delivery({None}) \subseteq Delivery(Pool \cup {None})
        /\ Delivery(Pool \cup {None}) \subseteq Delivery(DspBufs \cup {None})
        /\ Delivery(DspBufs) \subseteq Delivery(DspBufs \cup {None})
    BY DEF Delivery, DspBufs
  <1>3. \A m \in Delivery(DspBufs \cup {None}) : \A B :
       /\ m.b \in B => m \in Delivery(B)
       /\ [m EXCEPT !.b = None] \in Delivery({None})
       /\ [m EXCEPT !.b = None].of = m.of
    BY DEF Delivery
  <1> QED  BY <1>1, <1>2, <1>3

\* The thread inter_core_msg.
LEMMA TypesReader ==
  ASSUME Types, Reader, OneAsked
  PROVE  Types'
PROOF
  <1> USE DEF Types, m3, sync, heaps, remote, CanRead, CanGive, CanHand, CanDeliver
  <1>1. CASE Read
    <2>1. Head(rx) \in FromDsp /\ Tail(rx) \in Seq(FromDsp) /\ rx # << >>
      BY <1>1, Leaves DEF Read
    <2>2. CASE Head(rx).k = "free"
      <3>1. Head(rx).b \in ArmBufs
        BY <2>1, <2>2 DEF FromDsp, Delivery
      <3> QED  BY <1>1, <2>1, <2>2, <3>1 DEF Read
    <2>3. CASE Head(rx).k # "free"
      <3>1. Head(rx) \in Delivery(DspBufs)
        BY <2>1, <2>3 DEF FromDsp
      <3>2. Head(rx).b \notin Dram => Head(rx) \in Delivery(Pool \cup {None})
        BY <3>1 DEF Delivery, DspBufs
      <3> QED  BY <1>1, <2>1, <2>3, <3>1, <3>2, ReaderBecomes DEF Read
    <2> QED  BY <2>2, <2>3
  <1>2. ASSUME NEW pc \in {"read", "deliver"}, Without(pc), reader.pc # "read"
        PROVE  reader' \in ReaderStates
    BY <1>2, ReaderHolds, ReaderBecomes DEF Without
  <1>3. CASE Give
    <2>1. FreeMsg(reader.m.b) \in ToDsp
      BY <1>3, ReaderHolds DEF Give, FreeMsg, Msg, ToDsp, Delivery
    <2>2. tx' \in Seq(ToDsp)
      BY <1>3, <2>1, Joins DEF Give, Send
    <2> QED  BY <1>2, <1>3, <2>2 DEF Give, AfterGive
  <1>4. CASE Hand
    <2>1. FreeMsg(reader.m.b) \in ToProxy
      BY <1>4, ReaderHolds DEF Hand, FreeMsg, Msg, ToProxy, Delivery
    <2>2. proxyQ' \in Seq(ToProxy)
      BY <1>4, <2>1, Joins DEF Hand
    <2> QED  BY <1>2, <1>4, <2>2 DEF Hand, AfterGive
  <1>5. ASSUME Delivered, reader.pc = "deliver"
        PROVE  reader' \in ReaderStates
    <2>1. CASE reader.m.b = None
      BY <1>2, <1>5, <2>1 DEF Delivered
    <2>2. CASE reader.m.b # None
      <3>1. reader.m \in Delivery(DspBufs)
        BY <1>5, <2>2, ReaderHolds, ReaderBecomes DEF Delivery, DspBufs
      <3> QED  BY <1>5, <2>2, <3>1, ReaderHolds, ReaderBecomes DEF Delivered, At
    <2> QED  BY <2>1, <2>2
  <1>6. CASE DeliverAt
    BY <1>5, <1>6 DEF DeliverAt
  <1>7. CASE DeliverData
    <2>1. {reader.m.b} \ {None} \subseteq Pool
      BY <1>7, ReaderHolds DEF DeliverData, Delivery
    <2>2. reader' \in ReaderStates
      BY <1>2, <1>5, <1>7 DEF DeliverData
    <2>3. held' \subseteq Pool
      BY <1>7, <2>1 DEF DeliverData
    <2> QED  BY <1>7, <2>2, <2>3 DEF DeliverData
  <1>8. CASE DeliverMsg
    <2>1. CASE reader.m.k = "ans" /\ reader.m.of = syncId
      <3>1. reader.m.of \in Apps /\ reader.m.b \in DspBufs \cup {None} /\ reader.pc = "deliver"
        BY <1>8, <2>1, ReaderHolds DEF DeliverMsg, Delivery, DspBufs
      <3>2. sem = 0
        BY <3>1 DEF OneAsked, Reading
      <3> QED  BY <1>2, <1>8, <2>1, <3>1, <3>2 DEF DeliverMsg
    <2>2. CASE ~ (reader.m.k = "ans" /\ reader.m.of = syncId)
      BY <1>5, <1>8, <2>2 DEF DeliverMsg
    <2> QED  BY <2>1, <2>2
  <1> QED  BY <1>1, <1>3, <1>4, <1>6, <1>7, <1>8 DEF Reader

\* at_ctl, xy_proxy, the UART thread, the stacks.
LEMMA TypesThreads ==
  ASSUME Types, AtCtl \/ Proxy \/ McuCmd \/ IpOut \/ (\E b \in Pool : StackFrees(b))
  PROVE  Types'
PROOF
  <1> USE DEF Types, m3, sync, heaps, remote
  <1>0. ASSUME armFree # {}
        PROVE  ArmBuf \in armFree /\ ArmBuf \in ArmBufs
    BY <1>0 DEF ArmBuf
  <1>1. CASE AtGet
    <2>1. /\ armFree # {} => [pc |-> "tx", b |-> ArmBuf] \in AtStates
          /\ \A pc \in {"proxy", "pdp", "again"} : [Idle EXCEPT !.pc = pc] \in AtStates
          /\ Idle \in AtStates
      BY <1>0 DEF AtStates, Idle
    <2>2. atctl' \in AtStates /\ armFree' \subseteq ArmBufs
      BY <1>1, <2>1 DEF AtGet
    <2>3. atQ # << >> /\ UNCHANGED <<tx, rx, dspFree, reader, proxyQ, proxy, cmds, held, sync, remote>>
      BY <1>1 DEF AtGet
    <2> QED  BY <2>2, <2>3
  <1>2. Idle \in AtStates /\ Idle \in ProxyStates
    BY DEF Idle, AtStates, ProxyStates
  <1>3. CASE AtForward
    <2>1. Msg("at", atctl.b, None) \in ToDsp
      BY <1>3 DEF AtForward, AtStates, Msg, ToDsp
    <2>2. tx' \in Seq(ToDsp)
      BY <1>3, <2>1, Joins DEF AtForward, Send
    <2> QED  BY <1>2, <1>3, <2>2 DEF AtForward
  <1>4. CASE AtToProxy
    <2>1. Msg(IF atctl.pc = "pdp" THEN "pdp" ELSE "cmd", None, None) \in ToProxy
      BY DEF Msg, ToProxy
    <2>2. proxyQ' \in Seq(ToProxy)
      BY <1>4, <2>1, Joins DEF AtToProxy
    <2> QED  BY <1>2, <1>4, <2>2 DEF AtToProxy
  <1>5. CASE AtAgain \/ ProxyAgain \/ McuCmd
    BY <1>2, <1>5 DEF AtAgain, ProxyAgain, McuCmd
  <1>6. CASE ProxyGet
    <2>1. Head(proxyQ) \in ToProxy /\ Tail(proxyQ) \in Seq(ToProxy)
      BY <1>6, Leaves DEF ProxyGet
    <2>2. /\ Head(proxyQ).k = "free" => [pc |-> "free", b |-> Head(proxyQ).b] \in ProxyStates
          /\ [Idle EXCEPT !.pc = "again"] \in ProxyStates
          /\ armFree # {} => [pc |-> "at", b |-> ArmBuf] \in ProxyStates
      BY <1>0, <2>1 DEF ToProxy, ProxyStates, Idle
    <2> QED  BY <1>6, <2>1, <2>2 DEF ProxyGet
  <1>7. CASE ProxyWrite
    <2>1. Msg(proxy.pc, proxy.b, None) \in ToDsp
      BY <1>7 DEF ProxyWrite, ProxyStates, Msg, ToDsp
    <2>2. tx' \in Seq(ToDsp)
      BY <1>7, <2>1, Joins DEF ProxyWrite, Send
    <2> QED  BY <1>2, <1>7, <2>2 DEF ProxyWrite
  <1>8. ASSUME NEW b \in Pool, StackFrees(b)
        PROVE  Types'
    <2>1. FreeMsg(b) \in ToDsp
      BY DEF FreeMsg, Msg, ToDsp, DspBufs
    <2>2. tx' \in Seq(ToDsp)
      BY <1>8, <2>1, Joins DEF StackFrees, Send
    <2> QED  BY <1>8, <2>2 DEF StackFrees
  <1>9. CASE IpOut
    <2>1. Msg("ip", ArmBuf, None) \in ToDsp
      BY <1>0, <1>9 DEF IpOut, Msg, ToDsp
    <2>2. tx' \in Seq(ToDsp)
      BY <1>9, <2>1, Joins DEF IpOut, Send
    <2> QED  BY <1>9, <2>2 DEF IpOut
  <1> QED
    BY <1>1, <1>3, <1>4, <1>5, <1>6, <1>7, <1>8, <1>9 DEF AtCtl, Proxy

\* send_shm_msg_sync.
LEMMA TypesSync ==
  ASSUME Types, NEW u \in Apps, SyncBegin(u) \/ Sync(u)
  PROVE  Types'
PROOF
  <1> USE DEF Types, m3, sync, heaps, remote
  <1>1. CASE SyncBegin(u)
    <2>1. ArmBuf \in ArmBufs
      BY <1>1 DEF SyncBegin, ArmBuf
    <2>2. [pc |-> "write", b |-> ArmBuf] \in AppStates
      BY <2>1 DEF AppStates
    <2> QED  BY <1>1, <2>2 DEF SyncBegin, Moves
  <1>2. \A pc \in {"idle", "wait", "take"} : [pc |-> pc, b |-> None] \in AppStates
    BY DEF AppStates
  <1>3. CASE SyncWrite(u)
    <2>1. app[u] \in AppStates /\ app[u].pc = "write"
      BY <1>3 DEF SyncWrite
    <2>2. Msg("req", app[u].b, u) \in ToDsp
      BY <2>1 DEF AppStates, Msg, ToDsp
    <2>3. tx' \in Seq(ToDsp)
      BY <1>3, <2>2, Joins DEF SyncWrite, Send
    <2> QED  BY <1>2, <1>3, <2>3 DEF SyncWrite, Moves
  <1>4. CASE SyncTake(u)
    BY <1>2, <1>4 DEF SyncTake, Moves
  <1>5. CASE SyncEnd(u)
    <2>1. answer.b \in DspBufs => FreeMsg(answer.b) \in ToDsp
      BY DEF FreeMsg, Msg, ToDsp
    <2>2. tx' \in Seq(ToDsp)
      <3>1. CASE answer.b \in DspBufs
        BY <1>5, <2>1, <3>1, Joins, SMTT(20) DEF SyncEnd, Send
      <3>2. CASE answer.b \notin DspBufs
        BY <1>5, <3>2 DEF SyncEnd
      <3> QED  BY <3>1, <3>2
    <2>3. app' \in [Apps -> AppStates]
      BY <1>2, <1>5 DEF SyncEnd, Moves
    <2>4. NoAnswer \in [b : DspBufs \cup {None}, of : Apps \cup {None}]
      BY DEF NoAnswer
    <2> QED  BY <1>5, <2>2, <2>3, <2>4 DEF SyncEnd
  <1> QED  BY <1>1, <1>3, <1>4, <1>5 DEF Sync

\* The DSP.
LEMMA TypesDsp ==
  ASSUME Types,
         \/ DspRead \/ DspGives
         \/ \E k \in Downlink \ {"ans"}, b \in DspBufs : DspSends(k, b)
         \/ \E u \in Apps, b \in DspBufs : DspAnswers(u, b)
  PROVE  Types'
PROOF
  <1> USE DEF Types, m3, sync, heaps, remote
  <1>1. CASE DspRead
    <2>1. Head(tx) \in ToDsp /\ Tail(tx) \in Seq(ToDsp)
      BY <1>1, Leaves DEF DspRead
    <2>2. CASE Head(tx).k = "free"
      BY <1>1, <2>1, <2>2 DEF DspRead, ToDsp
    <2>3. CASE Head(tx).k # "free"
      <3>1. [pc |-> "reply", b |-> Head(tx).b] \in DspStates /\ {Head(tx).of} \ {None} \subseteq Apps
        BY <2>1, <2>3 DEF ToDsp, DspStates
      <3> QED  BY <1>1, <2>1, <2>3, <3>1 DEF DspRead
    <2> QED  BY <2>2, <2>3
  <1>2. CASE DspGives
    <2>1. FreeMsg(dsp.b) \in FromDsp
      BY <1>2 DEF DspGives, DspStates, FreeMsg, Msg, FromDsp
    <2>2. rx' \in Seq(FromDsp)
      BY <1>2, <2>1, Joins DEF DspGives
    <2>3. Idle \in DspStates
      BY DEF Idle, DspStates
    <2> QED  BY <1>2, <2>2, <2>3 DEF DspGives
  <1>3. ASSUME NEW k \in Downlink \ {"ans"}, NEW b \in DspBufs, DspSends(k, b)
        PROVE  Types'
    <2>1. Msg(k, b, None) \in FromDsp
      BY DEF Downlink, Msg, FromDsp, Delivery
    <2>2. rx' \in Seq(FromDsp)
      BY <1>3, <2>1, Joins DEF DspSends
    <2> QED  BY <1>3, <2>2 DEF DspSends
  <1>4. ASSUME NEW u \in Apps, NEW b \in DspBufs, DspAnswers(u, b)
        PROVE  Types'
    <2>1. Msg("ans", b, u) \in FromDsp
      BY DEF Msg, FromDsp, Delivery
    <2>2. rx' \in Seq(FromDsp)
      BY <1>4, <2>1, Joins DEF DspAnswers
    <2> QED  BY <1>4, <2>2 DEF DspAnswers
  <1> QED  BY <1>1, <1>2, <1>3, <1>4

\* Every step keeps the types.
LEMMA TypesStep == Types /\ OneAsked /\ [Next]_vars => Types'
PROOF
  <1> SUFFICES ASSUME Types, OneAsked, [Next]_vars  PROVE Types'
    OBVIOUS
  <1>1. CASE UNCHANGED vars
    BY <1>1 DEF vars, Types, m3, sync, heaps, remote
  <1> QED  BY <1>1, TypesReader, TypesThreads, TypesSync, TypesDsp DEF Next

-----------------------------------------------------------------------------
(* The synchronous request.                                                   *)

\* Where a request or its answer is does not come about by other steps.
Untouched ==
  /\ UNCHANGED << mux, syncId, sem, answer, app >>
  /\ Once(tx)' /\ Once(rx)'
  /\ \A u \in Apps : /\ Carries(tx, u)' => Carries(tx, u)
                     /\ (u \in owed)' => u \in owed
                     /\ Carries(rx, u)' => Carries(rx, u)
                     /\ Reading(u)' => Reading(u)

\* Steps that leave the request alone keep its invariant.
LEMMA UntouchedKeeps == ASSUME SInv, Untouched  PROVE SInv'
  BY DEF SInv, Untouched, Turn, Known, OneCopy, OneAsked, Answered

\* What is sent without a request in it.
LEMMA PlainTx ==
  ASSUME Types, SInv, NEW m \in ToDsp, m.of = None, Send(m)
  PROVE  Once(tx)' /\ \A u \in Apps : Carries(tx, u)' <=> Carries(tx, u)
PROOF
  <1>1. tx \in Seq(ToDsp) /\ tx' = Append(tx, m) /\ Once(tx) /\ \A u \in Apps : u # None
    BY CoreAssumption DEF Types, Send, SInv, OneCopy
  <1>2. Once(Append(tx, m)) /\ \A u \in Apps : Carries(Append(tx, m), u) <=> Carries(tx, u)
    BY <1>1, Joins
  <1> QED  BY <1>1, <1>2 DEF Once, Carries

\* What the DSP sends without an answer in it.
LEMMA PlainRx ==
  ASSUME Types, SInv, NEW m \in FromDsp, m.of = None, rx' = Append(rx, m)
  PROVE  Once(rx)' /\ \A u \in Apps : Carries(rx, u)' <=> Carries(rx, u)
PROOF
  <1>1. rx \in Seq(FromDsp) /\ Once(rx) /\ \A u \in Apps : u # None
    BY CoreAssumption DEF Types, SInv, OneCopy
  <1>2. Once(Append(rx, m)) /\ \A u \in Apps : Carries(Append(rx, m), u) <=> Carries(rx, u)
    BY <1>1, Joins
  <1> QED  BY <1>1, <1>2 DEF Once, Carries

\* at_ctl, xy_proxy, the UART thread, the stacks.
LEMMA SyncThreads ==
  ASSUME Types, SInv, AtCtl \/ Proxy \/ McuCmd \/ IpOut \/ (\E b \in Pool : StackFrees(b))
  PROVE  SInv'
PROOF
  <1>1. Untouched
    <2> USE DEF Untouched, Reading, Carries, Once, m3, sync, heaps, remote
    <2>0. Once(tx) /\ Once(rx)
      BY DEF SInv, OneCopy
    <2>1. CASE AtGet \/ AtToProxy \/ AtAgain \/ ProxyGet \/ ProxyAgain \/ McuCmd
      BY <2>0, <2>1 DEF AtGet, AtToProxy, AtAgain, ProxyGet, ProxyAgain, McuCmd
    <2>2. CASE AtForward
      <3>1. Msg("at", atctl.b, None) \in ToDsp /\ Msg("at", atctl.b, None).of = None
        BY <2>2 DEF AtForward, Types, AtStates, Msg, ToDsp
      <3> QED  BY <2>0, <2>2, <3>1, PlainTx DEF AtForward
    <2>3. CASE ProxyWrite
      <3>1. Msg(proxy.pc, proxy.b, None) \in ToDsp /\ Msg(proxy.pc, proxy.b, None).of = None
        BY <2>3 DEF ProxyWrite, Types, ProxyStates, Msg, ToDsp
      <3> QED  BY <2>0, <2>3, <3>1, PlainTx DEF ProxyWrite
    <2>4. ASSUME NEW b \in Pool, StackFrees(b)  PROVE Untouched
      <3>1. FreeMsg(b) \in ToDsp /\ FreeMsg(b).of = None
        BY DEF FreeMsg, Msg, ToDsp, DspBufs
      <3> QED  BY <2>0, <2>4, <3>1, PlainTx DEF StackFrees
    <2>5. CASE IpOut
      <3>1. Msg("ip", ArmBuf, None) \in ToDsp /\ Msg("ip", ArmBuf, None).of = None
        BY <2>5 DEF IpOut, Types, ArmBuf, Msg, ToDsp
      <3> QED  BY <2>0, <2>5, <3>1, PlainTx DEF IpOut
    <2> QED  BY <2>1, <2>2, <2>3, <2>4, <2>5 DEF AtCtl, Proxy
  <1> QED  BY <1>1, UntouchedKeeps

\* The thread inter_core_msg.
LEMMA SyncReader ==
  ASSUME Types, SInv, Reader
  PROVE  SInv'
PROOF
  <1> USE DEF m3, sync, heaps, remote, CanRead, CanGive, CanHand, CanDeliver
  <1>0. Once(tx) /\ Once(rx) /\ \A u \in Apps : u # None
    BY CoreAssumption DEF SInv, OneCopy
  <1>1. CASE Read
    <2>1. /\ Head(rx) \in FromDsp /\ reader.pc = "read" /\ rx' = Tail(rx)
          /\ Once(Tail(rx))
          /\ \A u \in Apps : Carries(rx, u) <=> Carries(Tail(rx), u) \/ Head(rx).of = u
          /\ \A u \in Apps : Head(rx).of = u => ~ Carries(Tail(rx), u)
      BY <1>0, <1>1, Leaves DEF Read, Types
    <2>2. /\ Once(rx)'
          /\ \A u \in Apps : Carries(rx, u)' <=> Carries(rx, u) /\ Head(rx).of # u
      BY <2>1 DEF Once, Carries
    <2>3. \A u \in Apps : Reading(u)' => Head(rx).of = u
      <3>1. CASE Head(rx).k = "free"
        BY <1>1, <2>1, <3>1 DEF Read, Reading
      <3>2. CASE Head(rx).k # "free"
        BY <1>1, <3>2 DEF Read, Reading
      <3> QED  BY <3>1, <3>2
    <2>4. /\ \A u \in Apps : (Carries(tx, u)' <=> Carries(tx, u)) /\ ~ Reading(u)
          /\ Once(tx)'
          /\ UNCHANGED << owed, mux, syncId, sem, answer, app >>
      BY <1>0, <1>1 DEF Read, Carries, Once, Reading
    <2>5. OneCopy' /\ OneAsked'
      BY <2>1, <2>2, <2>3, <2>4 DEF SInv, OneCopy, OneAsked
    <2> QED  BY <2>4, <2>5 DEF SInv, Turn, Known, Answered
  <1>2. ASSUME NEW pc \in {"read", "give", "deliver"}, Without(pc) \/ At(pc),
               reader.pc # "read"
        PROVE  \A u \in Apps : Reading(u)' => Reading(u)
    <2>1. reader'.m.of = reader.m.of
      <3>1. CASE Without(pc)
        BY <1>2, <3>1, ReaderHolds, ReaderBecomes DEF Without
      <3>2. CASE At(pc)
        <4>1. reader' = [pc |-> pc, m |-> reader.m]
          BY <3>2, ReaderHolds DEF At
        <4> QED  BY <4>1
      <3> QED  BY <1>2, <3>1, <3>2
    <2> QED  BY <1>2, <2>1 DEF Reading
  <1>3. CASE Give
    <2>1. FreeMsg(reader.m.b) \in ToDsp /\ FreeMsg(reader.m.b).of = None
      BY <1>3, ReaderHolds DEF Give, FreeMsg, Msg, ToDsp, Delivery
    <2>2. \A u \in Apps : Reading(u)' => Reading(u)
      BY <1>2, <1>3 DEF Give, AfterGive
    <2>3. Untouched
      BY <1>0, <1>3, <2>1, <2>2, PlainTx DEF Give, Untouched, Carries, Once
    <2> QED  BY <2>3, UntouchedKeeps
  <1>4. CASE Hand \/ DeliverAt \/ DeliverData
    <2>1. \A u \in Apps : Reading(u)' => Reading(u)
      BY <1>2, <1>4 DEF Hand, DeliverAt, DeliverData, AfterGive, Delivered
    <2>2. Untouched
      BY <1>0, <1>4, <2>1 DEF Hand, DeliverAt, DeliverData, Untouched, Carries, Once
    <2> QED  BY <2>2, UntouchedKeeps
  <1>5. CASE DeliverMsg /\ ~ (reader.m.k = "ans" /\ reader.m.of = syncId)
    <2>1. \A u \in Apps : Reading(u)' => Reading(u)
      BY <1>2, <1>5 DEF DeliverMsg, Delivered
    <2>2. Untouched
      BY <1>0, <1>5, <2>1 DEF DeliverMsg, Untouched, Carries, Once
    <2> QED  BY <2>2, UntouchedKeeps
  <1>6. CASE DeliverMsg /\ reader.m.k = "ans" /\ reader.m.of = syncId
    <2> DEFINE u == reader.m.of
    <2>1. u \in Apps /\ Reading(u) /\ reader'.pc = "read"
      BY <1>6, ReaderHolds DEF DeliverMsg, Delivery, Reading, Without
    <2>2. /\ sem = 0 /\ app[u].pc = "wait" /\ mux = u
          /\ \A v \in Apps : v # u => app[v].pc = "idle"
      BY <2>1 DEF SInv, OneAsked, Turn
    <2>3. /\ \A v \in Apps : ~ Carries(tx, v) /\ v \notin owed /\ ~ Carries(rx, v)
      BY <2>1, <2>2 DEF SInv, OneAsked, OneCopy
    <2>4. /\ \A v \in Apps : ~ Reading(v)' /\ ~ Carries(tx, v)' /\ ~ Carries(rx, v)'
          /\ UNCHANGED << owed, mux, syncId, app >> /\ Once(tx)' /\ Once(rx)'
          /\ sem' = 1 /\ answer'.of = u
      BY <1>0, <1>6, <2>1, <2>2, <2>3 DEF DeliverMsg, Reading, Carries, Once
    <2> HIDE DEF u
    <2> QED
      BY <2>1, <2>2, <2>3, <2>4 DEF SInv, Turn, Known, OneCopy, OneAsked, Answered
  <1> QED  BY <1>1, <1>3, <1>4, <1>5, <1>6 DEF Reader

\* send_shm_msg_sync.
LEMMA SyncApps ==
  ASSUME Types, SInv, NEW u \in Apps, SyncBegin(u) \/ Sync(u)
  PROVE  SInv'
PROOF
  <1> USE DEF m3, sync, heaps, remote
  <1>0. /\ Once(tx) /\ Once(rx) /\ \A v \in Apps : v # None
        /\ DOMAIN app = Apps /\ sem \in {0, 1} /\ mux \in Apps \cup {None}
    BY CoreAssumption DEF SInv, OneCopy, Types
  <1>1. ASSUME NEW pc, NEW b, Moves(u, pc, b)
        PROVE  app'[u].pc = pc /\ \A v \in Apps : v # u => app'[v] = app[v]
    BY <1>0, <1>1 DEF Moves
  <1>2. CASE SyncBegin(u)
    <2>1. /\ \A v \in Apps : app[v].pc = "idle"
          /\ sem = 0 /\ answer.b = None
      BY <1>0, <1>2 DEF SyncBegin, SInv, Turn, Answered
    <2>2. /\ \A v \in Apps : ~ Carries(tx, v) /\ v \notin owed /\ ~ Carries(rx, v) /\ ~ Reading(v)
      BY <2>1 DEF SInv, OneAsked
    <2>3. /\ \A v \in Apps : ~ Carries(tx, v)' /\ v \notin owed' /\ ~ Carries(rx, v)' /\ ~ Reading(v)'
          /\ Once(tx)' /\ Once(rx)' /\ mux' = u /\ syncId' = u /\ sem' = 0 /\ answer'.b = None
      BY <1>0, <1>2, <2>1, <2>2 DEF SyncBegin, Carries, Once, Reading
    <2>4. app'[u].pc = "write" /\ \A v \in Apps : v # u => app'[v].pc = "idle"
      BY <1>1, <1>2, <2>1 DEF SyncBegin
    <2> QED
      BY <2>3, <2>4 DEF SInv, Turn, Known, OneCopy, OneAsked, Answered
  <1>3. CASE SyncWrite(u)
    <2>1. /\ app[u].pc = "write" /\ mux = u /\ syncId = u /\ sem = 0
          /\ \A v \in Apps : v # u => app[v].pc = "idle"
      BY <1>0, <1>3 DEF SyncWrite, SInv, Turn, Known, Answered
    <2>2. /\ \A v \in Apps : ~ Carries(tx, v) /\ v \notin owed /\ ~ Carries(rx, v) /\ ~ Reading(v)
      BY <2>1 DEF SInv, OneAsked
    <2>3. Msg("req", app[u].b, u) \in ToDsp /\ Msg("req", app[u].b, u).of = u
      <3>1. app[u] \in AppStates
        BY DEF Types
      <3> QED  BY <2>1, <3>1 DEF AppStates, Msg, ToDsp
    <2>4. /\ Once(tx)'
          /\ \A v \in Apps : Carries(tx, v)' <=> v = u
      <3>1. tx' = Append(tx, Msg("req", app[u].b, u)) /\ tx \in Seq(ToDsp)
        BY <1>3 DEF SyncWrite, Send, Types
      <3>2. /\ Once(Append(tx, Msg("req", app[u].b, u)))
            /\ \A v \in Apps : Carries(Append(tx, Msg("req", app[u].b, u)), v) <=> v = u
        BY <1>0, <2>2, <2>3, <3>1, Joins
      <3> QED  BY <3>1, <3>2 DEF Once, Carries
    <2>5. /\ \A v \in Apps : v \notin owed' /\ ~ Carries(rx, v)' /\ ~ Reading(v)'
          /\ Once(rx)' /\ UNCHANGED << mux, syncId, sem, answer >>
      BY <1>0, <1>3, <2>2 DEF SyncWrite, Carries, Once, Reading
    <2>6. app'[u].pc = "wait" /\ \A v \in Apps : v # u => app'[v].pc = "idle"
      BY <1>1, <1>3, <2>1 DEF SyncWrite
    <2> QED
      BY <2>1, <2>4, <2>5, <2>6 DEF SInv, Turn, Known, OneCopy, OneAsked, Answered
  <1>4. CASE SyncTake(u)
    <2>1. /\ app[u].pc = "wait" /\ mux = u /\ sem = 1 /\ answer.of = u
          /\ \A v \in Apps : v # u => app[v].pc = "idle"
      BY <1>0, <1>4 DEF SyncTake, SInv, Turn, Answered
    <2>2. /\ \A v \in Apps : ~ Carries(tx, v) /\ v \notin owed /\ ~ Carries(rx, v) /\ ~ Reading(v)
      BY <2>1 DEF SInv, OneAsked
    <2>3. /\ \A v \in Apps : ~ Carries(tx, v)' /\ v \notin owed' /\ ~ Carries(rx, v)' /\ ~ Reading(v)'
          /\ Once(tx)' /\ Once(rx)' /\ mux' = u /\ sem' = 0 /\ answer' = answer
      BY <1>0, <1>4, <2>1, <2>2 DEF SyncTake, Carries, Once, Reading
    <2>4. app'[u].pc = "take" /\ \A v \in Apps : v # u => app'[v].pc = "idle"
      BY <1>1, <1>4, <2>1 DEF SyncTake
    <2> QED
      BY <2>1, <2>3, <2>4 DEF SInv, Turn, Known, OneCopy, OneAsked, Answered
  <1>5. CASE SyncEnd(u)
    <2>1. /\ app[u].pc = "take" /\ mux = u /\ sem = 0
          /\ \A v \in Apps : v # u => app[v].pc = "idle"
      BY <1>0, <1>5 DEF SyncEnd, SInv, Turn, Answered
    <2>2. /\ \A v \in Apps : ~ Carries(tx, v) /\ v \notin owed /\ ~ Carries(rx, v) /\ ~ Reading(v)
      BY <2>1 DEF SInv, OneAsked
    <2>3. Once(tx)' /\ \A v \in Apps : ~ Carries(tx, v)'
      <3>1. CASE answer.b \in DspBufs
        <4>1. FreeMsg(answer.b) \in ToDsp /\ FreeMsg(answer.b).of = None
          BY <3>1 DEF FreeMsg, Msg, ToDsp
        <4> QED  BY <1>5, <2>2, <3>1, <4>1, PlainTx DEF SyncEnd
      <3>2. CASE answer.b \notin DspBufs
        BY <1>0, <1>5, <2>2, <3>2 DEF SyncEnd, Carries, Once
      <3> QED  BY <3>1, <3>2
    <2>4. /\ \A v \in Apps : v \notin owed' /\ ~ Carries(rx, v)' /\ ~ Reading(v)'
          /\ Once(rx)' /\ mux' = None /\ sem' = 0 /\ answer'.b = None
      BY <1>0, <1>5, <2>1, <2>2 DEF SyncEnd, Carries, Once, Reading, NoAnswer
    <2>5. \A v \in Apps : app'[v].pc = "idle"
      BY <1>1, <1>5, <2>1 DEF SyncEnd
    <2> QED
      BY <1>0, <2>3, <2>4, <2>5 DEF SInv, Turn, Known, OneCopy, OneAsked, Answered
  <1> QED  BY <1>2, <1>3, <1>4, <1>5 DEF Sync

\* The DSP.
LEMMA SyncDsp ==
  ASSUME Types, SInv,
         \/ DspRead \/ DspGives
         \/ \E k \in Downlink \ {"ans"}, b \in DspBufs : DspSends(k, b)
         \/ \E u \in Apps, b \in DspBufs : DspAnswers(u, b)
  PROVE  SInv'
PROOF
  <1> USE DEF m3, sync, heaps, remote
  <1>0. Once(tx) /\ Once(rx) /\ \A u \in Apps : u # None
    BY CoreAssumption DEF SInv, OneCopy
  <1>1. CASE DspRead
    <2>1. /\ Head(tx) \in ToDsp /\ tx' = Tail(tx) /\ Once(Tail(tx))
          /\ \A u \in Apps : Carries(tx, u) <=> Carries(Tail(tx), u) \/ Head(tx).of = u
          /\ \A u \in Apps : Head(tx).of = u => ~ Carries(Tail(tx), u)
      BY <1>0, <1>1, Leaves DEF DspRead, Types
    <2>2. /\ Once(tx)' /\ Once(rx)'
          /\ \A u \in Apps : /\ Carries(tx, u)' <=> Carries(tx, u) /\ Head(tx).of # u
                             /\ Carries(rx, u)' <=> Carries(rx, u)
                             /\ Reading(u)' <=> Reading(u)
          /\ UNCHANGED << mux, syncId, sem, answer, app >>
      BY <1>0, <1>1, <2>1 DEF DspRead, Once, Carries, Reading
    <2>3. \A u \in Apps : u \in owed' => u \in owed \/ Head(tx).of = u
      BY <1>1 DEF DspRead
    <2>4. OneCopy' /\ OneAsked'
      BY <2>1, <2>2, <2>3 DEF SInv, OneCopy, OneAsked
    <2> QED  BY <2>2, <2>4 DEF SInv, Turn, Known, Answered
  <1>2. CASE DspGives
    <2>1. FreeMsg(dsp.b) \in FromDsp /\ FreeMsg(dsp.b).of = None
      BY <1>2 DEF DspGives, Types, DspStates, FreeMsg, Msg, FromDsp
    <2>2. Untouched
      BY <1>0, <1>2, <2>1, PlainRx DEF DspGives, Untouched, Carries, Once, Reading
    <2> QED  BY <2>2, UntouchedKeeps
  <1>3. ASSUME NEW k \in Downlink \ {"ans"}, NEW b \in DspBufs, DspSends(k, b)
        PROVE  SInv'
    <2>1. Msg(k, b, None) \in FromDsp /\ Msg(k, b, None).of = None
      BY DEF Downlink, Msg, FromDsp, Delivery
    <2>2. Untouched
      BY <1>0, <1>3, <2>1, PlainRx DEF DspSends, Untouched, Carries, Once, Reading
    <2> QED  BY <2>2, UntouchedKeeps
  <1>4. ASSUME NEW u \in Apps, NEW b \in DspBufs, DspAnswers(u, b)
        PROVE  SInv'
    <2>1. Msg("ans", b, u) \in FromDsp /\ Msg("ans", b, u).of = u
      BY DEF Msg, FromDsp, Delivery
    <2>2. u \in owed /\ ~ Carries(rx, u) /\ rx' = Append(rx, Msg("ans", b, u)) /\ rx \in Seq(FromDsp)
      BY <1>4 DEF DspAnswers, SInv, OneCopy, Types
    <2>3. /\ Once(Append(rx, Msg("ans", b, u)))
          /\ \A v \in Apps : Carries(Append(rx, Msg("ans", b, u)), v) <=> Carries(rx, v) \/ v = u
      BY <1>0, <2>1, <2>2, Joins
    <2>4. /\ Once(rx)' /\ Once(tx)'
          /\ \A v \in Apps : /\ Carries(rx, v)' <=> Carries(rx, v) \/ v = u
                             /\ Carries(tx, v)' <=> Carries(tx, v)
                             /\ Reading(v)' <=> Reading(v)
                             /\ v \in owed' <=> v \in owed /\ v # u
          /\ UNCHANGED << mux, syncId, sem, answer, app >>
      BY <1>0, <1>4, <2>2, <2>3 DEF DspAnswers, Once, Carries, Reading
    <2>5. OneCopy' /\ OneAsked'
      BY <2>2, <2>4 DEF SInv, OneCopy, OneAsked
    <2> QED  BY <2>4, <2>5 DEF SInv, Turn, Known, Answered
  <1> QED  BY <1>1, <1>2, <1>3, <1>4

\* Every step keeps the invariant of the request.
LEMMA SyncStep == Types /\ SInv /\ [Next]_vars => SInv'
PROOF
  <1> SUFFICES ASSUME Types, SInv, [Next]_vars  PROVE SInv'
    OBVIOUS
  <1>1. CASE UNCHANGED vars
    BY <1>1 DEF vars, SInv, Turn, Known, OneCopy, OneAsked, Answered, Once, Carries, Reading
  <1> QED  BY <1>1, SyncReader, SyncThreads, SyncApps, SyncDsp DEF Next

\* In the initial state nobody asks.
LEMMA SyncInit == Init => SInv
PROOF
  <1> SUFFICES ASSUME Init  PROVE SInv
    OBVIOUS
  <1>1. /\ DOMAIN tx = {} /\ DOMAIN rx = {}
    BY DEF Init
  <1> QED
    BY <1>1, CoreAssumption DEF Init, SInv, Turn, Known, OneCopy, OneAsked, Answered, Once,
       Carries, Reading, NoAnswer

-----------------------------------------------------------------------------
(* One owner.                                                                 *)

\* A buffer changes hands: x goes from one place to another, all else stays.
Passes(x, from, to) ==
  /\ from \in Place /\ to \in Place /\ from # to
  /\ Keeps(from, x) /\ ~ Keeps(from, x)' /\ Keeps(to, x)'
  /\ \A b \in Bufs, o \in Place : b # x \/ o \notin {from, to} => (Keeps(o, b)' <=> Keeps(o, b))

\* Then it has one owner again.
LEMMA PassesKeeps ==
  ASSUME Owner, NEW x, NEW from, NEW to, Passes(x, from, to)
  PROVE  Owner'
PROOF
  <1> SUFFICES ASSUME NEW b \in Bufs
               PROVE  \E p \in Place : \A o \in Place : Keeps(o, b)' <=> o = p
    BY DEF Owner, Bufs, DspBufs
  <1>1. PICK p \in Place : \A o \in Place : Keeps(o, b) <=> o = p
    BY DEF Owner
  <1>2. CASE b = x
    <2>1. p = from
      BY <1>1, <1>2 DEF Passes
    <2>2. \A o \in Place : Keeps(o, b)' <=> o = to
      BY <1>1, <1>2, <2>1 DEF Passes
    <2> QED  BY <2>2 DEF Passes
  <1>3. CASE b # x
    <2>1. \A o \in Place : Keeps(o, b)' <=> o = p
      BY <1>1, <1>3 DEF Passes
    <2> QED  BY <2>1
  <1> QED  BY <1>2, <1>3

\* Or nothing changes hands.
Stays == \A b \in Bufs, o \in Place : Keeps(o, b)' <=> Keeps(o, b)

\* Then every buffer still has its owner.
LEMMA StaysKeeps == ASSUME Owner, Stays  PROVE Owner'
  BY DEF Owner, Stays, Bufs, DspBufs

\* A buffer that goes into a ring was nowhere else before.
LEMMA OnlyHere ==
  ASSUME Owner, NEW b \in Bufs, NEW p \in Place, Keeps(p, b)
  PROVE  \A o \in Place : o # p => ~ Keeps(o, b)
  BY DEF Owner

\* What each place stands for, before and after a step.
LEMMA KeepsMeans ==
  /\ \A b : /\ Keeps("tx", b) <=> Holds(tx, b)
            /\ Keeps("rx", b) <=> Holds(rx, b)
            /\ Keeps("proxyQ", b) <=> Holds(proxyQ, b)
            /\ Keeps("app", b) <=> Asks(b)
            /\ Keeps("free", b) <=> b \in dspFree \cup armFree
            /\ Keeps("held", b) <=> b \in held
            /\ Keeps("reader", b) <=> reader.m.b = b
            /\ Keeps("proxy", b) <=> proxy.b = b
            /\ Keeps("atctl", b) <=> atctl.b = b
            /\ Keeps("answer", b) <=> answer.b = b
            /\ Keeps("dsp", b) <=> dsp.b = b
  /\ \A b : /\ Keeps("tx", b)' <=> Holds(tx, b)'
            /\ Keeps("rx", b)' <=> Holds(rx, b)'
            /\ Keeps("proxyQ", b)' <=> Holds(proxyQ, b)'
            /\ Keeps("app", b)' <=> Asks(b)'
            /\ Keeps("free", b)' <=> b \in dspFree' \cup armFree'
            /\ Keeps("held", b)' <=> b \in held'
            /\ Keeps("reader", b)' <=> reader'.m.b = b
            /\ Keeps("proxy", b)' <=> proxy'.b = b
            /\ Keeps("atctl", b)' <=> atctl'.b = b
            /\ Keeps("answer", b)' <=> answer'.b = b
            /\ Keeps("dsp", b)' <=> dsp'.b = b
BY DEF Keeps

\* The places that a step leaves alone.
Frame(S) == \A b \in Bufs, o \in Place \ S : Keeps(o, b)' <=> Keeps(o, b)

\* A place is left alone when its variable is.
LEMMA FrameFrom ==
  ASSUME NEW S \in SUBSET Place,
         "tx" \notin S => \A b \in Bufs : Holds(tx, b)' <=> Holds(tx, b),
         "rx" \notin S => \A b \in Bufs : Holds(rx, b)' <=> Holds(rx, b),
         "proxyQ" \notin S => \A b \in Bufs : Holds(proxyQ, b)' <=> Holds(proxyQ, b),
         "app" \notin S => \A b \in Bufs : Asks(b)' <=> Asks(b),
         "free" \notin S => dspFree' = dspFree /\ armFree' = armFree,
         "held" \notin S => held' = held,
         "reader" \notin S => reader'.m.b = reader.m.b,
         "proxy" \notin S => proxy'.b = proxy.b,
         "atctl" \notin S => atctl'.b = atctl.b,
         "answer" \notin S => answer'.b = answer.b, "dsp" \notin S => dsp'.b = dsp.b
  PROVE  Frame(S)
PROOF
  <1> SUFFICES ASSUME NEW b \in Bufs, NEW o \in Place \ S
               PROVE  Keeps(o, b)' <=> Keeps(o, b)
    BY DEF Frame
  <1>1. CASE o \in {"tx", "rx", "proxyQ"}
    BY <1>1, KeepsMeans
  <1>2. CASE o \in {"app", "free", "held"}
    BY <1>2, KeepsMeans
  <1>3. CASE o \in {"reader", "proxy", "atctl", "answer", "dsp"}
    BY <1>3, KeepsMeans
  <1> QED  BY <1>1, <1>2, <1>3 DEF Place

\* How a step is shown to pass a buffer on.
LEMMA PassesFrom ==
  ASSUME NEW x, NEW from \in Place, NEW to \in Place, from # to, Frame({from, to}),
         Keeps(from, x), ~ Keeps(from, x)', Keeps(to, x)',
         \A b \in Bufs, o \in {from, to} : b # x => (Keeps(o, b)' <=> Keeps(o, b))
  PROVE  Passes(x, from, to)
PROOF
  <1>1. ASSUME NEW b \in Bufs, NEW o \in Place, b # x \/ o \notin {from, to}
        PROVE  Keeps(o, b)' <=> Keeps(o, b)
    <2>1. CASE o \notin {from, to}
      BY <2>1 DEF Frame
    <2>2. CASE o \in {from, to}
      BY <1>1, <2>2
    <2> QED  BY <2>1, <2>2
  <1> QED  BY <1>1 DEF Passes

\* A message with the buffer x goes into tx.
LEMMA IntoTx ==
  ASSUME Types, OInv, NEW m \in ToDsp, Send(m), ~ Holds(tx, m.b)
  PROVE  Apart(tx)' /\ \A b \in Bufs : Holds(tx, b)' <=> Holds(tx, b) \/ b = m.b
PROOF
  <1>1. tx \in Seq(ToDsp) /\ Apart(tx) /\ tx' = Append(tx, m)
    BY DEF Types, OInv, Send
  <1>2. Apart(Append(tx, m)) /\ \A b : Holds(Append(tx, m), b) <=> Holds(tx, b) \/ m.b = b
    BY <1>1, Joins
  <1> QED  BY <1>1, <1>2 DEF Apart, Holds

\* A message with a buffer goes into rx.
LEMMA IntoRx ==
  ASSUME Types, OInv, NEW m \in FromDsp, rx' = Append(rx, m), ~ Holds(rx, m.b)
  PROVE  Apart(rx)' /\ \A b \in Bufs : Holds(rx, b)' <=> Holds(rx, b) \/ b = m.b
PROOF
  <1>1. rx \in Seq(FromDsp) /\ Apart(rx)
    BY DEF Types, OInv
  <1>2. Apart(Append(rx, m)) /\ \A b : Holds(Append(rx, m), b) <=> Holds(rx, b) \/ m.b = b
    BY <1>1, Joins
  <1> QED  BY <1>1, <1>2 DEF Apart, Holds

\* A message goes into the queue of xy_proxy, with a buffer or without.
LEMMA IntoProxyQ ==
  ASSUME Types, OInv, NEW m \in ToProxy, proxyQ' = Append(proxyQ, m),
         m.b = None \/ ~ Holds(proxyQ, m.b)
  PROVE  Apart(proxyQ)' /\ \A b \in Bufs : Holds(proxyQ, b)' <=> Holds(proxyQ, b) \/ b = m.b
PROOF
  <1>1. proxyQ \in Seq(ToProxy) /\ Apart(proxyQ)
    BY DEF Types, OInv
  <1>2. Apart(Append(proxyQ, m)) /\ \A b : Holds(Append(proxyQ, m), b) <=> Holds(proxyQ, b) \/ m.b = b
    BY <1>1, Joins
  <1> QED  BY <1>1, <1>2 DEF Apart, Holds

\* The reader gives a buffer of the DSP back, or has xy_proxy do so.
LEMMA OwnGive ==
  ASSUME Types, OInv, Give \/ Hand
  PROVE  OInv'
PROOF
  <1> USE DEF m3, sync, heaps, remote, CanGive, CanHand
  <1>x. PICK x : x = reader.m.b
    OBVIOUS
  <1>0. /\ reader.pc = "give" /\ x \in DspBufs /\ x \in Bufs /\ x # None
        /\ Owner /\ \A b \in Bufs : b # None
    BY <1>x, ReaderHolds, CoreAssumption DEF Give, Hand, Delivery, OInv, Bufs, DspBufs
  <1>1. Keeps("reader", x) /\ \A o \in Place : o # "reader" => ~ Keeps(o, x)
    BY <1>0, <1>x, OnlyHere, KeepsMeans DEF Place
  <1>2. reader'.m.b = None
    <2>1. PICK p : reader' = [pc |-> p, m |-> [reader.m EXCEPT !.b = None]]
      BY DEF Give, Hand, Without
    <2>2. reader.m \in Delivery(DspBufs \cup {None})
      BY <1>0, <1>x, ReaderHolds, ReaderBecomes
    <2>3. [reader.m EXCEPT !.b = None].b = None
      BY <2>2 DEF Delivery
    <2> QED  BY <2>1, <2>3
  <1>3. CASE Give
    <2>1. FreeMsg(x) \in ToDsp /\ FreeMsg(x).b = x /\ Send(FreeMsg(x))
      BY <1>0, <1>3, <1>x DEF Give, FreeMsg, Msg, ToDsp
    <2>2. Apart(tx)' /\ \A b \in Bufs : Holds(tx, b)' <=> Holds(tx, b) \/ b = x
      BY <1>1, <2>1, IntoTx, KeepsMeans DEF Place
    <2>3. Frame({"reader", "tx"})
      BY <1>3, FrameFrom DEF Give, Place, Asks, Holds
    <2>4. Passes(x, "reader", "tx")
      BY <1>0, <1>1, <1>2, <2>2, <2>3, PassesFrom, KeepsMeans DEF Place
    <2> QED  BY <1>0, <1>3, <2>2, <2>4, PassesKeeps DEF OInv, Alone, Give, Apart
  <1>4. CASE Hand
    <2>1. FreeMsg(x) \in ToProxy /\ FreeMsg(x).b = x /\ proxyQ' = Append(proxyQ, FreeMsg(x))
      BY <1>0, <1>4, <1>x DEF Hand, FreeMsg, Msg, ToProxy
    <2>2. Apart(proxyQ)' /\ \A b \in Bufs : Holds(proxyQ, b)' <=> Holds(proxyQ, b) \/ b = x
      BY <1>1, <2>1, IntoProxyQ, KeepsMeans DEF Place
    <2>3. Frame({"reader", "proxyQ"})
      BY <1>4, FrameFrom DEF Hand, Place, Asks, Holds
    <2>4. Passes(x, "reader", "proxyQ")
      BY <1>0, <1>1, <1>2, <2>2, <2>3, PassesFrom, KeepsMeans DEF Place
    <2> QED  BY <1>0, <1>4, <2>2, <2>4, PassesKeeps DEF OInv, Alone, Hand, Apart
  <1> QED  BY <1>3, <1>4

\* A message is taken from a ring or a queue.
LEMMA OutOf ==
  /\ Types /\ OInv /\ tx # << >> /\ tx' = Tail(tx) =>
       Apart(tx)' /\ \A b \in Bufs : Holds(tx, b)' <=> Holds(tx, b) /\ b # Head(tx).b
  /\ Types /\ OInv /\ rx # << >> /\ rx' = Tail(rx) =>
       Apart(rx)' /\ \A b \in Bufs : Holds(rx, b)' <=> Holds(rx, b) /\ b # Head(rx).b
  /\ Types /\ OInv /\ proxyQ # << >> /\ proxyQ' = Tail(proxyQ) =>
       /\ Apart(proxyQ)'
       /\ \A b \in Bufs : Holds(proxyQ, b)' <=> Holds(proxyQ, b) /\ b # Head(proxyQ).b
PROOF
  <1>0. \A b \in Bufs : b # None
    BY CoreAssumption DEF Bufs, DspBufs
  <1>1. ASSUME NEW S, NEW q \in Seq(S), q # << >>, Apart(q)
        PROVE  /\ Apart(Tail(q))
               /\ \A b \in Bufs : Holds(Tail(q), b) <=> Holds(q, b) /\ b # Head(q).b
    <2>1. /\ Apart(Tail(q)) /\ (Head(q).b # None => ~ Holds(Tail(q), Head(q).b))
          /\ \A b : Holds(q, b) <=> Holds(Tail(q), b) \/ Head(q).b = b
      BY <1>1, Leaves
    <2> QED  BY <1>0, <2>1
  <1>2. ASSUME Types, OInv, tx # << >>, tx' = Tail(tx)
        PROVE  Apart(tx)' /\ \A b \in Bufs : Holds(tx, b)' <=> Holds(tx, b) /\ b # Head(tx).b
    <2>1. /\ Apart(Tail(tx))
          /\ \A b \in Bufs : Holds(Tail(tx), b) <=> Holds(tx, b) /\ b # Head(tx).b
      BY <1>1, <1>2 DEF Types, OInv
    <2> QED  BY <1>2, <2>1 DEF Apart, Holds
  <1>3. ASSUME Types, OInv, rx # << >>, rx' = Tail(rx)
        PROVE  Apart(rx)' /\ \A b \in Bufs : Holds(rx, b)' <=> Holds(rx, b) /\ b # Head(rx).b
    <2>1. /\ Apart(Tail(rx))
          /\ \A b \in Bufs : Holds(Tail(rx), b) <=> Holds(rx, b) /\ b # Head(rx).b
      BY <1>1, <1>3 DEF Types, OInv
    <2> QED  BY <1>3, <2>1 DEF Apart, Holds
  <1>4. ASSUME Types, OInv, proxyQ # << >>, proxyQ' = Tail(proxyQ)
        PROVE  /\ Apart(proxyQ)'
               /\ \A b \in Bufs : Holds(proxyQ, b)' <=> Holds(proxyQ, b) /\ b # Head(proxyQ).b
    <2>1. /\ Apart(Tail(proxyQ))
          /\ \A b \in Bufs : Holds(Tail(proxyQ), b) <=> Holds(proxyQ, b) /\ b # Head(proxyQ).b
      BY <1>1, <1>4 DEF Types, OInv
    <2> QED  BY <1>4, <2>1 DEF Apart, Holds
  <1> QED  BY <1>2, <1>3, <1>4

\* A buffer that is in a message is held by its ring.
LEMMA HeadHeld ==
  ASSUME Types
  PROVE  /\ tx # << >> => Holds(tx, Head(tx).b) /\ Head(tx) \in ToDsp
         /\ rx # << >> => Holds(rx, Head(rx).b) /\ Head(rx) \in FromDsp
         /\ proxyQ # << >> => Holds(proxyQ, Head(proxyQ).b) /\ Head(proxyQ) \in ToProxy
PROOF
  <1>1. ASSUME NEW S, NEW q \in Seq(S), q # << >>
        PROVE  Holds(q, Head(q).b) /\ Head(q) \in S
    BY <1>1, Leaves
  <1> QED  BY <1>1 DEF Types

\* The reader takes a message.
LEMMA OwnRead ==
  ASSUME Types, OInv, Read
  PROVE  OInv'
PROOF
  <1> USE DEF m3, sync, heaps, remote, CanRead
  <1>x. PICK x : x = Head(rx).b
    OBVIOUS
  <1>0. /\ reader.pc = "read" /\ reader.m.b = None /\ rx # << >> /\ rx' = Tail(rx)
        /\ Owner /\ \A b \in Bufs : b # None
    BY ReaderHolds, CoreAssumption DEF Read, Delivery, FreeMsg, Msg, OInv, Bufs, DspBufs
  <1>1. Head(rx) \in FromDsp /\ x \in Bufs /\ Holds(rx, x)
    BY <1>0, <1>x, HeadHeld DEF FromDsp, Delivery, Bufs
  <1>2. Apart(rx)' /\ \A b \in Bufs : Holds(rx, b)' <=> Holds(rx, b) /\ b # x
    BY <1>0, <1>x, OutOf
  <1>3. Keeps("rx", x) /\ ~ Keeps("rx", x)'
    BY <1>1, <1>2, KeepsMeans
  <1>4. CASE Head(rx).k = "free"
    <2>1. armFree' = armFree \cup {x} /\ reader' = reader /\ dspFree' = dspFree
      BY <1>4, <1>x DEF Read
    <2>2. Frame({"rx", "free"})
      BY <2>1, FrameFrom DEF Read, Place, Asks, Holds
    <2>3. Passes(x, "rx", "free")
      BY <1>2, <1>3, <2>1, <2>2, PassesFrom, KeepsMeans DEF Place
    <2> QED  BY <1>0, <1>2, <2>3, PassesKeeps DEF OInv, Alone, Read, Apart
  <1>5. CASE Head(rx).k # "free"
    <2>1. reader'.m.b = x /\ armFree' = armFree /\ dspFree' = dspFree
      BY <1>5, <1>x DEF Read
    <2>2. Frame({"rx", "reader"})
      BY <2>1, FrameFrom DEF Read, Place, Asks, Holds
    <2>3. Passes(x, "rx", "reader")
      BY <1>0, <1>2, <1>3, <2>1, <2>2, PassesFrom, KeepsMeans DEF Place
    <2> QED  BY <1>0, <1>2, <2>3, PassesKeeps DEF OInv, Alone, Read, Apart
  <1> QED  BY <1>4, <1>5

\* The reader delivers a message.
LEMMA OwnDeliver ==
  ASSUME Types, SInv, OInv, DeliverAt \/ DeliverData \/ DeliverMsg
  PROVE  OInv'
PROOF
  <1> USE DEF m3, sync, heaps, remote, CanDeliver
  <1>x. PICK x : x = reader.m.b
    OBVIOUS
  <1>0. /\ reader.pc = "deliver" /\ x \in Pool \cup {None} /\ reader.m \in Delivery(DspBufs \cup {None})
        /\ Owner /\ \A b \in Bufs : b # None /\ (x # None => x \in Bufs)
    BY <1>x, ReaderHolds, ReaderBecomes, CoreAssumption
       DEF DeliverAt, DeliverData, DeliverMsg, Delivery, OInv, Bufs, DspBufs
  <1>1. ASSUME Without("read")  PROVE reader'.m.b = None
    <2>1. reader' = [pc |-> "read", m |-> [reader.m EXCEPT !.b = None]]
      BY <1>1 DEF Without
    <2>2. [reader.m EXCEPT !.b = None].b = None
      BY <1>0 DEF Delivery
    <2> QED  BY <2>1, <2>2
  <1>2. ASSUME Delivered  PROVE reader'.m.b = x
    <2>1. CASE x = None
      BY <1>1, <1>2, <1>x, <2>1 DEF Delivered
    <2>2. CASE x # None
      <3>1. reader' = [pc |-> "give", m |-> reader.m]
        BY <1>2, <1>x, <2>2, ReaderHolds DEF Delivered, At
      <3> QED  BY <1>x, <3>1
    <2> QED  BY <2>1, <2>2
  <1>3. CASE DeliverAt \/ (DeliverData /\ Delivered /\ UNCHANGED held)
             \/ (DeliverMsg /\ ~ (reader.m.k = "ans" /\ reader.m.of = syncId))
    <2>1. Frame({})
      BY <1>2, <1>3, <1>x, FrameFrom DEF DeliverAt, DeliverData, DeliverMsg, Place, Asks, Holds
    <2>2. Stays
      BY <2>1 DEF Frame, Stays
    <2> QED  BY <1>0, <1>3, <2>2, StaysKeeps DEF OInv, Alone, DeliverAt, DeliverData, DeliverMsg, Apart
  <1>4. CASE DeliverData /\ Without("read") /\ held' = held \cup ({reader.m.b} \ {None})
    <2>1. reader'.m.b = None /\ held' = held \cup ({x} \ {None})
      BY <1>1, <1>4, <1>x DEF DeliverData
    <2>2. CASE x = None
      <3>1. Frame({})
        BY <1>4, <1>x, <2>1, <2>2, FrameFrom DEF DeliverData, Place, Asks, Holds
      <3>2. Stays
        BY <3>1 DEF Frame, Stays
      <3> QED  BY <1>0, <1>4, <3>2, StaysKeeps DEF OInv, Alone, DeliverData, Apart
    <2>3. CASE x # None
      <3>1. Frame({"reader", "held"})
        BY <1>4, FrameFrom DEF DeliverData, Place, Asks, Holds
      <3>2. Passes(x, "reader", "held")
        BY <1>0, <1>x, <2>1, <2>3, <3>1, PassesFrom, KeepsMeans DEF Place
      <3> QED  BY <1>0, <1>4, <3>2, PassesKeeps DEF OInv, Alone, DeliverData, Apart
    <2> QED  BY <2>2, <2>3
  <1>5. CASE DeliverMsg /\ reader.m.k = "ans" /\ reader.m.of = syncId
    <2>1. reader'.m.b = None /\ answer'.b = x
      BY <1>1, <1>5, <1>x DEF DeliverMsg
    <2>2. answer.b = None
      <3>1. reader.m.of \in Apps /\ Reading(reader.m.of)
        BY <1>0, <1>5 DEF Delivery, Reading
      <3>2. sem = 0 /\ app[reader.m.of].pc = "wait"
        BY <3>1 DEF SInv, OneAsked
      <3>3. mux = reader.m.of
        BY <3>1, <3>2 DEF SInv, Turn
      <3> QED  BY <3>2, <3>3 DEF SInv, Answered
    <2>3. CASE x = None
      <3>1. Frame({})
        BY <1>5, <1>x, <2>1, <2>2, <2>3, FrameFrom DEF DeliverMsg, Place, Asks, Holds
      <3>2. Stays
        BY <3>1 DEF Frame, Stays
      <3> QED  BY <1>0, <1>5, <3>2, StaysKeeps DEF OInv, Alone, DeliverMsg, Apart
    <2>4. CASE x # None
      <3>1. Frame({"reader", "answer"})
        BY <1>5, FrameFrom DEF DeliverMsg, Place, Asks, Holds
      <3>2. Passes(x, "reader", "answer")
        BY <1>0, <1>x, <2>1, <2>2, <2>4, <3>1, PassesFrom, KeepsMeans DEF Place
      <3> QED  BY <1>0, <1>5, <3>2, PassesKeeps DEF OInv, Alone, DeliverMsg, Apart
    <2> QED  BY <2>3, <2>4
  <1> QED  BY <1>3, <1>4, <1>5 DEF DeliverData

\* A message with the buffer x, which was elsewhere, goes into tx.
LEMMA SendPasses ==
  ASSUME Types, OInv, NEW x \in Bufs, NEW m \in ToDsp, m.b = x, Send(m),
         NEW from \in Place \ {"tx"}, Frame({from, "tx"}), Keeps(from, x),
         \A b \in Bufs, o \in {from} : Keeps(o, b)' <=> Keeps(o, b) /\ b # x,
         UNCHANGED <<rx, proxyQ>>, Alone'
  PROVE  OInv'
PROOF
  <1>1. ~ Holds(tx, x) /\ Owner
    BY OnlyHere, KeepsMeans DEF OInv, Place
  <1>2. Apart(tx)' /\ \A b \in Bufs : Holds(tx, b)' <=> Holds(tx, b) \/ b = x
    BY <1>1, IntoTx
  <1>3. Keeps("tx", x)' /\ ~ Keeps(from, x)'
    BY <1>2, KeepsMeans
  <1>4. \A b \in Bufs, o \in {from, "tx"} : b # x => (Keeps(o, b)' <=> Keeps(o, b))
    BY <1>2, KeepsMeans
  <1>5. Passes(x, from, "tx")
    <2>1. "tx" \in Place /\ from \in Place /\ from # "tx"
      BY DEF Place
    <2> QED  BY <1>3, <1>4, <2>1, PassesFrom
  <1> QED  BY <1>1, <1>2, <1>5, PassesKeeps DEF OInv, Apart

\* A buffer is taken from this core's heap.
LEMMA HeapGives ==
  ASSUME Types, armFree # {}, armFree' = armFree \ {ArmBuf}, dspFree' = dspFree
  PROVE  /\ ArmBuf \in ArmBufs /\ ArmBuf \in Bufs /\ Keeps("free", ArmBuf)
         /\ \A b \in Bufs, o \in {"free"} : Keeps(o, b)' <=> Keeps(o, b) /\ b # ArmBuf
PROOF
  <1>1. ArmBuf \in armFree /\ ArmBuf \in ArmBufs /\ ArmBuf \notin dspFree
    BY CoreAssumption DEF ArmBuf, Types, DspBufs
  <1> QED  BY <1>1, KeepsMeans DEF Bufs

\* No buffer changes hands.
LEMMA OwnSame ==
  ASSUME OInv, Frame({}), Apart(tx)', Apart(rx)', Apart(proxyQ)', Alone'
  PROVE  OInv'
PROOF
  <1>1. Stays
    BY DEF Frame, Stays
  <1> QED  BY <1>1, StaysKeeps DEF OInv

\* A step of at_ctl.
LEMMA OwnAtCtl ==
  ASSUME Types, OInv, AtCtl
  PROVE  OInv'
PROOF
  <1> USE DEF m3, sync, heaps, remote
  <1>0. Owner /\ \A b \in Bufs : b # None
    BY CoreAssumption DEF OInv, Bufs, DspBufs
  <1>1. CASE AtGet
    <2>1. CASE UNCHANGED armFree
      <3>1. atctl.b = None /\ atctl'.b = None
        BY <1>1, <2>1 DEF AtGet, Types, AtStates, Idle, ArmBuf
      <3>2. Frame({})
        BY <1>1, <2>1, <3>1, FrameFrom DEF AtGet, Place, Asks, Holds
      <3> QED  BY <1>1, <3>2, OwnSame DEF OInv, AtGet, Apart, Alone
    <2>2. CASE armFree' # armFree
      <3>0. PICK x : x = ArmBuf
        OBVIOUS
      <3>1. atctl'.b = x /\ atctl.b = None /\ armFree # {} /\ armFree' = armFree \ {x}
        BY <1>1, <2>2, <3>0 DEF AtGet, Types, AtStates
      <3>2. /\ x \in Bufs /\ Keeps("free", x)
            /\ \A b \in Bufs, o \in {"free"} : Keeps(o, b)' <=> Keeps(o, b) /\ b # x
        BY <1>1, <3>0, <3>1, HeapGives DEF AtGet
      <3>3. Frame({"free", "atctl"})
        BY <1>1, FrameFrom DEF AtGet, Place, Asks, Holds
      <3>4. Passes(x, "free", "atctl")
        BY <1>0, <3>1, <3>2, <3>3, PassesFrom, KeepsMeans DEF Place
      <3> QED  BY <1>0, <1>1, <3>4, PassesKeeps DEF OInv, AtGet, Apart, Alone
    <2> QED  BY <2>1, <2>2
  <1>2. CASE AtForward
    <2>0. PICK x : x = atctl.b
      OBVIOUS
    <2>1. /\ x \in Bufs /\ Send(Msg("at", x, None)) /\ Msg("at", x, None) \in ToDsp
          /\ Msg("at", x, None).b = x /\ atctl'.b = None
      BY <1>2, <2>0 DEF AtForward, Types, AtStates, Bufs, Idle, Msg, ToDsp
    <2>2. Frame({"atctl", "tx"})
      BY <1>2, FrameFrom DEF AtForward, Place, Asks, Holds
    <2>3. Keeps("atctl", x) /\ \A b \in Bufs, o \in {"atctl"} : Keeps(o, b)' <=> Keeps(o, b) /\ b # x
      BY <1>0, <2>0, <2>1, KeepsMeans
    <2>4. UNCHANGED <<rx, proxyQ>> /\ Alone'
      BY <1>2 DEF AtForward, OInv, Alone
    <2> QED  BY <2>1, <2>2, <2>3, <2>4, SendPasses DEF Place
  <1>3. CASE AtToProxy
    <2>1. PICK k \in {"cmd", "pdp"} : k = IF atctl.pc = "pdp" THEN "pdp" ELSE "cmd"
      OBVIOUS
    <2>5. Msg(k, None, None) \in ToProxy /\ Msg(k, None, None).b = None
      BY DEF Msg, ToProxy
    <2>2. Apart(proxyQ)' /\ \A b \in Bufs : Holds(proxyQ, b)' <=> Holds(proxyQ, b)
      BY <1>0, <1>3, <2>1, <2>5, IntoProxyQ DEF AtToProxy
    <2>3. atctl.b = None /\ atctl'.b = None
      BY <1>3 DEF AtToProxy, Types, AtStates, Idle
    <2>4. Frame({})
      BY <1>3, <2>2, <2>3, FrameFrom DEF AtToProxy, Place, Asks, Holds
    <2> QED  BY <1>3, <2>2, <2>4, OwnSame DEF OInv, AtToProxy, Apart, Alone
  <1>4. CASE AtAgain
    <2>1. atctl.b = None /\ atctl'.b = None
      BY <1>4 DEF AtAgain, Types, AtStates, Idle
    <2>2. Frame({})
      BY <1>4, <2>1, FrameFrom DEF AtAgain, Place, Asks, Holds
    <2> QED  BY <1>4, <2>2, OwnSame DEF OInv, AtAgain, Apart, Alone
  <1> QED  BY <1>1, <1>2, <1>3, <1>4 DEF AtCtl

\* A step of xy_proxy.
LEMMA OwnProxy ==
  ASSUME Types, OInv, Proxy
  PROVE  OInv'
PROOF
  <1> USE DEF m3, sync, heaps, remote
  <1>0. Owner /\ \A b \in Bufs : b # None
    BY CoreAssumption DEF OInv, Bufs, DspBufs
  <1>1. CASE ProxyGet
    <2>0. PICK h : h = Head(proxyQ).b
      OBVIOUS
    <2>1. /\ Head(proxyQ) \in ToProxy /\ Holds(proxyQ, h) /\ proxy.b = None
          /\ Apart(proxyQ)' /\ \A b \in Bufs : Holds(proxyQ, b)' <=> Holds(proxyQ, b) /\ b # h
      BY <1>1, <2>0, HeadHeld, OutOf DEF ProxyGet, Types, ProxyStates
    <2>2. CASE Head(proxyQ).k = "free"
      <3>1. h \in Bufs /\ proxy'.b = h /\ UNCHANGED heaps
        BY <1>1, <2>0, <2>1, <2>2 DEF ProxyGet, ToProxy, Bufs
      <3>2. Frame({"proxyQ", "proxy"})
        BY <1>1, <3>1, FrameFrom DEF ProxyGet, Place, Asks, Holds
      <3>3. Keeps("proxyQ", h) /\ ~ Keeps("proxyQ", h)' /\ Keeps("proxy", h)'
        BY <2>1, <3>1, KeepsMeans
      <3>4. \A b \in Bufs, o \in {"proxyQ", "proxy"} : b # h => (Keeps(o, b)' <=> Keeps(o, b))
        BY <1>0, <2>1, <3>1, KeepsMeans
      <3>5. Passes(h, "proxyQ", "proxy")
        BY <3>2, <3>3, <3>4, PassesFrom DEF Place
      <3> QED  BY <1>0, <1>1, <2>1, <3>5, PassesKeeps DEF OInv, ProxyGet, Apart, Alone
    <2>3. CASE Head(proxyQ).k \in {"cmd", "pdp"}
      <3>1. \A b \in Bufs : Holds(proxyQ, b)' <=> Holds(proxyQ, b)
        BY <1>0, <2>0, <2>1, <2>3 DEF ToProxy
      <3>2. CASE UNCHANGED armFree
        <4>1. proxy'.b = None
          BY <1>1, <2>1, <2>3, <3>2 DEF ProxyGet, Idle, ArmBuf
        <4>2. Frame({})
          BY <1>1, <2>1, <3>1, <3>2, <4>1, FrameFrom DEF ProxyGet, Place, Asks, Holds
        <4> QED  BY <1>1, <2>1, <4>2, OwnSame DEF OInv, ProxyGet, Apart, Alone
      <3>3. CASE armFree' # armFree
        <4>0. PICK x : x = ArmBuf
          OBVIOUS
        <4>1. proxy'.b = x /\ armFree # {} /\ armFree' = armFree \ {x}
          BY <1>1, <3>3, <4>0 DEF ProxyGet
        <4>2. /\ x \in Bufs /\ Keeps("free", x)
              /\ \A b \in Bufs, o \in {"free"} : Keeps(o, b)' <=> Keeps(o, b) /\ b # x
          BY <1>1, <4>0, <4>1, HeapGives DEF ProxyGet
        <4>3. Frame({"free", "proxy"})
          BY <1>1, <3>1, FrameFrom DEF ProxyGet, Place, Asks, Holds
        <4>4. Passes(x, "free", "proxy")
          BY <1>0, <2>1, <4>1, <4>2, <4>3, PassesFrom, KeepsMeans DEF Place
        <4> QED  BY <1>0, <1>1, <2>1, <4>4, PassesKeeps DEF OInv, ProxyGet, Apart, Alone
      <3> QED  BY <3>2, <3>3
    <2> QED  BY <2>1, <2>2, <2>3 DEF ToProxy
  <1>2. CASE ProxyWrite
    <2>0. PICK x : x = proxy.b
      OBVIOUS
    <2>1. PICK m : m = Msg(proxy.pc, x, None)
      OBVIOUS
    <2>2. x \in Bufs /\ Send(m) /\ m \in ToDsp /\ m.b = x /\ proxy'.b = None
      BY <1>2, <2>0, <2>1 DEF ProxyWrite, Types, ProxyStates, Bufs, Idle, Msg, ToDsp
    <2>3. Frame({"proxy", "tx"})
      BY <1>2, FrameFrom DEF ProxyWrite, Place, Asks, Holds
    <2>4. Keeps("proxy", x) /\ \A b \in Bufs, o \in {"proxy"} : Keeps(o, b)' <=> Keeps(o, b) /\ b # x
      BY <1>0, <2>0, <2>2, KeepsMeans
    <2>5. UNCHANGED <<rx, proxyQ>> /\ Alone'
      BY <1>2 DEF ProxyWrite, OInv, Alone
    <2> QED  BY <2>2, <2>3, <2>4, <2>5, SendPasses DEF Place
  <1>3. CASE ProxyAgain
    <2>1. proxy.b = None /\ proxy'.b = None
      BY <1>3 DEF ProxyAgain, Types, ProxyStates, Idle
    <2>2. Frame({})
      BY <1>3, <2>1, FrameFrom DEF ProxyAgain, Place, Asks, Holds
    <2> QED  BY <1>3, <2>2, OwnSame DEF OInv, ProxyAgain, Apart, Alone
  <1> QED  BY <1>1, <1>2, <1>3 DEF Proxy

\* The UART, the stacks and an IP packet.
LEMMA OwnOthers ==
  ASSUME Types, OInv, McuCmd \/ IpOut \/ (\E b \in Pool : StackFrees(b))
  PROVE  OInv'
PROOF
  <1> USE DEF m3, sync, heaps, remote
  <1>0. Owner /\ \A b \in Bufs : b # None
    BY CoreAssumption DEF OInv, Bufs, DspBufs
  <1>1. CASE McuCmd
    <2>1. Frame({})
      BY <1>1, FrameFrom DEF McuCmd, Place, Asks, Holds
    <2> QED  BY <1>1, <2>1, OwnSame DEF OInv, McuCmd, Apart, Alone
  <1>2. CASE IpOut
    <2>0. PICK x : x = ArmBuf
      OBVIOUS
    <2>1. /\ x \in ArmBufs /\ x \in Bufs /\ Keeps("free", x)
          /\ \A b \in Bufs, o \in {"free"} : Keeps(o, b)' <=> Keeps(o, b) /\ b # x
      BY <1>2, <2>0, HeapGives DEF IpOut
    <2>2. Msg("ip", x, None) \in ToDsp /\ Msg("ip", x, None).b = x /\ Send(Msg("ip", x, None))
      BY <1>2, <2>0, <2>1 DEF IpOut, Msg, ToDsp
    <2>3. Frame({"free", "tx"})
      BY <1>2, FrameFrom DEF IpOut, Place, Asks, Holds
    <2>4. UNCHANGED <<rx, proxyQ>> /\ Alone'
      BY <1>2 DEF IpOut, OInv, Alone
    <2> QED  BY <2>1, <2>2, <2>3, <2>4, SendPasses DEF Place
  <1>3. ASSUME NEW x \in Pool, StackFrees(x)  PROVE OInv'
    <2>1. /\ x \in Bufs /\ FreeMsg(x) \in ToDsp /\ FreeMsg(x).b = x /\ Send(FreeMsg(x))
          /\ x \in held /\ held' = held \ {x}
      BY <1>3 DEF StackFrees, FreeMsg, Msg, ToDsp, Bufs, DspBufs
    <2>2. Frame({"held", "tx"})
      BY <1>3, FrameFrom DEF StackFrees, Place, Asks, Holds
    <2>3. Keeps("held", x) /\ \A b \in Bufs, o \in {"held"} : Keeps(o, b)' <=> Keeps(o, b) /\ b # x
      BY <2>1, KeepsMeans
    <2>4. UNCHANGED <<rx, proxyQ>> /\ Alone'
      BY <1>3 DEF StackFrees, OInv, Alone
    <2> QED  BY <2>1, <2>2, <2>3, <2>4, SendPasses DEF Place
  <1> QED  BY <1>1, <1>2, <1>3

\* A thread in send_shm_msg_sync moves on and holds c, or nothing.
LEMMA AppMoves ==
  ASSUME Types, OInv, NEW u \in Apps, NEW pc, NEW c, Moves(u, pc, c), c = None \/ ~ Asks(c)
  PROVE  /\ Alone'
         /\ \A b : b # None => (Asks(b)' <=> (Asks(b) /\ b # app[u].b) \/ b = c)
PROOF
  <1>1. DOMAIN app = Apps /\ Alone
    BY DEF Types, OInv
  <1>2. \A v \in Apps : app'[v].b = IF v = u THEN c ELSE app[v].b
    BY <1>1 DEF Moves
  <1> QED  BY <1>1, <1>2 DEF Alone, Asks

\* A step of a thread in send_shm_msg_sync.
LEMMA OwnApps ==
  ASSUME Types, OInv, NEW u \in Apps, SyncBegin(u) \/ Sync(u)
  PROVE  OInv'
PROOF
  <1> USE DEF m3, sync, heaps, remote
  <1>0. Owner /\ (\A b \in Bufs : b # None) /\ app[u] \in AppStates
    BY CoreAssumption DEF OInv, Bufs, DspBufs, Types
  <1>1. CASE SyncBegin(u)
    <2>0. PICK x : x = ArmBuf
      OBVIOUS
    <2>1. /\ x \in ArmBufs /\ x \in Bufs /\ Keeps("free", x)
          /\ \A b \in Bufs, o \in {"free"} : Keeps(o, b)' <=> Keeps(o, b) /\ b # x
      BY <1>1, <2>0, HeapGives DEF SyncBegin
    <2>2. app[u].b = None /\ Moves(u, "write", x) /\ ~ Asks(x)
      BY <1>0, <1>1, <2>0, <2>1, OnlyHere, KeepsMeans DEF SyncBegin, AppStates, Place
    <2>3. Alone' /\ \A b \in Bufs : Asks(b)' <=> Asks(b) \/ b = x
      BY <1>0, <2>2, AppMoves
    <2>4. Frame({"free", "app"})
      BY <1>1, FrameFrom DEF SyncBegin, Place, Asks, Holds
    <2>5. Passes(x, "free", "app")
      BY <2>1, <2>3, <2>4, PassesFrom, KeepsMeans DEF Place
    <2> QED  BY <1>0, <1>1, <2>3, <2>5, PassesKeeps DEF OInv, SyncBegin, Apart
  <1>2. CASE SyncWrite(u)
    <2>0. PICK x : x = app[u].b
      OBVIOUS
    <2>1. /\ x \in Bufs /\ Msg("req", x, u) \in ToDsp /\ Msg("req", x, u).b = x
          /\ Send(Msg("req", x, u)) /\ Moves(u, "wait", None)
      BY <1>0, <1>2, <2>0 DEF SyncWrite, AppStates, Bufs, Msg, ToDsp
    <2>2. Alone' /\ \A b \in Bufs : Asks(b)' <=> Asks(b) /\ b # x
      BY <1>0, <2>0, <2>1, AppMoves
    <2>3. Keeps("app", x) /\ \A b \in Bufs, o \in {"app"} : Keeps(o, b)' <=> Keeps(o, b) /\ b # x
      BY <2>0, <2>2, KeepsMeans DEF Asks
    <2>4. Frame({"app", "tx"})
      BY <1>2, FrameFrom DEF SyncWrite, Place, Holds
    <2>5. UNCHANGED <<rx, proxyQ>>
      BY <1>2 DEF SyncWrite
    <2> QED  BY <2>1, <2>2, <2>3, <2>4, <2>5, SendPasses DEF Place
  <1>3. CASE SyncTake(u)
    <2>1. app[u].b = None /\ Moves(u, "take", None)
      BY <1>0, <1>3 DEF SyncTake, AppStates
    <2>2. Alone' /\ \A b \in Bufs : Asks(b)' <=> Asks(b)
      BY <1>0, <2>1, AppMoves
    <2>3. Frame({})
      BY <1>3, <2>2, FrameFrom DEF SyncTake, Place, Holds
    <2> QED  BY <1>3, <2>2, <2>3, OwnSame DEF OInv, SyncTake, Apart
  <1>4. CASE SyncEnd(u)
    <2>0. PICK x : x = answer.b
      OBVIOUS
    <2>1. /\ app[u].b = None /\ Moves(u, "idle", None) /\ answer'.b = None
          /\ x \in DspBufs \cup {None} /\ UNCHANGED <<rx, proxyQ>>
      BY <1>0, <1>4, <2>0 DEF SyncEnd, AppStates, NoAnswer, Types
    <2>2. Alone' /\ \A b \in Bufs : Asks(b)' <=> Asks(b)
      BY <1>0, <2>1, AppMoves
    <2>3. CASE x = None
      <3>1. UNCHANGED tx
        BY <1>4, <2>0, <2>3, CoreAssumption DEF SyncEnd, DspBufs
      <3>2. Frame({})
        BY <1>4, <2>0, <2>1, <2>2, <2>3, <3>1, FrameFrom DEF SyncEnd, Place, Holds
      <3> QED  BY <2>1, <2>2, <3>1, <3>2, OwnSame DEF OInv, Apart
    <2>4. CASE x \in DspBufs
      <3>1. FreeMsg(x) \in ToDsp /\ FreeMsg(x).b = x /\ Send(FreeMsg(x)) /\ x \in Bufs
        BY <1>4, <2>0, <2>4 DEF SyncEnd, FreeMsg, Msg, ToDsp, Bufs
      <3>2. Frame({"answer", "tx"})
        BY <1>4, <2>2, FrameFrom DEF SyncEnd, Place, Holds
      <3>3. Keeps("answer", x) /\ \A b \in Bufs, o \in {"answer"} : Keeps(o, b)' <=> Keeps(o, b) /\ b # x
        BY <1>0, <2>0, <2>1, KeepsMeans
      <3> QED  BY <2>1, <2>2, <3>1, <3>2, <3>3, SendPasses DEF Place
    <2> QED  BY <2>1, <2>3, <2>4
  <1> QED  BY <1>1, <1>2, <1>3, <1>4 DEF Sync

\* A message with the buffer x, which was elsewhere, goes into rx.
LEMMA RxPasses ==
  ASSUME Types, OInv, NEW x \in Bufs, NEW m \in FromDsp, m.b = x, rx' = Append(rx, m),
         NEW from \in Place \ {"rx"}, Frame({from, "rx"}), Keeps(from, x),
         \A b \in Bufs, o \in {from} : Keeps(o, b)' <=> Keeps(o, b) /\ b # x,
         UNCHANGED <<tx, proxyQ>>, Alone'
  PROVE  OInv'
PROOF
  <1>1. ~ Holds(rx, x) /\ Owner
    BY OnlyHere, KeepsMeans DEF OInv, Place
  <1>2. Apart(rx)' /\ \A b \in Bufs : Holds(rx, b)' <=> Holds(rx, b) \/ b = x
    BY <1>1, IntoRx
  <1>3. Keeps("rx", x)' /\ ~ Keeps(from, x)'
    BY <1>2, KeepsMeans
  <1>4. \A b \in Bufs, o \in {from, "rx"} : b # x => (Keeps(o, b)' <=> Keeps(o, b))
    BY <1>2, KeepsMeans
  <1>5. Passes(x, from, "rx")
    <2>1. "rx" \in Place /\ from \in Place /\ from # "rx"
      BY DEF Place
    <2> QED  BY <1>3, <1>4, <2>1, PassesFrom
  <1> QED  BY <1>1, <1>2, <1>5, PassesKeeps DEF OInv, Apart

\* A step of the DSP.
LEMMA OwnDsp ==
  ASSUME Types, OInv,
         \/ DspRead \/ DspGives
         \/ \E k \in Downlink \ {"ans"}, b \in DspBufs : DspSends(k, b)
         \/ \E u \in Apps, b \in DspBufs : DspAnswers(u, b)
  PROVE  OInv'
PROOF
  <1> USE DEF m3, sync, heaps, remote
  <1>0. Owner /\ (\A b \in Bufs : b # None) /\ armFree \cap DspBufs = {}
    BY CoreAssumption DEF OInv, Bufs, DspBufs, Types
  <1>1. CASE DspRead
    <2>0. PICK x : x = Head(tx).b
      OBVIOUS
    <2>1. /\ tx # << >> /\ Head(tx) \in ToDsp /\ x \in Bufs /\ Keeps("tx", x)
          /\ Apart(tx)' /\ \A b \in Bufs : Holds(tx, b)' <=> Holds(tx, b) /\ b # x
      BY <1>1, <2>0, HeadHeld, OutOf, KeepsMeans DEF DspRead, ToDsp, Bufs
    <2>2. CASE Head(tx).k = "free"
      <3>1. dspFree' = dspFree \cup {x} /\ UNCHANGED <<armFree, dsp>>
        BY <1>1, <2>0, <2>2 DEF DspRead
      <3>2. Frame({"tx", "free"})
        BY <1>1, <3>1, FrameFrom DEF DspRead, Place, Asks, Holds
      <3>3. Passes(x, "tx", "free")
        BY <2>1, <3>1, <3>2, PassesFrom, KeepsMeans DEF Place
      <3> QED  BY <1>0, <1>1, <2>1, <3>3, PassesKeeps DEF OInv, DspRead, Apart, Alone
    <2>3. CASE Head(tx).k # "free"
      <3>1. dsp'.b = x /\ dsp.b = None /\ UNCHANGED heaps
        BY <1>1, <2>0, <2>3 DEF DspRead, Types, DspStates
      <3>2. Frame({"tx", "dsp"})
        BY <1>1, <3>1, FrameFrom DEF DspRead, Place, Asks, Holds
      <3>3. Passes(x, "tx", "dsp")
        BY <1>0, <2>1, <3>1, <3>2, PassesFrom, KeepsMeans DEF Place
      <3> QED  BY <1>0, <1>1, <2>1, <3>3, PassesKeeps DEF OInv, DspRead, Apart, Alone
    <2> QED  BY <2>2, <2>3
  <1>2. CASE DspGives
    <2>0. PICK x : x = dsp.b
      OBVIOUS
    <2>1. x \in ArmBufs /\ x \in Bufs /\ dsp'.b = None
      BY <1>2, <2>0 DEF DspGives, Types, DspStates, Bufs, Idle
    <2>2. FreeMsg(x) \in FromDsp /\ FreeMsg(x).b = x /\ rx' = Append(rx, FreeMsg(x))
      BY <1>2, <2>0, <2>1 DEF DspGives, FreeMsg, Msg, FromDsp
    <2>3. Frame({"dsp", "rx"})
      BY <1>2, FrameFrom DEF DspGives, Place, Asks, Holds
    <2>4. Keeps("dsp", x) /\ \A b \in Bufs, o \in {"dsp"} : Keeps(o, b)' <=> Keeps(o, b) /\ b # x
      BY <1>0, <2>0, <2>1, KeepsMeans
    <2>5. UNCHANGED <<tx, proxyQ>> /\ Alone'
      BY <1>2 DEF DspGives, OInv, Alone
    <2> QED  BY <2>1, <2>2, <2>3, <2>4, <2>5, RxPasses DEF Place
  <1>3. ASSUME NEW x \in DspBufs, NEW m \in Delivery(DspBufs), m.b = x, x \in dspFree,
               rx' = Append(rx, m), dspFree' = dspFree \ {x},
               UNCHANGED <<tx, armFree, m3, sync, dsp>>
        PROVE  OInv'
    <2>1. x \in Bufs /\ m \in FromDsp
      BY <1>3 DEF Bufs, FromDsp
    <2>2. Frame({"free", "rx"})
      BY <1>3, FrameFrom DEF Place, Asks, Holds
    <2>3. Keeps("free", x) /\ \A b \in Bufs, o \in {"free"} : Keeps(o, b)' <=> Keeps(o, b) /\ b # x
      BY <1>0, <1>3, KeepsMeans
    <2>4. UNCHANGED <<tx, proxyQ>> /\ Alone'
      BY <1>3 DEF OInv, Alone
    <2> QED  BY <1>3, <2>1, <2>2, <2>3, <2>4, RxPasses DEF Place
  <1>4. ASSUME NEW k \in Downlink \ {"ans"}, NEW x \in DspBufs, DspSends(k, x)
        PROVE  OInv'
    <2>1. Msg(k, x, None) \in Delivery(DspBufs) /\ Msg(k, x, None).b = x
      BY DEF Msg, Delivery, Downlink
    <2> QED  BY <1>3, <1>4, <2>1 DEF DspSends
  <1>5. ASSUME NEW u \in Apps, NEW x \in DspBufs, DspAnswers(u, x)
        PROVE  OInv'
    <2>1. Msg("ans", x, u) \in Delivery(DspBufs) /\ Msg("ans", x, u).b = x
      BY DEF Msg, Delivery
    <2> QED  BY <1>3, <1>5, <2>1 DEF DspAnswers
  <1> QED  BY <1>1, <1>2, <1>4, <1>5

\* At the start every buffer is in its heap.
LEMMA OwnInit == Init => OInv
PROOF
  <1> SUFFICES ASSUME Init  PROVE OInv
    OBVIOUS
  <1>0. \A b \in Bufs : b # None
    BY CoreAssumption DEF Bufs, DspBufs
  <1>1. DOMAIN tx = {} /\ DOMAIN rx = {} /\ DOMAIN proxyQ = {}
    BY DEF Init
  <1>2. Apart(tx) /\ Apart(rx) /\ Apart(proxyQ) /\ Alone
    BY <1>1 DEF Apart, Alone, Init
  <1>3. \A b \in Bufs : ~ Holds(tx, b) /\ ~ Holds(rx, b) /\ ~ Holds(proxyQ, b) /\ ~ Asks(b)
    BY <1>0, <1>1 DEF Holds, Asks, Init
  <1>4. ASSUME NEW b \in Bufs  PROVE \A o \in Place : Keeps(o, b) <=> o = "free"
    <2>1. Keeps("free", b)
      BY KeepsMeans DEF Init, Bufs
    <2>2. ~ Keeps("reader", b) /\ ~ Keeps("proxy", b) /\ ~ Keeps("atctl", b)
      BY <1>0, KeepsMeans DEF Init, FreeMsg, Msg, Idle
    <2>3. ~ Keeps("answer", b) /\ ~ Keeps("dsp", b) /\ ~ Keeps("held", b)
      BY <1>0, KeepsMeans DEF Init, NoAnswer, Idle
    <2> QED  BY <1>3, <2>1, <2>2, <2>3, KeepsMeans DEF Place
  <1>5. Owner
    BY <1>4 DEF Owner, Place
  <1> QED  BY <1>2, <1>5 DEF OInv

\* Every step leaves every buffer with one owner.
LEMMA OwnStep == Types /\ SInv /\ OInv /\ [Next]_vars => OInv'
PROOF
  <1> SUFFICES ASSUME Types, SInv, OInv, [Next]_vars  PROVE OInv'
    OBVIOUS
  <1>1. CASE UNCHANGED vars
    <2>1. UNCHANGED <<tx, rx, proxyQ, app>>
      BY <1>1 DEF vars, sync, m3, heaps, remote
    <2>2. Frame({})
      BY <1>1, FrameFrom DEF vars, sync, m3, heaps, remote, Place, Asks, Holds
    <2> QED  BY <2>1, <2>2, OwnSame DEF OInv, Apart, Alone
  <1>2. CASE Reader
    BY <1>2, OwnGive, OwnRead, OwnDeliver DEF Reader
  <1> QED  BY <1>1, <1>2, OwnAtCtl, OwnProxy, OwnOthers, OwnApps, OwnDsp DEF Next

-----------------------------------------------------------------------------
(* Why the reader never waits: how much there can be in the two queues.       *)

\* How many members of T there are in the sequence q.
Count(q, T) == Cardinality({i \in DOMAIN q : q[i] \in T})

\* The sets of places in a sequence are finite.
LEMMA Counts ==
  ASSUME NEW S, NEW q \in Seq(S), NEW T
  PROVE  /\ IsFiniteSet({i \in DOMAIN q : q[i] \in T})
         /\ Count(q, T) \in Nat
PROOF
  <1>1. Len(q) \in Nat /\ DOMAIN q = 1 .. Len(q)
    OBVIOUS
  <1>2. IsFiniteSet(1 .. Len(q))
    BY <1>1, FS_Interval
  <1>3. {i \in DOMAIN q : q[i] \in T} \subseteq 1 .. Len(q)
    BY <1>1
  <1> QED  BY <1>2, <1>3, FS_Subset, FS_CardinalityType DEF Count

\* A message joins a queue.
LEMMA CountJoins ==
  ASSUME NEW S, NEW q \in Seq(S), NEW m \in S, NEW T
  PROVE  Count(Append(q, m), T) = IF m \in T THEN Count(q, T) + 1 ELSE Count(q, T)
PROOF
  <1> DEFINE r == Append(q, m)
             n == Len(q) + 1
             I == {i \in DOMAIN q : q[i] \in T}
             J == {i \in DOMAIN r : r[i] \in T}
  <1>1. r \in Seq(S) /\ Len(q) \in Nat /\ DOMAIN q = 1 .. Len(q) /\ DOMAIN r = 1 .. n
        /\ r[n] = m /\ \A i \in 1 .. Len(q) : r[i] = q[i]
    BY AppendProperties
  <1> HIDE DEF r
  <1>2. DOMAIN r = DOMAIN q \cup {n} /\ n \notin DOMAIN q
    BY <1>1
  <1>3. \A i \in DOMAIN q : r[i] = q[i]
    BY <1>1
  <1> HIDE DEF n
  <1>4. J = (IF m \in T THEN I \cup {n} ELSE I) /\ n \notin I
    BY <1>1, <1>2, <1>3
  <1>5. IsFiniteSet(I)
    BY Counts
  <1> HIDE DEF I, J
  <1>6. Cardinality(J) = IF m \in T THEN Cardinality(I) + 1 ELSE Cardinality(I)
    BY <1>4, <1>5, FS_AddElement
  <1> QED  BY <1>6 DEF Count, I, J, r

\* A message leaves a queue.
LEMMA CountLeaves ==
  ASSUME NEW S, NEW q \in Seq(S), q # << >>, NEW T
  PROVE  Count(q, T) = IF Head(q) \in T THEN Count(Tail(q), T) + 1 ELSE Count(Tail(q), T)
PROOF
  <1> DEFINE r == Tail(q)
             I == {i \in DOMAIN q : q[i] \in T}
             J == {i \in DOMAIN r : r[i] \in T}
             K == I \ {1}
  <1>1. r \in Seq(S) /\ Len(q) \in Nat \ {0} /\ DOMAIN q = 1 .. Len(q)
        /\ DOMAIN r = 1 .. Len(q) - 1 /\ Head(q) = q[1]
        /\ \A i \in 1 .. Len(q) - 1 : r[i] = q[i + 1]
    BY HeadTailProperties, EmptySeq
  <1> HIDE DEF r
  <1>2. \A i \in J : i \in Nat /\ i + 1 \in K
    BY <1>1
  <1>3. \A j \in K : j \in Nat /\ j - 1 \in J /\ (j - 1) + 1 = j
    BY <1>1
  <1>4. 1 \in I <=> Head(q) \in T
    BY <1>1
  <1>5. IsFiniteSet(I) /\ IsFiniteSet(J)
    BY <1>1, Counts
  <1> HIDE DEF I, J, K
  <1>6. ExistsBijection(J, K)
    <2> DEFINE f == [i \in J |-> i + 1]
    <2>1. f \in [J -> K] /\ \A i, j \in J : f[i] = f[j] => i = j
      BY <1>2
    <2>2. \A k \in K : \E i \in J : f[i] = k
      BY <1>3
    <2>3. f \in Bijection(J, K)
      BY <2>1, <2>2, Fun_IsBij
    <2> QED  BY <2>3, Fun_ExistsBij
  <1>7. Cardinality(K) = Cardinality(J) /\ Cardinality(J) \in Nat /\ Cardinality(I) \in Nat
    BY <1>5, <1>6, FS_Bijection, FS_CardinalityType
  <1>8. Cardinality(K) = IF 1 \in I THEN Cardinality(I) - 1 ELSE Cardinality(I)
    BY <1>5, FS_RemoveElement DEF K
  <1>9. Cardinality(I) = IF Head(q) \in T THEN Cardinality(J) + 1 ELSE Cardinality(J)
    BY <1>4, <1>7, <1>8
  <1> QED  BY <1>9 DEF Count, I, J, r

\* What is of one kind or of the other is counted once.
LEMMA CountBoth ==
  ASSUME NEW S, NEW q \in Seq(S), NEW T, NEW U, T \cap U = {}
  PROVE  Count(q, T \cup U) = Count(q, T) + Count(q, U)
PROOF
  <1> DEFINE I == {i \in DOMAIN q : q[i] \in T}
             J == {i \in DOMAIN q : q[i] \in U}
             K == {i \in DOMAIN q : q[i] \in T \cup U}
  <1>1. K = I \cup J /\ I \cap J = {}
    OBVIOUS
  <1>2. IsFiniteSet(I) /\ IsFiniteSet(J)
    BY Counts
  <1> HIDE DEF I, J, K
  <1>3. Cardinality(I) \in Nat /\ Cardinality(J) \in Nat
    BY <1>2, FS_CardinalityType
  <1>4. Cardinality(I \cup J) = Cardinality(I) + Cardinality(J) - Cardinality(I \cap J)
    BY <1>2, FS_Union
  <1>5. Cardinality(I \cap J) = 0
    BY <1>1, FS_EmptySet
  <1>6. Cardinality(K) = Cardinality(I) + Cardinality(J)
    BY <1>1, <1>3, <1>4, <1>5
  <1> QED  BY <1>6 DEF Count, I, J, K

\* Counting everything gives the length.
LEMMA CountAll ==
  ASSUME NEW S, NEW q \in Seq(S)
  PROVE  Count(q, S) = Len(q)
PROOF
  <1>1. Len(q) \in Nat /\ {i \in DOMAIN q : q[i] \in S} = 1 .. Len(q)
    OBVIOUS
  <1>2. ASSUME NEW n \in Nat  PROVE Cardinality(1 .. n) = n
    BY FS_Interval
  <1> QED  BY <1>1, <1>2, Zenon DEF Count

CmdMsgs == [k : {"cmd"}, b : {None}, of : {None}]
PdpMsgs == [k : {"pdp"}, b : {None}, of : {None}]
FreeMsgs == [k : {"free"}, b : DspBufs, of : {None}]
AtLines == [k : {"at"}, b : DspBufs, of : {None}]

(* A command of the MCU is in one of the queues or with at_ctl or xy_proxy,    *)
(* which has not answered it or passed it on yet.                              *)
AtHas == IF atctl.pc \in {"get", "pdp"} THEN 0 ELSE 1
ProxyHas == IF proxy.pc \in {"again", "at"} THEN 1 ELSE 0
CmdsCounted == /\ cmds = Count(atQ, {"cmd"}) + Count(proxyQ, CmdMsgs) + AtHas + ProxyHas
               /\ cmds <= Cmds
(* A line of the stack is on its way to at_ctl; the reader has it until it     *)
(* has been delivered, which is before a buffer of the pool is given back.     *)
ReaderHas ==
  IF reader.m.k = "at" /\ (reader.pc = "deliver" \/ (reader.pc = "give" /\ reader.m.b \in Dram))
    THEN 1 ELSE 0
LinesCounted == Count(atQ, {"rsp"}) + Count(rx, AtLines) + ReaderHas <= Burst

QInv == atQ \in Seq({"cmd", "rsp"}) /\ cmds \in Nat /\ CmdsCounted /\ LinesCounted

\* The counts are natural numbers.
LEMMA QCounts ==
  ASSUME Types, QInv
  PROVE  /\ Count(atQ, {"cmd"}) \in Nat /\ Count(atQ, {"rsp"}) \in Nat
         /\ Count(proxyQ, CmdMsgs) \in Nat /\ Count(rx, AtLines) \in Nat
         /\ AtHas \in {0, 1} /\ ProxyHas \in {0, 1} /\ ReaderHas \in {0, 1}
         /\ Cmds \in Nat /\ Burst \in Nat /\ cmds \in Nat
  BY Counts, CoreAssumption DEF Types, QInv, AtHas, ProxyHas, ReaderHas

\* A step that only changes what is counted nowhere.
LEMMA QSame ==
  /\ CmdsCounted /\ UNCHANGED <<atQ, proxyQ, atctl, proxy, cmds>> => CmdsCounted'
  /\ LinesCounted /\ UNCHANGED <<atQ, rx, reader>> => LinesCounted'
PROOF
  <1>1. CmdsCounted /\ UNCHANGED <<atQ, proxyQ, atctl, proxy, cmds>> => CmdsCounted'
    BY DEF CmdsCounted, AtHas, ProxyHas
  <1>2. LinesCounted /\ UNCHANGED <<atQ, rx, reader>> => LinesCounted'
    BY DEF LinesCounted, ReaderHas
  <1> QED  BY <1>1, <1>2

\* What at_msg_q counts when a line or a command joins or leaves it.
LEMMA AtQueue ==
  ASSUME atQ \in Seq({"cmd", "rsp"})
  PROVE  /\ \A x \in {"cmd", "rsp"} :
              /\ Append(atQ, x) \in Seq({"cmd", "rsp"})
              /\ Count(Append(atQ, x), {"cmd"}) = Count(atQ, {"cmd"}) + (IF x = "cmd" THEN 1 ELSE 0)
              /\ Count(Append(atQ, x), {"rsp"}) = Count(atQ, {"rsp"}) + (IF x = "rsp" THEN 1 ELSE 0)
         /\ atQ # << >> =>
              /\ Head(atQ) \in {"cmd", "rsp"} /\ Tail(atQ) \in Seq({"cmd", "rsp"})
              /\ Count(Tail(atQ), {"cmd"}) \in Nat /\ Count(Tail(atQ), {"rsp"}) \in Nat
              /\ Count(atQ, {"cmd"}) = Count(Tail(atQ), {"cmd"}) + (IF Head(atQ) = "cmd" THEN 1 ELSE 0)
              /\ Count(atQ, {"rsp"}) = Count(Tail(atQ), {"rsp"}) + (IF Head(atQ) = "rsp" THEN 1 ELSE 0)
PROOF
  <1>1. Count(atQ, {"cmd"}) \in Nat /\ Count(atQ, {"rsp"}) \in Nat
    BY Counts
  <1>2. ASSUME NEW x \in {"cmd", "rsp"}
        PROVE  /\ Append(atQ, x) \in Seq({"cmd", "rsp"})
               /\ Count(Append(atQ, x), {"cmd"}) = Count(atQ, {"cmd"}) + (IF x = "cmd" THEN 1 ELSE 0)
               /\ Count(Append(atQ, x), {"rsp"}) = Count(atQ, {"rsp"}) + (IF x = "rsp" THEN 1 ELSE 0)
    BY <1>1, CountJoins, AppendProperties
  <1>3. ASSUME atQ # << >>
        PROVE  /\ Head(atQ) \in {"cmd", "rsp"} /\ Tail(atQ) \in Seq({"cmd", "rsp"})
               /\ Count(Tail(atQ), {"cmd"}) \in Nat /\ Count(Tail(atQ), {"rsp"}) \in Nat
               /\ Count(atQ, {"cmd"}) = Count(Tail(atQ), {"cmd"}) + (IF Head(atQ) = "cmd" THEN 1 ELSE 0)
               /\ Count(atQ, {"rsp"}) = Count(Tail(atQ), {"rsp"}) + (IF Head(atQ) = "rsp" THEN 1 ELSE 0)
    <2>1. Head(atQ) \in {"cmd", "rsp"} /\ Tail(atQ) \in Seq({"cmd", "rsp"})
      BY <1>3, HeadTailProperties
    <2>2. Count(Tail(atQ), {"cmd"}) \in Nat /\ Count(Tail(atQ), {"rsp"}) \in Nat
      BY <2>1, Counts
    <2>3. /\ Count(atQ, {"cmd"}) = IF Head(atQ) \in {"cmd"} THEN Count(Tail(atQ), {"cmd"}) + 1
                                                            ELSE Count(Tail(atQ), {"cmd"})
          /\ Count(atQ, {"rsp"}) = IF Head(atQ) \in {"rsp"} THEN Count(Tail(atQ), {"rsp"}) + 1
                                                            ELSE Count(Tail(atQ), {"rsp"})
      BY <1>3, CountLeaves
    <2> QED  BY <2>1, <2>2, <2>3
  <1> QED  BY <1>2, <1>3

\* In the initial state the queues are empty.
LEMMA QInit == Init => QInv
PROOF
  <1> SUFFICES ASSUME Init  PROVE QInv
    OBVIOUS
  <1>1. \A T : Count(<< >>, T) = 0
    <2>1. \A T : {i \in DOMAIN << >> : << >>[i] \in T} = {}
      OBVIOUS
    <2> QED  BY <2>1, FS_EmptySet DEF Count
  <1>2. atQ = << >> /\ rx = << >> /\ proxyQ = << >> /\ cmds = 0
    BY DEF Init
  <1>3. AtHas = 0 /\ ProxyHas = 0 /\ ReaderHas = 0
    BY DEF Init, AtHas, ProxyHas, ReaderHas, Idle, FreeMsg, Msg
  <1> QED  BY <1>1, <1>2, <1>3, CoreAssumption DEF QInv, CmdsCounted, LinesCounted

\* The thread inter_core_msg.
LEMMA QReader ==
  ASSUME Types, QInv, Reader
  PROVE  QInv'
PROOF
  <1> USE DEF CanRead, CanGive, CanHand, CanDeliver
  <1>0. CmdsCounted /\ LinesCounted /\ atQ \in Seq({"cmd", "rsp"}) /\ cmds \in Nat
    BY DEF QInv
  <1>1. CASE Read
    <2>1. /\ rx # << >> /\ rx \in Seq(FromDsp) /\ Head(rx) \in FromDsp /\ rx' = Tail(rx)
          /\ reader.pc = "read" /\ UNCHANGED <<atQ, proxyQ, atctl, proxy, cmds>>
      BY <1>1, Leaves DEF Read, Types
    <2>2. Count(rx, AtLines) = IF Head(rx) \in AtLines THEN Count(rx', AtLines) + 1
                                                       ELSE Count(rx', AtLines)
      BY <2>1, CountLeaves
    <2>3. ReaderHas' = IF Head(rx) \in AtLines THEN 1 ELSE 0
      <3>1. CASE Head(rx).k = "free"
        BY <1>1, <2>1, <3>1 DEF Read, ReaderHas, AtLines
      <3>2. CASE Head(rx).k # "free"
        <4>1. reader' = [pc |-> IF Head(rx).b \in Dram THEN "give" ELSE "deliver", m |-> Head(rx)]
          BY <1>1, <3>2 DEF Read
        <4>2. Head(rx).k = "at" <=> Head(rx) \in AtLines
          BY <2>1, <3>2 DEF FromDsp, Delivery, AtLines
        <4> QED  BY <4>1, <4>2 DEF ReaderHas
      <3> QED  BY <3>1, <3>2
    <2>4. ReaderHas = 0 /\ Count(rx', AtLines) \in Nat /\ Count(atQ, {"rsp"}) \in Nat
      <3>1. Tail(rx) \in Seq(FromDsp)
        BY <2>1, Leaves
      <3> QED  BY <1>0, <2>1, <3>1, Counts DEF ReaderHas
    <2>5. LinesCounted'
      BY <1>0, <2>1, <2>2, <2>3, <2>4, CoreAssumption DEF LinesCounted
    <2> QED  BY <1>0, <2>1, <2>5, QSame DEF QInv
  <1>2. ASSUME reader.pc = "give", Without(AfterGive)
        PROVE  ReaderHas' = ReaderHas
    <2>1. /\ reader' = [pc |-> AfterGive, m |-> [reader.m EXCEPT !.b = None]]
          /\ reader.m \in Delivery(DspBufs)
      BY <1>2, ReaderHolds DEF Without
    <2>2. reader'.pc = AfterGive /\ reader'.m.k = reader.m.k /\ reader'.m.b = None
      BY <2>1 DEF Delivery
    <2> QED  BY <1>2, <2>2 DEF AfterGive, ReaderHas
  <1>3. CASE Give
    <2>1. ReaderHas' = ReaderHas /\ UNCHANGED <<atQ, rx, proxyQ, atctl, proxy, cmds>>
      BY <1>2, <1>3 DEF Give
    <2> QED  BY <1>0, <2>1, QSame DEF QInv, LinesCounted
  <1>4. CASE Hand
    <2>1. /\ ReaderHas' = ReaderHas /\ UNCHANGED <<atQ, rx, atctl, proxy, cmds>>
          /\ proxyQ' = Append(proxyQ, FreeMsg(reader.m.b)) /\ reader.pc = "give"
      BY <1>2, <1>4 DEF Hand
    <2>2. FreeMsg(reader.m.b) \in ToProxy /\ FreeMsg(reader.m.b) \notin CmdMsgs
      BY <2>1, ReaderHolds DEF FreeMsg, Msg, ToProxy, Delivery, CmdMsgs
    <2>3. Count(proxyQ', CmdMsgs) = Count(proxyQ, CmdMsgs)
      BY <2>1, <2>2, CountJoins DEF Types
    <2>4. CmdsCounted' /\ LinesCounted'
      BY <1>0, <2>1, <2>3 DEF CmdsCounted, LinesCounted, AtHas, ProxyHas
    <2> QED  BY <1>0, <2>1, <2>4 DEF QInv
  <1>5. ASSUME reader.pc = "deliver", reader'.pc \in {"read", "give"}, reader'.m.b = reader.m.b \/ reader'.pc = "read"
        PROVE  ReaderHas' = 0
    <2>1. reader.m.b \notin Dram
      BY <1>5, CoreAssumption, ReaderHolds DEF Delivery
    <2> QED  BY <1>5, <2>1 DEF ReaderHas
  <1>6. ASSUME reader.pc = "deliver", Delivered \/ Without("read")
        PROVE  ReaderHas' = 0
    <2>1. CASE Without("read")
      BY <1>5, <1>6, <2>1 DEF Without
    <2>2. CASE At("give")
      <3>1. reader' = [pc |-> "give", m |-> reader.m]
        BY <2>2, ReaderHolds DEF At
      <3> QED  BY <1>5, <1>6, <3>1
    <2> QED  BY <1>6, <2>1, <2>2 DEF Delivered
  <1>7. CASE DeliverAt
    <2>1. /\ atQ' = Append(atQ, "rsp") /\ UNCHANGED <<rx, proxyQ, atctl, proxy, cmds>>
          /\ ReaderHas = 1 /\ ReaderHas' = 0
      BY <1>6, <1>7 DEF DeliverAt, ReaderHas
    <2>2. /\ atQ' \in Seq({"cmd", "rsp"})
          /\ Count(atQ', {"cmd"}) = Count(atQ, {"cmd"})
          /\ Count(atQ', {"rsp"}) = Count(atQ, {"rsp"}) + 1
      BY <1>0, <2>1, AtQueue, QCounts
    <2>3. LinesCounted'
      BY <1>0, <2>1, <2>2, QCounts DEF LinesCounted
    <2>4. CmdsCounted'
      BY <1>0, <2>1, <2>2 DEF CmdsCounted, AtHas, ProxyHas
    <2> QED  BY <1>0, <2>1, <2>2, <2>3, <2>4 DEF QInv
  <1>8. CASE DeliverData \/ DeliverMsg
    <2>1. ReaderHas' = 0 /\ ReaderHas = 0 /\ UNCHANGED <<atQ, rx, proxyQ, atctl, proxy, cmds>>
      BY <1>6, <1>8 DEF DeliverData, DeliverMsg, ReaderHas
    <2> QED  BY <1>0, <2>1, QSame DEF QInv, LinesCounted
  <1> QED  BY <1>1, <1>3, <1>4, <1>7, <1>8 DEF Reader

\* at_ctl, xy_proxy, the UART thread.
LEMMA QThreads ==
  ASSUME Types, QInv, AtCtl \/ Proxy \/ McuCmd
  PROVE  QInv'
PROOF
  <1>0. /\ CmdsCounted /\ LinesCounted /\ atQ \in Seq({"cmd", "rsp"}) /\ cmds \in Nat
        /\ proxyQ \in Seq(ToProxy) /\ Idle.pc = "get"
    BY DEF QInv, Types, Idle
  <1>1. ASSUME atQ' = Append(atQ, "cmd"), UNCHANGED <<rx, reader, proxyQ>>,
               cmds' + AtHas + ProxyHas = cmds + AtHas' + ProxyHas' + 1, cmds' \in Int, cmds' <= Cmds
        PROVE  QInv'
    <2>1. /\ atQ' \in Seq({"cmd", "rsp"})
          /\ Count(atQ', {"cmd"}) = Count(atQ, {"cmd"}) + 1 /\ Count(atQ', {"rsp"}) = Count(atQ, {"rsp"})
      BY <1>0, <1>1, AtQueue, QCounts
    <2>2. LinesCounted'
      BY <1>0, <1>1, <2>1 DEF LinesCounted, ReaderHas
    <2>3. AtHas' \in {0, 1} /\ ProxyHas' \in {0, 1}
      BY DEF AtHas, ProxyHas
    <2>4. cmds = Count(atQ, {"cmd"}) + Count(proxyQ, CmdMsgs) + AtHas + ProxyHas
      BY <1>0 DEF CmdsCounted
    <2>5. cmds' = Count(atQ', {"cmd"}) + Count(proxyQ', CmdMsgs) + AtHas' + ProxyHas' /\ cmds' \in Nat
      <3>1. Count(proxyQ', CmdMsgs) = Count(proxyQ, CmdMsgs) /\ Count(atQ', {"cmd"}) = Count(atQ, {"cmd"}) + 1
        BY <1>1, <2>1, Zenon
      <3>2. cmds' + AtHas + ProxyHas = cmds + AtHas' + ProxyHas' + 1 /\ cmds' \in Int
        BY <1>1, Zenon
      <3> QED  BY <2>3, <2>4, <3>1, <3>2, QCounts
    <2>6. CmdsCounted'
      BY <1>1, <2>5 DEF CmdsCounted
    <2> QED  BY <2>1, <2>2, <2>5, <2>6 DEF QInv
  <1>2. CASE McuCmd
    <2>1. /\ atQ' = Append(atQ, "cmd") /\ UNCHANGED <<rx, reader, proxyQ>>
          /\ cmds' = cmds + 1 /\ cmds < Cmds /\ AtHas' = AtHas /\ ProxyHas' = ProxyHas
      BY <1>2 DEF McuCmd, AtHas, ProxyHas, heaps, sync, remote
    <2>2. AtHas \in Int /\ ProxyHas \in Int
      BY DEF AtHas, ProxyHas
    <2>3. cmds \in Int /\ Cmds \in Int
      BY CoreAssumption DEF QInv
    <2>4. cmds' + AtHas + ProxyHas = cmds + AtHas' + ProxyHas' + 1
      BY <2>1, <2>2, <2>3
    <2>5. cmds' \in Int /\ cmds' <= Cmds
      BY <2>1, <2>3
    <2> QED  BY <1>1, <2>1, <2>4, <2>5, Zenon
  <1>3. CASE AtAgain \/ ProxyAgain
    <2>1. atQ' = Append(atQ, "cmd") /\ UNCHANGED <<rx, reader, proxyQ, cmds>>
      BY <1>3 DEF AtAgain, ProxyAgain
    <2>2. AtHas \in Int /\ ProxyHas \in Int
      BY DEF AtHas, ProxyHas
    <2>3. cmds \in Int /\ cmds <= Cmds /\ cmds' = cmds
      BY <1>0, <2>1 DEF CmdsCounted
    <2>4. CASE AtAgain
      <3>1. AtHas = 1 /\ AtHas' = 0 /\ ProxyHas' = ProxyHas
        BY <1>0, <2>4 DEF AtAgain, AtHas, ProxyHas
      <3>2. cmds' + AtHas + ProxyHas = cmds + AtHas' + ProxyHas' + 1
        BY <2>2, <2>3, <3>1
      <3> QED  BY <1>1, <2>1, <2>3, <3>2, Zenon
    <2>5. CASE ProxyAgain
      <3>1. ProxyHas = 1 /\ ProxyHas' = 0 /\ AtHas' = AtHas
        BY <1>0, <2>5 DEF ProxyAgain, AtHas, ProxyHas
      <3>2. cmds' + AtHas + ProxyHas = cmds + AtHas' + ProxyHas' + 1
        BY <2>2, <2>3, <3>1
      <3> QED  BY <1>1, <2>1, <2>3, <3>2, Zenon
    <2> QED  BY <1>3, <2>4, <2>5
  <1>4. CASE AtGet
    <2>1. /\ atQ # << >> /\ atQ' = Tail(atQ) /\ UNCHANGED <<rx, reader, proxyQ, proxy, cmds>>
          /\ AtHas = 0 /\ AtHas' = IF Head(atQ) = "rsp" THEN 0 ELSE 1
      BY <1>0, <1>4 DEF AtGet, AtHas, Idle
    <2>2. /\ Head(atQ) \in {"cmd", "rsp"} /\ atQ' \in Seq({"cmd", "rsp"})
          /\ Count(atQ', {"cmd"}) \in Nat /\ Count(atQ', {"rsp"}) \in Nat
          /\ Count(atQ, {"cmd"}) = Count(atQ', {"cmd"}) + AtHas'
          /\ Count(atQ, {"rsp"}) = Count(atQ', {"rsp"}) + (IF Head(atQ) = "rsp" THEN 1 ELSE 0)
      BY <1>0, <2>1, AtQueue
    <2>3. LinesCounted'
      BY <1>0, <2>1, <2>2, QCounts DEF LinesCounted, ReaderHas
    <2>4. CmdsCounted'
      BY <1>0, <2>1, <2>2, QCounts DEF CmdsCounted, ProxyHas
    <2> QED  BY <1>0, <2>1, <2>2, <2>3, <2>4 DEF QInv
  <1>5. ASSUME UNCHANGED <<atQ, rx, reader, proxyQ>>, cmds' + AtHas + ProxyHas = cmds + AtHas' + ProxyHas',
               cmds' \in Int, cmds' <= cmds
        PROVE  QInv'
    <2>1. AtHas' \in {0, 1} /\ ProxyHas' \in {0, 1}
      BY DEF AtHas, ProxyHas
    <2>2. cmds = Count(atQ, {"cmd"}) + Count(proxyQ, CmdMsgs) + AtHas + ProxyHas /\ cmds <= Cmds
      BY <1>0 DEF CmdsCounted
    <2>3. cmds' = Count(atQ', {"cmd"}) + Count(proxyQ', CmdMsgs) + AtHas' + ProxyHas' /\ cmds' \in Nat
      <3>1. Count(proxyQ', CmdMsgs) = Count(proxyQ, CmdMsgs) /\ Count(atQ', {"cmd"}) = Count(atQ, {"cmd"})
        BY <1>5
      <3> QED  BY <1>5, <2>1, <2>2, <3>1, QCounts
    <2>4. CmdsCounted'
      <3>1. cmds' <= Cmds
        BY <1>5, <2>2, <2>3, QCounts
      <3> QED  BY <2>3, <3>1 DEF CmdsCounted
    <2> QED  BY <1>0, <1>5, <2>3, <2>4, QSame DEF QInv
  <1>6. CASE AtForward
    <2>1. AtHas = 1 /\ AtHas' = 0 /\ ProxyHas' = ProxyHas /\ cmds' = cmds - 1
          /\ UNCHANGED <<atQ, rx, reader, proxyQ>>
      BY <1>0, <1>6 DEF AtForward, AtHas, ProxyHas
    <2> QED  BY <1>0, <1>5, <2>1, QCounts
  <1>7. CASE ProxyWrite
    <2>1. /\ ProxyHas = (IF proxy.pc = "at" THEN 1 ELSE 0) /\ ProxyHas' = 0 /\ AtHas' = AtHas
          /\ cmds' = (IF proxy.pc = "at" THEN cmds - 1 ELSE cmds) /\ UNCHANGED <<atQ, rx, reader, proxyQ>>
      BY <1>0, <1>7 DEF ProxyWrite, AtHas, ProxyHas
    <2> QED  BY <1>0, <1>5, <2>1, QCounts
  <1>8. CASE AtToProxy
    <2>1. /\ proxyQ' = Append(proxyQ, Msg(IF atctl.pc = "pdp" THEN "pdp" ELSE "cmd", None, None))
          /\ UNCHANGED <<atQ, rx, reader, proxy, cmds>>
          /\ AtHas = (IF atctl.pc = "pdp" THEN 0 ELSE 1) /\ AtHas' = 0
      BY <1>0, <1>8 DEF AtToProxy, AtHas
    <2>2. /\ Msg("cmd", None, None) \in ToProxy /\ Msg("cmd", None, None) \in CmdMsgs
          /\ Msg("pdp", None, None) \in ToProxy /\ Msg("pdp", None, None) \notin CmdMsgs
      BY DEF Msg, ToProxy, CmdMsgs
    <2>3. Count(proxyQ', CmdMsgs) = Count(proxyQ, CmdMsgs) + AtHas
      BY <1>0, <2>1, <2>2, CountJoins, QCounts
    <2>4. CmdsCounted'
      BY <1>0, <2>1, <2>3, QCounts DEF CmdsCounted, ProxyHas
    <2> QED  BY <1>0, <2>1, <2>4, QSame DEF QInv
  <1>9. CASE ProxyGet
    <2>1. /\ proxyQ # << >> /\ proxyQ' = Tail(proxyQ) /\ Head(proxyQ) \in ToProxy
          /\ proxyQ' \in Seq(ToProxy) /\ ProxyHas = 0 /\ UNCHANGED <<atQ, rx, reader, atctl>>
      BY <1>0, <1>9, Leaves DEF ProxyGet, ProxyHas
    <2>2. Head(proxyQ) \in CmdMsgs <=> Head(proxyQ).k = "cmd"
      BY <2>1 DEF ToProxy, CmdMsgs
    <2>3. IF Head(proxyQ).k = "cmd" THEN \/ cmds' = cmds - 1 /\ ProxyHas' = 0
                                         \/ cmds' = cmds /\ ProxyHas' = 1
                                    ELSE cmds' = cmds /\ ProxyHas' = 0
      BY <1>0, <1>9, <2>1 DEF ProxyGet, ProxyHas, Idle
    <2>4. /\ Count(proxyQ, CmdMsgs) = IF Head(proxyQ) \in CmdMsgs THEN Count(proxyQ', CmdMsgs) + 1
                                                                  ELSE Count(proxyQ', CmdMsgs)
          /\ Count(proxyQ', CmdMsgs) \in Nat
      BY <1>0, <2>1, CountLeaves, Counts
    <2>5. cmds = Count(proxyQ, CmdMsgs) + (Count(atQ, {"cmd"}) + AtHas) /\ cmds <= Cmds
      BY <1>0, <2>1, QCounts DEF CmdsCounted
    <2>6. cmds' = Count(proxyQ', CmdMsgs) + (Count(atQ, {"cmd"}) + AtHas) + ProxyHas'
          /\ cmds' \in Nat /\ cmds' <= Cmds
      BY <2>2, <2>3, <2>4, <2>5, QCounts
    <2>7. ProxyHas' \in {0, 1} /\ AtHas' = AtHas /\ Count(atQ', {"cmd"}) = Count(atQ, {"cmd"})
      BY <2>1, <2>3 DEF AtHas
    <2>8. CmdsCounted'
      BY <2>4, <2>6, <2>7, QCounts DEF CmdsCounted
    <2> QED  BY <1>0, <2>1, <2>6, <2>8, QSame DEF QInv
  <1> QED  BY <1>2, <1>3, <1>4, <1>6, <1>7, <1>8, <1>9 DEF AtCtl, Proxy

\* The lines that at_ctl is behind with, counted where they are.
LEMMA LinesAre ==
  ASSUME Types
  PROVE  Lines = Count(atQ, {"rsp"}) + Count(rx, AtLines)
                 + (IF reader.pc # "read" /\ reader.m.k = "at" THEN 1 ELSE 0)
PROOF
  <1>1. {i \in DOMAIN atQ : atQ[i] = "rsp"} = {i \in DOMAIN atQ : atQ[i] \in {"rsp"}}
    OBVIOUS
  <1>2. {i \in DOMAIN rx : rx[i].k = "at"} = {i \in DOMAIN rx : rx[i] \in AtLines}
    <2>1. \A i \in DOMAIN rx : rx[i] \in FromDsp
      BY DEF Types
    <2>2. \A x \in FromDsp : x.k = "at" <=> x \in AtLines
      BY DEF FromDsp, Delivery, AtLines
    <2> QED  BY <2>1, <2>2
  <1> QED  BY <1>1, <1>2 DEF Lines, Count

\* A message of the DSP goes into rx.
LEMMA QDsp ==
  ASSUME Types, QInv,
         \/ DspGives
         \/ \E k \in Downlink \ {"ans"}, b \in DspBufs : DspSends(k, b)
         \/ \E u \in Apps, b \in DspBufs : DspAnswers(u, b)
  PROVE  QInv'
PROOF
  <1>0. /\ CmdsCounted /\ LinesCounted /\ atQ \in Seq({"cmd", "rsp"}) /\ cmds \in Nat
        /\ rx \in Seq(FromDsp)
    BY DEF QInv, Types
  <1>1. ASSUME NEW m \in FromDsp, rx' = Append(rx, m), UNCHANGED m3,
               m \in AtLines => Lines < Burst
        PROVE  QInv'
    <2>1. Count(rx', AtLines) = IF m \in AtLines THEN Count(rx, AtLines) + 1 ELSE Count(rx, AtLines)
      BY <1>0, <1>1, CountJoins
    <2>2. UNCHANGED <<atQ, reader, proxyQ, atctl, proxy, cmds>>
      BY <1>1 DEF m3
    <2>3. m \in AtLines => Count(atQ, {"rsp"}) + Count(rx, AtLines) + ReaderHas < Burst
      <3>3. Lines = Count(atQ, {"rsp"}) + Count(rx, AtLines)
                    + (IF reader.pc # "read" /\ reader.m.k = "at" THEN 1 ELSE 0)
        BY LinesAre
      <3>4. ReaderHas <= IF reader.pc # "read" /\ reader.m.k = "at" THEN 1 ELSE 0
        BY DEF ReaderHas
      <3> QED  BY <1>1, <3>3, <3>4, QCounts
    <2>4. LinesCounted'
      BY <1>0, <2>1, <2>2, <2>3, QCounts DEF LinesCounted, ReaderHas
    <2> QED  BY <1>0, <2>2, <2>4, QSame DEF QInv
  <1>2. CASE DspGives
    <2>1. FreeMsg(dsp.b) \in FromDsp /\ FreeMsg(dsp.b) \notin AtLines
      BY <1>2 DEF DspGives, Types, DspStates, FreeMsg, Msg, FromDsp, AtLines
    <2> QED  BY <1>1, <1>2, <2>1 DEF DspGives
  <1>3. ASSUME NEW k \in Downlink \ {"ans"}, NEW b \in DspBufs, DspSends(k, b)
        PROVE  QInv'
    <2>1. Msg(k, b, None) \in FromDsp /\ (Msg(k, b, None) \in AtLines => k = "at")
      BY DEF Msg, FromDsp, Delivery, Downlink, AtLines
    <2> QED  BY <1>1, <1>3, <2>1 DEF DspSends
  <1>4. ASSUME NEW u \in Apps, NEW b \in DspBufs, DspAnswers(u, b)
        PROVE  QInv'
    <2>1. Msg("ans", b, u) \in FromDsp /\ Msg("ans", b, u) \notin AtLines
      BY DEF Msg, FromDsp, Delivery, AtLines
    <2> QED  BY <1>1, <1>4, <2>1 DEF DspAnswers
  <1> QED  BY <1>2, <1>3, <1>4

\* Every step keeps the counts.
LEMMA QStep == Types /\ QInv /\ [Next]_vars => QInv'
PROOF
  <1> SUFFICES ASSUME Types, QInv, [Next]_vars  PROVE QInv'
    OBVIOUS
  <1>1. ASSUME UNCHANGED <<atQ, proxyQ, atctl, proxy, cmds, rx, reader>>  PROVE QInv'
    BY <1>1, QSame DEF QInv
  <1>2. CASE IpOut \/ (\E b \in Pool : StackFrees(b)) \/ (\E u \in Apps : SyncBegin(u) \/ Sync(u))
             \/ DspRead \/ UNCHANGED vars
    <2>1. CASE IpOut
      BY <1>1, <2>1 DEF IpOut, m3
    <2>2. CASE \E b \in Pool : StackFrees(b)
      BY <1>1, <2>2 DEF StackFrees
    <2>3. CASE \E u \in Apps : SyncBegin(u) \/ Sync(u)
      BY <1>1, <2>3 DEF Sync, SyncBegin, SyncWrite, SyncTake, SyncEnd, m3
    <2>4. CASE DspRead
      BY <1>1, <2>4 DEF DspRead, m3
    <2>5. CASE UNCHANGED vars
      BY <1>1, <2>5 DEF vars, m3
    <2> QED  BY <1>2, <2>1, <2>2, <2>3, <2>4, <2>5
  <1> QED  BY <1>2, QReader, QThreads, QDsp DEF Next

TxFits == Len(tx) <= TxCap

\* A ring never holds more than fits into it.
LEMMA FitsStep == Types /\ TxFits /\ [Next]_vars => TxFits'
PROOF
  <1> SUFFICES ASSUME Types, TxFits, [Next]_vars  PROVE TxFits'
    OBVIOUS
  <1>1. tx \in Seq(ToDsp) /\ TxCap \in Nat /\ Len(tx) \in Nat
    BY CoreAssumption DEF Types
  <1>2. ASSUME NEW m, Send(m)  PROVE TxFits'
    BY <1>1, <1>2 DEF Send, TxRoom, TxFits
  <1>3. ASSUME UNCHANGED tx  PROVE TxFits'
    BY <1>3 DEF TxFits
  <1>4. ASSUME tx # << >>, tx' = Tail(tx)  PROVE TxFits'
    BY <1>1, <1>4 DEF TxFits
  <1>5. CASE Reader
    BY <1>2, <1>3, <1>5 DEF Reader, Read, Give, Hand, DeliverAt, DeliverData, DeliverMsg
  <1>6. CASE AtCtl
    BY <1>2, <1>3, <1>6 DEF AtCtl, AtGet, AtForward, AtToProxy, AtAgain
  <1>7. CASE Proxy
    BY <1>2, <1>3, <1>7 DEF Proxy, ProxyGet, ProxyWrite, ProxyAgain
  <1>8. CASE McuCmd \/ IpOut \/ \E b \in Pool : StackFrees(b)
    BY <1>2, <1>3, <1>8 DEF McuCmd, IpOut, StackFrees
  <1>9. ASSUME NEW u \in Apps, SyncBegin(u) \/ Sync(u)  PROVE TxFits'
    BY <1>2, <1>3, <1>9 DEF SyncBegin, Sync, SyncWrite, SyncTake, SyncEnd
  <1>10. CASE DspRead
    BY <1>4, <1>10 DEF DspRead
  <1>11. CASE DspGives \/ \E b \in DspBufs : (\E k \in Downlink \ {"ans"} : DspSends(k, b))
                                            \/ (\E u \in Apps : DspAnswers(u, b))
    BY <1>3, <1>11 DEF DspGives, DspSends, DspAnswers
  <1>12. CASE UNCHANGED vars
    BY <1>3, <1>12 DEF vars
  <1> QED  BY <1>5, <1>6, <1>7, <1>8, <1>9, <1>10, <1>11, <1>12 DEF Next

-----------------------------------------------------------------------------
(* Theorems                                                                    *)

CInv == Types /\ SInv /\ OInv

\* The inductive invariant holds of every behaviour.
LEMMA Inductive == Spec => []CInv
PROOF
  <1>1. Init => CInv
    BY TypesInit, SyncInit, OwnInit DEF CInv
  <1>2. CInv /\ [Next]_vars => CInv'
    BY TypesStep, SyncStep, OwnStep DEF CInv, SInv
  <1> QED  BY <1>1, <1>2, PTL DEF Spec

(* Type correctness of the rings, the queue of xy_proxy and the threads: each  *)
(* message comes with a buffer of the core that sent it or with none, and a    *)
(* thread holds what its step needs, for any number of buffers and requesters. *)
THEOREM TypeCorrect == Spec => []Types
PROOF
  <1>1. CInv => Types
    BY DEF CInv
  <1> QED  BY <1>1, Inductive, PTL

(* However many threads call send_shm_msg_sync, whoever wakes up in it has     *)
(* the answer to its own request (g_shmmsg_mux, g_sync_shm_msg_id).            *)
THEOREM AnswerReachesAsker == Spec => []AnswerMatches
PROOF
  <1>1. CInv => AnswerMatches
    BY DEF CInv, SInv, Turn, Answered, AnswerMatches
  <1> QED  BY <1>1, Inductive, PTL

\* What Places says of a buffer with one owner.
LEMMA OwnerPlaces ==
  ASSUME CInv, NEW b \in Bufs
  PROVE  Cardinality(Places(b)) = 1
PROOF
  <1>1. b # None /\ Apart(tx) /\ Apart(rx) /\ Apart(proxyQ) /\ Alone /\ Owner
    BY CoreAssumption DEF Bufs, DspBufs, CInv, OInv
  <1>2. PICK p \in Place : \A o \in Place : Keeps(o, b) <=> o = p
    BY <1>1 DEF Owner
  <1>3. ASSUME NEW q, Apart(q)
        PROVE  /\ Holds(q, b) => \E i : In(q, b) = {i}
               /\ ~ Holds(q, b) => In(q, b) = {}
    <2>1. CASE Holds(q, b)
      <3>1. PICK i \in DOMAIN q : q[i].b = b
        BY <2>1 DEF Holds
      <3>2. In(q, b) = {i}
        BY <1>1, <1>3, <3>1 DEF Apart, In
      <3> QED  BY <2>1, <3>2
    <2>2. CASE ~ Holds(q, b)
      BY <2>2 DEF Holds, In
    <2> QED  BY <2>1, <2>2
  <1> DEFINE A == {u \in Apps : app[u].b = b}
             T == {"tx"} \X In(tx, b)
             R == {"rx"} \X In(rx, b)
             Q == {"proxyQ"} \X In(proxyQ, b)
             P == {"app"} \X A
             Z == {x \in {"free", "held", "reader", "proxy", "atctl", "answer", "dsp"} : Keeps(x, b)}
  <1>4. /\ Keeps("app", b) => \E u : A = {u}
        /\ ~ Keeps("app", b) => A = {}
    <2>1. CASE Asks(b)
      <3>1. PICK u \in Apps : app[u].b = b
        BY <2>1 DEF Asks
      <3>2. A = {u}
        BY <1>1, <3>1 DEF Alone
      <3> QED  BY <2>1, <3>2, KeepsMeans
    <2>2. CASE ~ Asks(b)
      BY <2>2, KeepsMeans DEF Asks
    <2> QED  BY <2>1, <2>2
  <1>5. Places(b) = T \cup R \cup Q \cup P \cup {<<x, 0>> : x \in Z}
    <2>1. Z = (IF b \in dspFree \cup armFree THEN {"free"} ELSE {})
              \cup (IF b \in held THEN {"held"} ELSE {})
              \cup (IF reader.m.b = b THEN {"reader"} ELSE {})
              \cup (IF proxy.b = b THEN {"proxy"} ELSE {})
              \cup (IF atctl.b = b THEN {"atctl"} ELSE {})
              \cup (IF answer.b = b THEN {"answer"} ELSE {})
              \cup (IF dsp.b = b THEN {"dsp"} ELSE {})
      BY KeepsMeans
    <2> HIDE DEF Z
    <2> QED  BY <2>1 DEF Places
  <1>6. /\ p = "tx" => \E i : In(tx, b) = {i}
        /\ p # "tx" => In(tx, b) = {}
    BY <1>1, <1>2, <1>3, KeepsMeans DEF Place
  <1>7. /\ p = "rx" => \E i : In(rx, b) = {i}
        /\ p # "rx" => In(rx, b) = {}
    BY <1>1, <1>2, <1>3, KeepsMeans DEF Place
  <1>8. /\ p = "proxyQ" => \E i : In(proxyQ, b) = {i}
        /\ p # "proxyQ" => In(proxyQ, b) = {}
    BY <1>1, <1>2, <1>3, KeepsMeans DEF Place
  <1>9. /\ p = "app" => \E u : A = {u}
        /\ p # "app" => A = {}
    BY <1>2, <1>4 DEF Place
  <1>10. /\ p \notin {"tx", "rx", "proxyQ", "app"} => Z = {p}
         /\ p \in {"tx", "rx", "proxyQ", "app"} => Z = {}
    BY <1>2 DEF Place
  <1> HIDE DEF A, Z
  <1>11. Z = {} => {<<x, 0>> : x \in Z} = {}
    OBVIOUS
  <1> HIDE DEF T, R, Q, P
  <1>12. \E x : Places(b) = {x}
    <2>1. CASE p = "tx"
      <3>1. PICK i : In(tx, b) = {i}
        BY <1>6, <2>1
      <3>2. T = {<<"tx", i>>} /\ R = {} /\ Q = {} /\ P = {} /\ Z = {}
        BY <1>7, <1>8, <1>9, <1>10, <2>1, <3>1 DEF T, R, Q, P
      <3> QED  BY <1>5, <1>11, <3>2
    <2>2. CASE p = "rx"
      <3>1. PICK i : In(rx, b) = {i}
        BY <1>7, <2>2
      <3>2. T = {} /\ R = {<<"rx", i>>} /\ Q = {} /\ P = {} /\ Z = {}
        BY <1>6, <1>8, <1>9, <1>10, <2>2, <3>1 DEF T, R, Q, P
      <3> QED  BY <1>5, <1>11, <3>2
    <2>3. CASE p = "proxyQ"
      <3>1. PICK i : In(proxyQ, b) = {i}
        BY <1>8, <2>3
      <3>2. T = {} /\ R = {} /\ Q = {<<"proxyQ", i>>} /\ P = {} /\ Z = {}
        BY <1>6, <1>7, <1>9, <1>10, <2>3, <3>1 DEF T, R, Q, P
      <3> QED  BY <1>5, <1>11, <3>2
    <2>4. CASE p = "app"
      <3>1. PICK i : A = {i}
        BY <1>9, <2>4
      <3>2. T = {} /\ R = {} /\ Q = {} /\ P = {<<"app", i>>} /\ Z = {}
        BY <1>6, <1>7, <1>8, <1>10, <2>4, <3>1 DEF T, R, Q, P
      <3> QED  BY <1>5, <1>11, <3>2
    <2>5. CASE p \notin {"tx", "rx", "proxyQ", "app"}
      <3>1. T = {} /\ R = {} /\ Q = {} /\ P = {} /\ Z = {p}
        BY <1>6, <1>7, <1>8, <1>9, <1>10, <2>5 DEF T, R, Q, P
      <3>2. {<<x, 0>> : x \in Z} = {<<p, 0>>}
        BY <3>1
      <3> QED  BY <1>5, <3>1, <3>2
    <2> QED  BY <2>1, <2>2, <2>3, <2>4, <2>5
  <1> QED  BY <1>12, FS_Singleton

(* Every buffer of either core has one owner at any time, however long the     *)
(* rings and the queue are: zero_cp_transfer, xy_MemFree, the handover to      *)
(* xy_proxy and g_shmmsg_buf lose none and give none back twice.               *)
THEOREM OneOwner == Spec => []OnePlace
PROOF
  <1>1. CInv => OnePlace
    BY OwnerPlaces DEF OnePlace, Bufs
  <1> QED  BY <1>1, Inductive, PTL

\* The buffers in the queue of xy_proxy are among those that the DSP misses, and
\* so is the one that the reader has.
LEMMA QFrees ==
  ASSUME Types, OInv, reader.pc = "give"
  PROVE  Count(proxyQ, FreeMsgs) < Cardinality(DspBufs \ dspFree) /\ Cardinality(DspBufs \ dspFree) \in Nat
PROOF
  <1> DEFINE I == {i \in DOMAIN proxyQ : proxyQ[i] \in FreeMsgs}
             A == DspBufs \ dspFree
             B == A \ {reader.m.b}
             f == [i \in I |-> proxyQ[i].b]
  <1>1. ASSUME NEW b \in DspBufs, Keeps("reader", b) \/ Keeps("proxyQ", b)  PROVE b \in A
    <2>1. b \in Bufs
      BY DEF Bufs
    <2>2. ~ Keeps("free", b)
      BY <1>1, <2>1, OnlyHere DEF OInv, Place
    <2> QED  BY <2>2 DEF Keeps
  <1>2. reader.m.b \in A /\ ~ Holds(proxyQ, reader.m.b)
    <2>1. reader.m.b \in DspBufs /\ reader.m.b \in Bufs
      BY ReaderHolds DEF Delivery, Bufs
    <2>2. Keeps("reader", reader.m.b)
      BY DEF Keeps
    <2>3. ~ Keeps("proxyQ", reader.m.b)
      BY <2>1, <2>2, OnlyHere DEF OInv, Place
    <2> QED  BY <1>1, <2>1, <2>2, <2>3 DEF Keeps
  <1>3. f \in [I -> B]
    <2>1. ASSUME NEW i \in I  PROVE proxyQ[i].b \in B
      <3>1. proxyQ[i].b \in DspBufs /\ Holds(proxyQ, proxyQ[i].b)
        BY DEF Holds, FreeMsgs
      <3>2. proxyQ[i].b \in A
        BY <1>1, <3>1 DEF Keeps
      <3> QED  BY <1>2, <3>1, <3>2
    <2> QED  BY <2>1
  <1>4. \A i, j \in I : f[i] = f[j] => i = j
    <2>1. \A b \in DspBufs : b # None
      BY CoreAssumption DEF DspBufs
    <2> QED  BY <2>1 DEF OInv, Apart, FreeMsgs
  <1>5. f \in Injection(I, B)
    BY <1>3, <1>4, Fun_IsInj
  <1>6. IsFiniteSet(A)
    BY CoreAssumption, FS_Union, FS_Subset DEF DspBufs
  <1>7. IsFiniteSet(B) /\ Cardinality(B) = Cardinality(A) - 1 /\ Cardinality(A) \in Nat
    BY <1>2, <1>6, FS_RemoveElement, FS_CardinalityType
  <1>8. Cardinality(I) <= Cardinality(B)
    BY <1>5, <1>7, FS_Injection
  <1>9. Cardinality(I) \in Nat
    <2>1. Count(proxyQ, FreeMsgs) \in Nat
      BY Counts DEF Types
    <2> QED  BY <2>1 DEF Count
  <1> QED  BY <1>7, <1>8, <1>9 DEF Count

\* However the queues are filled, there is room for what the reader has.
LEMMA QRoom ==
  ASSUME CInv, QInv, TxFits
  PROVE  ReaderWaitsInFlood
PROOF
  <1>0. /\ Types /\ QInv /\ OInv /\ CmdsCounted /\ LinesCounted
        /\ ProxyCap \in Nat /\ AtCap \in Nat
    BY CoreAssumption DEF CInv, OInv, QInv
  <1>1. ASSUME reader.pc = "give"
        PROVE  \/ Len(proxyQ) < ProxyCap
               \/ ProxyCap < Cardinality(DspBufs \ dspFree) + cmds + Changes
    <2>1. Len(proxyQ) = Count(proxyQ, FreeMsgs) + Count(proxyQ, CmdMsgs) + Count(proxyQ, PdpMsgs)
      <3>1. /\ ToProxy = (FreeMsgs \cup CmdMsgs) \cup PdpMsgs
            /\ FreeMsgs \cap CmdMsgs = {} /\ (FreeMsgs \cup CmdMsgs) \cap PdpMsgs = {}
        BY DEF ToProxy, FreeMsgs, CmdMsgs, PdpMsgs
      <3>2. proxyQ \in Seq(ToProxy)
        BY <1>0 DEF Types
      <3>3. Count(proxyQ, ToProxy) = Len(proxyQ)
        BY <3>2, CountAll
      <3>4. Count(proxyQ, ToProxy) = Count(proxyQ, FreeMsgs \cup CmdMsgs) + Count(proxyQ, PdpMsgs)
        BY <3>1, <3>2, CountBoth
      <3>5. Count(proxyQ, FreeMsgs \cup CmdMsgs) = Count(proxyQ, FreeMsgs) + Count(proxyQ, CmdMsgs)
        BY <3>1, <3>2, CountBoth
      <3> QED  BY <3>3, <3>4, <3>5
    <2>2. Count(proxyQ, PdpMsgs) = Changes
      <3>1. \A i \in DOMAIN proxyQ : proxyQ[i].k = "pdp" <=> proxyQ[i] \in PdpMsgs
        <4>1. \A i \in DOMAIN proxyQ : proxyQ[i] \in ToProxy
          BY <1>0 DEF Types
        <4> QED  BY <4>1 DEF ToProxy, PdpMsgs
      <3>2. {i \in DOMAIN proxyQ : proxyQ[i].k = "pdp"} = {i \in DOMAIN proxyQ : proxyQ[i] \in PdpMsgs}
        BY <3>1
      <3> QED  BY <3>2 DEF Count, Changes
    <2>3. Count(proxyQ, CmdMsgs) <= cmds
      BY <1>0, QCounts DEF CmdsCounted
    <2>4. Count(proxyQ, FreeMsgs) \in Nat /\ Count(proxyQ, PdpMsgs) \in Nat
      BY <1>0, Counts DEF Types
    <2> QED  BY <1>0, <1>1, <2>1, <2>2, <2>3, <2>4, QFrees, QCounts
  <1>2. ASSUME reader.pc = "deliver", reader.m.k = "at"
        PROVE  Len(atQ) < AtCap \/ AtCap < Lines + cmds
    <2>1. Len(atQ) = Count(atQ, {"cmd"}) + Count(atQ, {"rsp"})
      <3>1. {"cmd", "rsp"} = {"cmd"} \cup {"rsp"} /\ {"cmd"} \cap {"rsp"} = {}
        OBVIOUS
      <3> QED  BY <1>0, <3>1, CountBoth, CountAll DEF QInv
    <2>2. Count(atQ, {"cmd"}) <= cmds
      BY <1>0, QCounts DEF CmdsCounted
    <2>3. Lines = Count(atQ, {"rsp"}) + Count(rx, AtLines) + 1
      BY <1>0, <1>2, LinesAre
    <2> QED  BY <1>0, <2>1, <2>2, <2>3, QCounts
  <1>3. TxRoom > 0 \/ TxRoom = 0
    <2>1. Len(tx) \in Nat /\ TxCap \in Nat
      BY <1>0, CoreAssumption DEF Types
    <2> QED  BY <2>1 DEF TxRoom, TxFits
  <1> QED  BY <1>1, <1>2, <1>3 DEF ReaderWaitsInFlood, CanGive, CanHand, CanDeliver

(* Between at_msg_q, the queue of xy_proxy and their threads no command of the *)
(* MCU is lost or doubled, also where a thread puts it back because tx or a    *)
(* queue is full, and the lines that at_ctl is behind with stay bounded.       *)
THEOREM CommandsCounted == Spec => [](CmdsCounted /\ LinesCounted)
PROOF
  <1>1. CInv /\ QInv /\ [Next]_vars => QInv'
    BY QStep DEF CInv
  <1>2. QInv => CmdsCounted /\ LinesCounted
    BY DEF QInv
  <1> QED  BY <1>1, <1>2, QInit, Inductive, PTL DEF Spec

(* The reader of rx waits for a place in one of the two queues only in a      *)
(* flood that is larger than the queue, whatever the sizes of rings and queues *)
(* and whatever the other threads and the DSP wait for: where the way out of   *)
(* the comment at inter_core_msg.c:87 leads, and how far.                      *)
THEOREM ReaderWaitsOnlyInFlood == Spec => []ReaderWaitsInFlood
PROOF
  <1> DEFINE I == QInv /\ TxFits
  <1>1. Init => I
    BY QInit, CoreAssumption DEF Init, TxFits
  <1>2. CInv /\ I /\ [Next]_vars => I'
    BY QStep, FitsStep DEF CInv
  <1>3. CInv /\ I => ReaderWaitsInFlood
    BY QRoom
  <1> QED  BY <1>1, <1>2, <1>3, Inductive, PTL DEF Spec
=============================================================================
