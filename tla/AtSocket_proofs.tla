-------------------------- MODULE AtSocket_proofs --------------------------
(* Safety of the socket table, for any number of sockets, descriptors and     *)
(* threads: one receive thread is enough (at_rcv_thread_id is no lock), the   *)
(* sockets lose it in one way only, descriptors are neither leaked nor        *)
(* shared, connections are closed for a stated reason and no assertion of     *)
(* these files fails.  Each theorem names the few assumptions about the MCU   *)
(* and the network that it needs.                                             *)
EXTENDS AtSocket, FiniteSetTheorems, TLAPS

-----------------------------------------------------------------------------
(* The least element: there is one, because subsets of 0 .. N are well       *)
(* founded under inclusion.                                                   *)

\* Least is an element: get_free_sock_id and lwIP return a free index.
LEMMA LeastIn ==
  ASSUME NEW S, S \subseteq Nat, S # {}
  PROVE  Least(S) \in S
PROOF
  <1>0. PICK N \in Nat : N \in S
    OBVIOUS
  <1> DEFINE T == {x \in S : x <= N}
             Below == {0 .. x : x \in T}
             All == FiniteSubsetsOf(0 .. N)
             Smaller == StrictSubsetOrdering(0 .. N)
  <1>1. T \subseteq 0 .. N /\ T # {}
    <2>1. N \in T
      BY <1>0
    <2>2. \A x \in T : x \in Nat /\ x <= N
      OBVIOUS
    <2>3. \A x \in T : x \in 0 .. N
      BY <1>0, <2>2
    <2> QED  BY <2>1, <2>3
  <1>2. Below \subseteq All /\ Below # {}
    <2>1. ASSUME NEW x \in T  PROVE 0 .. x \in All
      <3>1. IsFiniteSet(0 .. x)
        BY <1>1, FS_Interval
      <3>2. 0 .. x \subseteq 0 .. N
        BY <1>1
      <3> QED  BY <3>1, <3>2 DEF FiniteSubsetsOf
    <2> QED  BY <1>1, <2>1
  <1>3. IsWellFoundedOn(Smaller, All)
    BY FS_StrictSubsetOrderingWellFounded
  <1> HIDE DEF T, Below, All, Smaller
  <1>4. PICK X \in Below : \A Y \in Below : ~ (<<Y, X>> \in Smaller)
    BY <1>2, <1>3, WFMin
  <1>5. PICK x \in T : X = 0 .. x
    BY DEF Below
  <1>6. ASSUME NEW y \in T, y < x  PROVE FALSE
    <2>1. 0 .. y \in Below
      BY DEF Below
    <2>2. 0 .. y \subseteq 0 .. N /\ 0 .. x \subseteq 0 .. N
      BY <1>1
    <2>3. 0 .. y \subseteq 0 .. x /\ 0 .. y # 0 .. x
      <3>1. x \in 0 .. x /\ x \notin 0 .. y
        BY <1>1, <1>6
      <3>2. 0 .. y \subseteq 0 .. x
        BY <1>1, <1>6
      <3> QED  BY <3>1, <3>2
    <2>4. <<0 .. y, 0 .. x>> \in Smaller
      BY <2>2, <2>3 DEF Smaller, StrictSubsetOrdering
    <2> QED  BY <1>4, <1>5, <2>1, <2>4
  <1>7. \A y \in S : x <= y
    <2>1. ASSUME NEW y \in S, ~ (x <= y)  PROVE FALSE
      <3>1. y \in T /\ y < x
        BY <1>0, <1>1, <2>1 DEF T
      <3> QED  BY <1>6, <3>1
    <2> QED  BY <2>1
  <1>8. x \in S
    BY DEF T
  <1> QED  BY <1>7, <1>8 DEF Least

\* The slot that get_free_sock_id returns is one of the free ones.
LEMMA LeastSlot == \A S \in SUBSET Slots : S # {} => Least(S) \in S
PROOF
  <1> SUFFICES ASSUME NEW S \in SUBSET Slots, S # {}  PROVE Least(S) \in S
    OBVIOUS
  <1>1. S \subseteq Nat
    BY SockAssumption DEF Slots
  <1> QED  BY <1>1, LeastIn

\* The descriptor that socket() returns is one of the free ones.
LEMMA LeastFd == \A S \in SUBSET Fds : S # {} => Least(S) \in S
PROOF
  <1> SUFFICES ASSUME NEW S \in SUBSET Fds, S # {}  PROVE Least(S) \in S
    OBVIOUS
  <1>1. S \subseteq Nat
    BY SockAssumption DEF Fds
  <1> QED  BY <1>1, LeastIn

\* A context that is not in use has the id 0, which is an id.
LEMMA ZeroId == 0 \in Ids /\ Ids = Slots
  BY SockAssumption DEF Ids, Slots

-----------------------------------------------------------------------------
(* The order of the threads                                                   *)

(* What the state is made of, as far as these proofs need it.                 *)
ShTable == table \in [Slots -> Ctxs \cup {NoCtx}]
ShCtx == DOMAIN ctx = Ctxs
         /\ \A c \in Ctxs : /\ {"live", "fd", "quit", "id"} \subseteq DOMAIN ctx[c]
                           /\ ctx[c].id \in Ids
ShConn == DOMAIN conn = Fds /\ \A f \in Fds : "open" \in DOMAIN conn[f]
ShOpen == DOMAIN open = Ctxs /\ \A c \in Ctxs : {"pc", "slot"} \subseteq DOMAIN open[c]
ShRcv == DOMAIN rcv = Receivers
         /\ \A r \in Receivers : /\ {"pc", "i", "fds", "back"} \subseteq DOMAIN rcv[r]
                                 /\ rcv[r].i \in Nat /\ rcv[r].back \in {"scan", "serve"}
ShAt == {"pc", "slot"} \subseteq DOMAIN at
ShSaved == saved \in [Slots -> Ids \cup {NoId}]
Shape == ShTable /\ ShCtx /\ ShConn /\ ShOpen /\ ShRcv /\ ShAt /\ ShSaved

(* A receive thread has its handle in at_rcv_thread_id; at most one sck_open  *)
(* runs, and none while saved sockets are to be restored.                     *)
Owned == \A r \in Receivers : rcv[r].pc # "none" => rcvId = r
Named == rcvId # NoThread => rcvId \in Receivers /\ rcv[rcvId].pc # "none"
CreatorSeesNone == \A c \in Ctxs : open[c].pc = "create" => rcvId = NoThread
OneWaiting == \A c, d \in Ctxs : open[c].pc # "none" /\ open[d].pc # "none" => c = d
RestoredFirst == /\ recover => \A c \in Ctxs : open[c].pc = "none"
                 /\ at.pc = "restore" => recover /\ rcvId = NoThread

RInv == Owned /\ Named /\ CreatorSeesNone /\ OneWaiting /\ RestoredFirst
Base == Shape /\ RInv
Sequential == "one_open" \in Env /\ "resume_first" \in Env

(* The steps of the MCU, the network and the handlers of outcomes: they leave *)
(* the table, the threads and the descriptors alone.                          *)
CtxSame == ShCtx' /\ \A c \in Ctxs : /\ ctx'[c].live = ctx[c].live /\ ctx'[c].fd = ctx[c].fd
                                 /\ ctx'[c].id = ctx[c].id
ConnSame == ShConn' /\ \A f \in Fds : conn'[f].open = conn[f].open
AtSame == ShAt' /\ (at'.pc = "restore" <=> at.pc = "restore")
Quiet == /\ UNCHANGED <<table, open, rcvId, rcv, saved, recover>>
         /\ CtxSame /\ ConnSame /\ AtSame

\* What is not changed keeps its fields.
LEMMA FieldsStay ==
    /\ ShCtx /\ ctx' = ctx => CtxSame
    /\ ShConn /\ conn' = conn => ConnSame
    /\ ShAt /\ at' = at => AtSame
  <1>1. ShCtx /\ ctx' = ctx => CtxSame
    BY DEF ShCtx, CtxSame
  <1>2. ShConn /\ conn' = conn => ConnSame
    BY DEF ShConn, ConnSame
  <1>3. ShAt /\ at' = at => AtSame
    BY DEF ShAt, AtSame
  <1> QED BY <1>1, <1>2, <1>3

\* A failed assertion changes nothing else.
LEMMA BreaksQuiet == ASSUME Shape, NEW how, Breaks(how) PROVE Quiet
  BY FieldsStay DEF Breaks, Quiet, Shape

\* AT+QICLOSE only raises the flag quit.
LEMMA QICLOSEQuiet == ASSUME Shape, NEW id \in Ids, QICLOSE(id) PROVE Quiet
  <1>1. CtxSame
    BY DEF QICLOSE, CtxSame, Shape, ShCtx
  <1> QED BY <1>1, FieldsStay DEF QICLOSE, Quiet, Shape

\* AT+QISEND only takes the pointer.
LEMMA QISENDQuiet ==
  ASSUME Shape, NEW id \in Ids, NEW pass \in BOOLEAN, QISEND(id, pass)
  PROVE  Quiet
  <1>1. AtSame
    BY DEF QISEND, AtSame, AtIdle, ShAt
  <1> QED BY <1>1, FieldsStay DEF QISEND, Quiet, Shape

\* Pass-through mode sends or ends.
LEMMA PassDataQuiet == ASSUME Shape, PassData PROVE Quiet
  <1>1. AtSame
    BY DEF PassData, AtSame, AtIdle, Shape, ShAt
  <1> QED BY <1>1, FieldsStay DEF PassData, Quiet, Shape

\* Sending counts bytes and may record a failure.
LEMMA SendQuiet == ASSUME Shape, Send PROVE Quiet
  <1>1. CASE Breaks("wild")
    BY <1>1, BreaksQuiet
  <1>2. CASE ~ Breaks("wild")
    <2>1. UNCHANGED <<table, open, rcvId, rcv, saved, recover>>
      BY <1>2, Zenon DEF Send
    <2>2. AtSame
      <3>1. at' = AtIdle \/ \E seq, sn : at' = [at EXCEPT !.pc = "add", !.seq = seq, !.sn = sn]
        <4>1. CASE SendEnds
          BY <4>1 DEF SendEnds
        <4>2. CASE ~ SendEnds
          BY <1>2, <4>2, Zenon DEF Send
        <4> QED BY <4>1, <4>2, Zenon
      <3>2. CASE at' = AtIdle
        BY <3>2, Zenon DEF Send, ShAt, AtSame, AtIdle
      <3>3. CASE \E seq, sn : at' = [at EXCEPT !.pc = "add", !.seq = seq, !.sn = sn]
        <4>1. PICK seq, sn : at' = [at EXCEPT !.pc = "add", !.seq = seq, !.sn = sn]
          BY <3>3, Zenon
        <4> QED BY <4>1, Zenon DEF Send, Shape, ShAt, AtSame
      <3> QED BY <3>1, <3>2, <3>3, Zenon
    <2>3. CtxSame
      <3>1. \/ UNCHANGED ctx
            \/ \E c, s : ctx' = [ctx EXCEPT ![c].state[s] = "failed"]
        BY <1>2, Zenon DEF Send
      <3> QED BY <3>1 DEF Shape, ShCtx, CtxSame
    <2>4. ConnSame
      <3>1. \/ UNCHANGED conn
            \/ \E f : conn' = [conn EXCEPT ![f].sent = @ + 1]
        BY <1>2, Zenon DEF Send
      <3> QED BY <3>1 DEF Shape, ShConn, ConnSame
    <2> QED BY <2>1, <2>2, <2>3, <2>4 DEF Quiet, Shape
  <1> QED BY <1>1, <1>2

\* A node is added to sn_info.
LEMMA SendAddQuiet == ASSUME Shape, SendAdd PROVE Quiet
  <1>1. CASE Breaks("wild") \/ Breaks("assert")
    BY <1>1, BreaksQuiet
  <1>2. CASE ~ (Breaks("wild") \/ Breaks("assert"))
    <2>1. AtSame
      BY <1>2 DEF SendAdd, Shape, ShAt, AtSame
    <2> QED BY <1>2, <2>1, FieldsStay DEF SendAdd, Quiet, Shape
  <1> QED BY <1>1, <1>2

\* The sequence is marked.
LEMMA SendMarkQuiet == ASSUME Shape, SendMark PROVE Quiet
  <1>1. CASE Breaks("wild")
    BY <1>1, BreaksQuiet
  <1>2. CASE ~ Breaks("wild")
    <2>1. AtSame
      BY <1>2 DEF SendMark, Shape, ShAt, AtSame, AtIdle
    <2>2. CtxSame
      BY <1>2 DEF SendMark, Shape, ShCtx, CtxSame
    <2> QED BY <1>2, <2>1, <2>2, FieldsStay DEF SendMark, Quiet, Shape
  <1> QED BY <1>1, <1>2

\* An acknowledgement is noted.
LEMMA AckTcpQuiet == ASSUME Shape, NEW f, NEW n, AckTcp(f, n) PROVE Quiet
  <1>1. ConnSame
    BY DEF AckTcp, ConnSame, Shape, ShConn
  <1> QED BY <1>1, FieldsStay DEF AckTcp, Quiet, Shape

\* A confirmation is noted.
LEMMA ConfirmUdpQuiet == ASSUME Shape, NEW d, NEW status, ConfirmUdp(d, status) PROVE Quiet
  BY FieldsStay DEF ConfirmUdp, Quiet, Shape

\* An outcome is recorded.
LEMMA AckMarkQuiet == ASSUME Shape, NEW t, AckMark(t) PROVE Quiet
  <1>1. CASE Breaks("wild")
    BY <1>1, BreaksQuiet
  <1>2. CASE ~ Breaks("wild")
    <2>2. CtxSame
      BY <1>2 DEF AckMark, Shape, ShCtx, CtxSame
    <2> QED BY <1>2, <2>2, FieldsStay DEF AckMark, Quiet, Shape
  <1> QED BY <1>1, <1>2

\* Data arrives, or the peer resets the connection.
LEMMA ArrivesOrResetQuiet == ASSUME Shape, NEW f \in Fds, Arrives(f) \/ Reset(f) PROVE Quiet
  <1>1. ConnSame
    BY DEF Arrives, Reset, ConnSame, Shape, ShConn
  <1> QED BY <1>1, FieldsStay DEF Arrives, Reset, Quiet, Shape

\* netif_down_close_socket only raises the flag.
LEMMA NetDownQuiet == ASSUME Shape, NetDown PROVE Quiet
  <1>1. CtxSame
    BY DEF NetDown, CtxSame, Shape, ShCtx
  <1> QED BY <1>1, FieldsStay DEF NetDown, Quiet, Shape

(* The steps of the network, the senders and QICLOSE, which leave threads and table alone. *)
Traffic ==
  \/ \E id \in Ids : QICLOSE(id) \/ \E pass \in BOOLEAN : QISEND(id, pass)
  \/ PassData \/ Sending
  \/ \E f \in Fds, n \in 1 .. MaxSn : AckTcp(f, n)
  \/ \E d \in air, status \in {"success", "failed"} : ConfirmUdp(d, status)
  \/ \E t \in Kinds : AckMark(t)
  \/ \E f \in Fds : Arrives(f) \/ Reset(f)
  \/ NetDown

\* All of these steps together.
LEMMA TrafficQuiet == ASSUME Shape, Traffic  PROVE Quiet
BY QICLOSEQuiet, QISENDQuiet, PassDataQuiet, SendQuiet, SendAddQuiet, SendMarkQuiet,
   AckTcpQuiet, ConfirmUdpQuiet,
   AckMarkQuiet, ArrivesOrResetQuiet, NetDownQuiet DEF Traffic, Sending

\* A step of nothing.
LEMMA StutterQuiet == ASSUME Shape, UNCHANGED vars  PROVE Quiet
BY FieldsStay DEF vars, Quiet, Shape

\* Such steps keep the order of the threads.
LEMMA QuietBase == ASSUME Base, Quiet PROVE Base'
  BY DEF Base, Shape, RInv, Quiet, CtxSame, ConnSame, AtSame, ShTable, ShOpen, ShRcv,
     ShSaved, Owned, Named, CreatorSeesNone, OneWaiting, RestoredFirst

\* select leads to serving the table, or to scanning it anew, from its start.
LEMMA Selected ==
  ASSUME Base, NEW r \in Receivers, RcvSelect(r)
  PROVE  \/ rcv' = rcv
         \/ \E new : /\ rcv' = [rcv EXCEPT ![r] = new]
                     /\ {"pc", "i", "fds", "back"} \subseteq DOMAIN new
                     /\ new.pc \in {"scan", "serve"} /\ new.i = 0 /\ new.back = "scan"
PROOF
  <1>1. CASE Rescan(r)
    <2> DEFINE new == [NoRcv EXCEPT !.pc = "scan"]
    <2>1. rcv' = [rcv EXCEPT ![r] = new]
      BY <1>1 DEF Rescan
    <2>2. {"pc", "i", "fds", "back"} \subseteq DOMAIN new /\ new.pc = "scan" /\ new.i = 0 /\ new.back = "scan"
      BY DEF NoRcv
    <2> QED BY <2>1, <2>2
  <1>2. CASE ~ Rescan(r)
    <2> DEFINE new == [NoRcv EXCEPT !.pc = "serve", !.rd = rcv[r].fds \cap Readable,
                               !.ex = {f \in rcv[r].fds : conn[f].reset}]
    <2>1. rcv' = rcv \/ rcv' = [rcv EXCEPT ![r] = new]
      BY <1>2 DEF RcvSelect
    <2>2. {"pc", "i", "fds", "back"} \subseteq DOMAIN new /\ new.pc = "serve" /\ new.i = 0 /\ new.back = "scan"
      BY DEF NoRcv
    <2> QED BY <2>1, <2>2
  <1> QED BY <1>1, <1>2

\* A new receive thread has its handle in at_rcv_thread_id.
LEMMA StartRcvShape ==
  ASSUME StartRcv
  PROVE  \E r \in Receivers : /\ rcv[r].pc = "none"
                              /\ rcvId' = r
                              /\ rcv' = [rcv EXCEPT ![r] = [NoRcv EXCEPT !.pc = "start"]]
  BY DEF StartRcv

\* The order holds initially.
LEMMA BaseInit == Init => Base
PROOF
  <1> SUFFICES ASSUME Init  PROVE Base
    OBVIOUS
  <1>1. ShTable
    BY DEF Init, ShTable
  <1>2. ShCtx
    BY ZeroId DEF Init, ShCtx, Dead
  <1>3. ShConn
    BY DEF Init, ShConn, Closed
  <1>4. ShOpen
    BY DEF Init, ShOpen
  <1>5. ShRcv
    BY DEF Init, ShRcv, NoRcv
  <1>6. ShAt
    BY DEF Init, ShAt, AtIdle
  <1>7. ShSaved
    BY DEF Init, ShSaved, NothingSaved
  <1>8. RInv
    BY DEF Init, RInv, Owned, Named, CreatorSeesNone, OneWaiting, RestoredFirst, NoRcv,
       AtIdle
  <1> QED  BY <1>1, <1>2, <1>3, <1>4, <1>5, <1>6, <1>7, <1>8 DEF Base, Shape

\* The same for OpenSlot.
LEMMA OpenSlotBase ==
  ASSUME Base, Sequential, NEW c \in Ctxs, OpenSlot(c)
  PROVE  Base'
PROOF
  <1>1. ShCtx'
    BY SockAssumption, ZeroId DEF OpenSlot, OpenFails, Dead, Fresh, Failed, ShCtx, Base,
       Shape
  <1>2. ShOpen'
    BY SockAssumption, ZeroId DEF OpenSlot, OpenFails, ShOpen, Base, Shape
  <1>3. Shape'
    BY <1>1, <1>2 DEF OpenSlot, OpenFails, ShTable, ShConn, ShRcv, ShAt, ShSaved, Base,
       Shape
  <1>Owned. Owned'
    BY SockAssumption, ZeroId DEF OpenSlot, Base, Shape, ShRcv, ShOpen, ShAt, RInv, Owned,
       Named, CreatorSeesNone, OneWaiting, RestoredFirst, Sequential, AtIdle, NoRcv,
       OpenFails, DeleteBegins, Rescan
  <1>Named. Named'
    BY SockAssumption, ZeroId DEF OpenSlot, Base, Shape, ShRcv, ShOpen, ShAt, RInv, Owned,
       Named, CreatorSeesNone, OneWaiting, RestoredFirst, Sequential, AtIdle, NoRcv,
       OpenFails, DeleteBegins, Rescan
  <1>CreatorSeesNone. CreatorSeesNone'
    BY SockAssumption, ZeroId DEF OpenSlot, Base, Shape, ShRcv, ShOpen, ShAt, RInv, Owned,
       Named, CreatorSeesNone, OneWaiting, RestoredFirst, Sequential, AtIdle, NoRcv,
       OpenFails, DeleteBegins, Rescan
  <1>OneWaiting. OneWaiting'
    BY SockAssumption, ZeroId DEF OpenSlot, Base, Shape, ShRcv, ShOpen, ShAt, RInv, Owned,
       Named, CreatorSeesNone, OneWaiting, RestoredFirst, Sequential, AtIdle, NoRcv,
       OpenFails, DeleteBegins, Rescan
  <1>RestoredFirst. RestoredFirst'
    BY SockAssumption, ZeroId DEF OpenSlot, Base, Shape, ShRcv, ShOpen, ShAt, RInv, Owned,
       Named, CreatorSeesNone, OneWaiting, RestoredFirst, Sequential, AtIdle, NoRcv,
       OpenFails, DeleteBegins, Rescan
  <1> QED
    BY <1>3, <1>Owned, <1>Named, <1>CreatorSeesNone, <1>OneWaiting, <1>RestoredFirst DEF
       Base, RInv

\* A descriptor is opened, or sck_open gives up.
LEMMA OpenSocketBase ==
  ASSUME Base, Sequential, NEW c \in Ctxs, OpenSocket(c)
  PROVE  Base'
PROOF
  <1>1. ShCtx'
    BY SockAssumption, ZeroId DEF OpenSocket, OpenFails, Dead, Fresh, Failed, ShCtx, Base,
       Shape
  <1>2. ShConn'
    <2>1. conn' = conn \/ \E f : conn' = [conn EXCEPT ![f] = [Closed EXCEPT !.open = TRUE,
                                                                         !.type = ctx[c].type]]
      BY DEF OpenSocket
    <2> QED BY <2>1 DEF Closed, ShConn, Base, Shape
  <1>3. ShOpen'
    BY SockAssumption, ZeroId DEF OpenSocket, OpenFails, ShOpen, Base, Shape
  <1>4. Shape'
    BY <1>1, <1>2, <1>3 DEF OpenSocket, OpenFails, ShTable, ShRcv, ShAt, ShSaved, Base,
       Shape
  <1>Owned. Owned'
    BY SockAssumption, ZeroId DEF OpenSocket, Base, Shape, ShRcv, ShOpen, ShAt, RInv, Owned,
       Named, CreatorSeesNone, OneWaiting, RestoredFirst, Sequential, AtIdle, NoRcv,
       OpenFails, DeleteBegins, Rescan
  <1>Named. Named'
    BY SockAssumption, ZeroId DEF OpenSocket, Base, Shape, ShRcv, ShOpen, ShAt, RInv, Owned,
       Named, CreatorSeesNone, OneWaiting, RestoredFirst, Sequential, AtIdle, NoRcv,
       OpenFails, DeleteBegins, Rescan
  <1>CreatorSeesNone. CreatorSeesNone'
    BY SockAssumption, ZeroId DEF OpenSocket, Base, Shape, ShRcv, ShOpen, ShAt, RInv, Owned,
       Named, CreatorSeesNone, OneWaiting, RestoredFirst, Sequential, AtIdle, NoRcv,
       OpenFails, DeleteBegins, Rescan
  <1>OneWaiting. OneWaiting'
    BY SockAssumption, ZeroId DEF OpenSocket, Base, Shape, ShRcv, ShOpen, ShAt, RInv, Owned,
       Named, CreatorSeesNone, OneWaiting, RestoredFirst, Sequential, AtIdle, NoRcv,
       OpenFails, DeleteBegins, Rescan
  <1>RestoredFirst. RestoredFirst'
    BY SockAssumption, ZeroId DEF OpenSocket, Base, Shape, ShRcv, ShOpen, ShAt, RInv, Owned,
       Named, CreatorSeesNone, OneWaiting, RestoredFirst, Sequential, AtIdle, NoRcv,
       OpenFails, DeleteBegins, Rescan
  <1> QED
    BY <1>4, <1>Owned, <1>Named, <1>CreatorSeesNone, <1>OneWaiting, <1>RestoredFirst DEF
       Base, RInv

\* One slot is scanned.
LEMMA RcvScanBase ==
  ASSUME Base, Sequential, NEW r \in Receivers, RcvScan(r)
  PROVE  Base'
PROOF
  <1>1. ShConn'
    BY SockAssumption, ZeroId DEF RcvScan, DeleteBegins, Closed, OpenFails, ShConn, Base,
       Shape
  <1>2. ShRcv'
    BY SockAssumption, ZeroId DEF RcvScan, DeleteBegins, Rescan, NoRcv, Slots, ShRcv, Base,
       Shape
  <1>3. Shape'
    BY <1>1, <1>2 DEF RcvScan, ShTable, ShCtx, ShOpen, ShAt, ShSaved, Base, Shape
  <1>Owned. Owned'
    BY SockAssumption, ZeroId DEF RcvScan, Base, Shape, ShRcv, ShOpen, ShAt, RInv, Owned,
       Named, CreatorSeesNone, OneWaiting, RestoredFirst, Sequential, AtIdle, NoRcv,
       OpenFails, DeleteBegins, Rescan
  <1>Named. Named'
    BY SockAssumption, ZeroId DEF RcvScan, Base, Shape, ShRcv, ShOpen, ShAt, RInv, Owned,
       Named, CreatorSeesNone, OneWaiting, RestoredFirst, Sequential, AtIdle, NoRcv,
       OpenFails, DeleteBegins, Rescan
  <1>CreatorSeesNone. CreatorSeesNone'
    BY SockAssumption, ZeroId DEF RcvScan, Base, Shape, ShRcv, ShOpen, ShAt, RInv, Owned,
       Named, CreatorSeesNone, OneWaiting, RestoredFirst, Sequential, AtIdle, NoRcv,
       OpenFails, DeleteBegins, Rescan
  <1>OneWaiting. OneWaiting'
    BY SockAssumption, ZeroId DEF RcvScan, Base, Shape, ShRcv, ShOpen, ShAt, RInv, Owned,
       Named, CreatorSeesNone, OneWaiting, RestoredFirst, Sequential, AtIdle, NoRcv,
       OpenFails, DeleteBegins, Rescan
  <1>RestoredFirst. RestoredFirst'
    BY SockAssumption, ZeroId DEF RcvScan, Base, Shape, ShRcv, ShOpen, ShAt, RInv, Owned,
       Named, CreatorSeesNone, OneWaiting, RestoredFirst, Sequential, AtIdle, NoRcv,
       OpenFails, DeleteBegins, Rescan
  <1> QED
    BY <1>3, <1>Owned, <1>Named, <1>CreatorSeesNone, <1>OneWaiting, <1>RestoredFirst DEF
       Base, RInv

\* The restoration begins, or is given up.
LEMMA ResumeBase ==
  ASSUME Base, Sequential, Resume
  PROVE  Base'
PROOF
  <1>1. CASE rcvId # NoThread
    <2>1. UNCHANGED <<table, ctx, conn, open, rcvId, rcv, at>> /\ ~ recover' /\ saved' = NothingSaved
      BY <1>1 DEF Resume
    <2>2. ShSaved'
      BY <2>1 DEF NothingSaved, ShSaved
    <2> QED BY <1>1, <2>1, <2>2 DEF Base, Shape, ShTable, ShCtx, ShConn, ShOpen, ShRcv,
       ShAt, RInv, Owned, Named, CreatorSeesNone, OneWaiting, RestoredFirst
  <1>2. CASE rcvId = NoThread
    <2>1. UNCHANGED <<table, ctx, conn, open, rcvId, rcv, saved, recover>> /\ at' = [AtIdle EXCEPT !.pc = "restore"] /\ recover
      BY <1>2 DEF Resume
    <2>2. ShAt'
      BY <2>1 DEF ShAt, AtIdle
    <2> QED BY <1>2, <2>1, <2>2 DEF Base, Shape, ShTable, ShCtx, ShConn, ShOpen, ShRcv,
       ShSaved, RInv, Owned, Named, CreatorSeesNone, OneWaiting, RestoredFirst
  <1> QED BY <1>1, <1>2

\* select returns.
LEMMA RcvSelectBase ==
  ASSUME Base, Sequential, NEW r \in Receivers, RcvSelect(r)
  PROVE  Base'
PROOF
  <1>2. ShRcv'
    BY Selected DEF ShRcv, Base, Shape
  <1>3. Owned' /\ Named'
    BY Selected, Zenon DEF RcvSelect, Base, Shape, ShRcv, RInv, Owned, Named
  <1> QED BY <1>2, <1>3 DEF RcvSelect, Base, Shape, ShTable, ShCtx, ShConn, ShOpen, ShAt,
     ShSaved, RInv, CreatorSeesNone, OneWaiting, RestoredFirst

\* The slot at hand is served, or its socket begins to be deleted.
LEMMA ServeSays ==
  ASSUME NEW r, RcvServe(r)
  PROVE  /\ rcv[r].pc = "serve" /\ rcv[r].i \in Slots
         /\ table' = table /\ ctx' = ctx /\ nodes' = nodes /\ open' = open
         /\ rcvId' = rcvId /\ at' = at /\ broken' = broken
         /\ \/ table[rcv[r].i] # NoCtx /\ DeleteBegins(r, "serve")
            \/ /\ rcv' = [rcv EXCEPT ![r].i = @ + 1]
               /\ conn' = conn \/ \E f : conn' = [conn EXCEPT ![f].data = 0]
PROOF
  <1>1. /\ rcv[r].pc = "serve" /\ rcv[r].i \in Slots
        /\ UNCHANGED <<table, ctx, nodes, air, open, rcvId, at, ack, saved, recover, broken>>
    BY Zenon DEF RcvServe
  <1>2. \/ table[rcv[r].i] # NoCtx /\ DeleteBegins(r, "serve")
        \/ rcv' = [rcv EXCEPT ![r].i = @ + 1]
    BY Zenon DEF RcvServe
  <1>3. \/ table[rcv[r].i] # NoCtx /\ DeleteBegins(r, "serve")
        \/ conn' = conn \/ \E f : conn' = [conn EXCEPT ![f].data = 0]
    BY Zenon DEF RcvServe
  <1> QED  BY <1>1, <1>2, <1>3, Zenon

\* One slot is served.
LEMMA RcvServeBase ==
  ASSUME Base, Sequential, NEW r \in Receivers, RcvServe(r)
  PROVE  Base'
PROOF
  <1>1. CASE DeleteBegins(r, "serve")
    <2>1. ShRcv' /\ Owned' /\ Named'
      BY <1>1, Zenon DEF RcvServe, DeleteBegins, Base, Shape, ShRcv, RInv, Owned, Named
    <2>2. ShConn'
      BY <1>1 DEF DeleteBegins, Closed, Base, Shape, ShConn
    <2> QED BY <2>1, <2>2, Zenon DEF RcvServe, Base, Shape, ShTable, ShCtx, ShOpen, ShAt,
       ShSaved, RInv, CreatorSeesNone, OneWaiting, RestoredFirst
  <1>2. CASE ~ DeleteBegins(r, "serve")
    <2>1. rcv' = [rcv EXCEPT ![r].i = @ + 1] /\ rcvId' = rcvId
      BY <1>2, Zenon DEF RcvServe
    <2>2. ShRcv'
      BY <2>1 DEF Base, Shape, ShRcv
    <2>3. Owned' /\ Named'
      BY <2>1 DEF Base, Shape, ShRcv, RInv, Owned, Named
    <2>4. ShConn'
      <3>1. conn' = conn \/ \E f : conn' = [conn EXCEPT ![f].data = 0]
        BY <1>2, Zenon DEF RcvServe
      <3> QED BY <3>1 DEF Base, Shape, ShConn
    <2> QED BY <2>2, <2>3, <2>4, Zenon DEF RcvServe, Base, Shape, ShTable, ShCtx, ShOpen, ShAt,
       ShSaved, RInv, CreatorSeesNone, OneWaiting, RestoredFirst
  <1> QED BY <1>1, <1>2

\* The receive thread is created after the restoration.
LEMMA RestoreEndBase ==
  ASSUME Base, Sequential, RestoreEnd
  PROVE  Base'
PROOF
  <1>1. at' = AtIdle /\ ~ recover' /\ ShSaved'
    BY DEF RestoreEnd, NothingSaved, ShSaved, NoId, Ids
  <1>2. ShAt'
    BY <1>1 DEF ShAt, AtIdle
  <1>3. ShRcv' /\ Owned' /\ Named'
    <2>1. CASE UNCHANGED <<rcv, rcvId>>
      BY <2>1 DEF Base, Shape, ShRcv, RInv, Owned, Named
    <2>2. CASE StartRcv /\ rcvId = NoThread
      <3>1. PICK r \in Receivers : rcvId' = r /\ rcv' = [rcv EXCEPT ![r] = [NoRcv EXCEPT !.pc = "start"]]
        BY <2>2, StartRcvShape
      <3>2. ShRcv'
        BY <3>1 DEF Base, Shape, ShRcv, NoRcv
      <3>3. Owned' /\ Named'
        BY <2>2, <3>1, SockAssumption DEF Base, Shape, ShRcv, RInv, Owned, Named, NoRcv
      <3> QED BY <3>2, <3>3
    <2> QED BY <2>1, <2>2 DEF RestoreEnd
  <1>4. CreatorSeesNone' /\ OneWaiting' /\ RestoredFirst'
    BY <1>1 DEF RestoreEnd, Base, RInv, CreatorSeesNone, OneWaiting, RestoredFirst, AtIdle
  <1> QED BY <1>1, <1>2, <1>3, <1>4 DEF RestoreEnd, Base, Shape, ShTable, ShCtx, ShConn,
     ShOpen, RInv

\* One socket is restored.
LEMMA RestoreSlotBase ==
  ASSUME Base, Sequential, RestoreSlot
  PROVE  Base'
PROOF
  <1>1. CASE Breaks("assert")
    BY <1>1, BreaksQuiet, QuietBase DEF Base
  <1>2. CASE ~ Breaks("assert")
    <2>1. ShAt' /\ at'.pc = "restore"
      BY <1>2 DEF RestoreSlot, Base, Shape, ShAt
    <2>2. UNCHANGED <<open, rcvId, rcv, saved, recover>>
      BY <1>2 DEF RestoreSlot
    <2>3. RInv'
      BY <2>1, <2>2 DEF RestoreSlot, Base, RInv, Owned, Named, CreatorSeesNone, OneWaiting,
         RestoredFirst
    <2>4. ShTable'
      <3>1. table' = table \/ (FreeCtxs # {} /\ \E i : table' = [table EXCEPT ![i] = NewCtx])
        BY <1>2 DEF RestoreSlot
      <3>2. FreeCtxs # {} => NewCtx \in Ctxs
        BY DEF NewCtx, FreeCtxs
      <3> QED BY <3>1, <3>2 DEF Base, Shape, ShTable
    <2>5. ShCtx'
      <3>0. saved[at.slot] \in Ids \cup {NoId}
        BY DEF RestoreSlot, Base, Shape, ShSaved
      <3>1. ctx' = ctx \/ \E id \in Ids : \E f : ctx' = [ctx EXCEPT ![NewCtx] = [Fresh(id, "udp") EXCEPT
                               !.fd = f, !.state = [s \in Seqs |-> "unused"]]]
        BY <1>2, <3>0, Zenon DEF RestoreSlot
      <3>2. ASSUME NEW id \in Ids, NEW f
            PROVE  LET x == [Fresh(id, "udp") EXCEPT !.fd = f, !.state = [s \in Seqs |-> "unused"]]
                   IN  {"live", "fd", "quit", "id"} \subseteq DOMAIN x /\ x.id \in Ids
        BY DEF Fresh, Dead
      <3> QED BY <3>1, <3>2, Zenon DEF Base, Shape, ShCtx
    <2>6. ShConn'
      <3>1. conn' = conn \/ \E f : \/ conn' = [conn EXCEPT ![f] = Closed]
                                   \/ conn' = [conn EXCEPT ![f] = [Closed EXCEPT !.open = TRUE, !.up = TRUE]]
        BY <1>2 DEF RestoreSlot
      <3>2. "open" \in DOMAIN Closed /\ "open" \in DOMAIN [Closed EXCEPT !.open = TRUE, !.up = TRUE]
        BY DEF Closed
      <3> QED BY <3>1, <3>2 DEF Base, Shape, ShConn
    <2> QED BY <2>1, <2>2, <2>3, <2>4, <2>5, <2>6 DEF Base, Shape, ShOpen, ShRcv, ShSaved
  <1> QED BY <1>1, <1>2

\* The thread sck_open keeps the order of the threads.
LEMMA OpenBase ==
  ASSUME Base, Sequential, NEW c \in Ctxs, Open(c)
  PROVE  Base'
PROOF
  <1>1. CASE OpenSlot(c)
    BY <1>1, OpenSlotBase
  <1>2. CASE OpenSocket(c)
    BY <1>2, OpenSocketBase
  <1>3. CASE OpenConnected(c)
    BY <1>3, SockAssumption, ZeroId DEF OpenConnected, ShTable, Base, Shape, ShConn, ShOpen,
       ShCtx, ShRcv, ShAt, ShSaved, RInv, Owned, Named, CreatorSeesNone, OneWaiting,
       RestoredFirst
  <1>4. CASE OpenRefused(c)
    BY <1>4, SockAssumption, ZeroId DEF OpenRefused, OpenFails, Dead, ShCtx, Base, Shape,
       Closed, ShConn, ShOpen, ShTable, ShRcv, ShAt, ShSaved, RInv, Owned, Named,
       CreatorSeesNone, OneWaiting, RestoredFirst
  <1>5. CASE OpenThread(c)
    BY <1>5, SockAssumption, ZeroId DEF OpenThread, ShOpen, Base, Shape, ShTable, ShCtx,
       ShConn, ShRcv, ShAt, ShSaved, RInv, Owned, Named, CreatorSeesNone, OneWaiting,
       RestoredFirst
  <1>6. CASE OpenCreate(c)
    BY <1>6, SockAssumption, ZeroId DEF OpenCreate, NoRcv, StartRcv, Slots, ShRcv, Base,
       Shape, ShOpen, ShTable, ShCtx, ShConn, ShAt, ShSaved, RInv, Owned, Named,
       CreatorSeesNone, OneWaiting, RestoredFirst
  <1>7. CASE OpenReport(c)
    BY <1>7, SockAssumption, ZeroId DEF OpenReport, Dead, ShOpen, Base, Shape, ShTable, ShCtx,
       ShConn, ShRcv, ShAt, ShSaved, RInv, Owned, Named, CreatorSeesNone, OneWaiting,
       RestoredFirst
  <1> QED
    BY <1>1, <1>2, <1>3, <1>4, <1>5, <1>6, <1>7 DEF Open

\* The receive thread keeps the order of the threads.
LEMMA ReceiveBase ==
  ASSUME Base, Sequential, NEW r \in Receivers, Receive(r)
  PROVE  Base'
PROOF
  <1>1. CASE RcvStart(r)
    BY <1>1, SockAssumption, ZeroId DEF RcvStart, Slots, ShRcv, Base, Shape, ShTable, ShCtx,
       ShConn, ShOpen, ShAt, ShSaved, RInv, Owned, Named, CreatorSeesNone, OneWaiting,
       RestoredFirst
  <1>2. CASE RcvScan(r)
    BY <1>2, RcvScanBase
  <1>9. CASE RcvDrops(r)
    <2>1. UNCHANGED <<table, conn, open, rcvId, at, saved, recover>>
      BY <1>9 DEF RcvDrops
    <2>2. ShCtx'
      BY <1>9, ZeroId DEF RcvDrops, Failed, Base, Shape, ShCtx
    <2>3. rcv[r].pc = "delete" /\ rcv' = [rcv EXCEPT ![r].pc = "free"]
      BY <1>9 DEF RcvDrops
    <2>4. ShRcv' /\ Owned' /\ Named'
      BY <2>1, <2>3 DEF Base, Shape, ShRcv, RInv, Owned, Named
    <2> QED BY <2>1, <2>2, <2>4 DEF Base, Shape, ShTable, ShConn, ShOpen, ShAt, ShSaved,
       RInv, CreatorSeesNone, OneWaiting, RestoredFirst
  <1>3. CASE RcvDelete(r)
    <2>1. UNCHANGED <<conn, open, rcvId, at, saved, recover>>
      BY <1>3 DEF RcvDelete
    <2>2. ShTable'
      BY <1>3 DEF RcvDelete, Base, Shape, ShTable
    <2>3. ShCtx'
      BY <1>3, ZeroId DEF RcvDelete, Dead, Base, Shape, ShCtx
    <2>4. /\ DOMAIN rcv' = Receivers
          /\ rcv'[r] = [rcv[r] EXCEPT !.pc = rcv[r].back, !.back = "scan", !.i = @ + 1]
          /\ \A q \in Receivers \ {r} : rcv'[q] = rcv[q]
          /\ rcv[r].pc = "free"
      BY <1>3 DEF RcvDelete, Base, Shape, ShRcv
    <2>5. ShRcv'
      <3>1. /\ {"pc", "i", "fds", "back"} \subseteq DOMAIN rcv[r]
            /\ rcv[r].i \in Nat
        BY DEF Base, Shape, ShRcv
      <3>2. /\ DOMAIN rcv'[r] = DOMAIN rcv[r]
            /\ rcv'[r].i = rcv[r].i + 1 /\ rcv'[r].back = "scan"
        BY <2>4, <3>1
      <3>3. /\ {"pc", "i", "fds", "back"} \subseteq DOMAIN rcv'[r]
            /\ rcv'[r].i \in Nat /\ rcv'[r].back \in {"scan", "serve"}
        BY <3>1, <3>2
      <3>4. ASSUME NEW q \in Receivers \ {r}
            PROVE  /\ {"pc", "i", "fds", "back"} \subseteq DOMAIN rcv'[q]
                   /\ rcv'[q].i \in Nat /\ rcv'[q].back \in {"scan", "serve"}
        <4>1. rcv'[q] = rcv[q]
          BY <2>4
        <4> QED BY <4>1 DEF Base, Shape, ShRcv
      <3> QED BY <2>4, <3>3, <3>4 DEF ShRcv
    <2>6. rcv'[r].pc \in {"scan", "serve"}
      BY <2>4 DEF Base, Shape, ShRcv
    <2>7. Owned' /\ Named'
      BY <2>1, <2>4, <2>6 DEF Base, RInv, Owned, Named
    <2> QED BY <2>1, <2>2, <2>3, <2>5, <2>7 DEF Base, Shape, ShConn, ShOpen, ShAt, ShSaved,
       RInv, CreatorSeesNone, OneWaiting, RestoredFirst
  <1>4. CASE RcvScanned(r)
    BY <1>4, SockAssumption, ZeroId DEF RcvScanned, Slots, ShRcv, Base, Shape, ShTable,
       ShCtx, ShConn, ShOpen, ShAt, ShSaved, RInv, Owned, Named, CreatorSeesNone,
       OneWaiting, RestoredFirst
  <1>5. CASE RcvSelect(r)
    BY <1>5, RcvSelectBase
  <1>6. CASE RcvServe(r)
    BY <1>6, RcvServeBase
  <1>7. CASE RcvServed(r)
    BY <1>7, SockAssumption, ZeroId DEF RcvServed, Rescan, NoRcv, Slots, ShRcv, Base, Shape,
       ShTable, ShCtx, ShConn, ShOpen, ShAt, ShSaved, RInv, Owned, Named, CreatorSeesNone,
       OneWaiting, RestoredFirst
  <1>8. CASE RcvExit(r)
    BY <1>8, SockAssumption, ZeroId DEF RcvExit, NoRcv, Slots, ShRcv, Base, Shape, ShTable,
       ShCtx, ShConn, ShOpen, ShAt, ShSaved, RInv, Owned, Named, CreatorSeesNone,
       OneWaiting, RestoredFirst
  <1> QED
    BY <1>1, <1>2, <1>3, <1>4, <1>5, <1>6, <1>7, <1>8, <1>9 DEF Receive

\* Deep sleep, a reset and the restoration afterwards keep the order of the threads.
LEMMA PowerBase ==
  ASSUME Base, Sequential, Restore \/ DeepSleep \/ ChipReset
  PROVE  Base'
PROOF
  <1>1. CASE Resume
    BY <1>1, ResumeBase
  <1>2. CASE RestoreSlot
    BY <1>2, RestoreSlotBase
  <1>3. CASE RestoreEnd
    BY <1>3, RestoreEndBase
  <1>4. CASE DeepSleep
    BY <1>4, SockAssumption, ZeroId DEF DeepSleep, ShTable, Base, Shape, Dead, ShCtx,
       Closed, ShConn, NoRcv, Slots, ShRcv, ShSaved, ShOpen, ShAt, RInv, Owned, Named,
       CreatorSeesNone, OneWaiting, RestoredFirst
  <1>5. CASE ChipReset
    BY <1>5, SockAssumption, ZeroId DEF ChipReset, ShTable, Base, Shape, Dead, ShCtx,
       Closed, ShConn, ShOpen, NoRcv, Slots, ShRcv, AtIdle, ShAt, ShSaved, RInv, Owned,
       Named, CreatorSeesNone, OneWaiting, RestoredFirst
  <1> QED
    BY <1>1, <1>2, <1>3, <1>4, <1>5 DEF Restore

\* AT+QIOPEN keeps the order of the threads.
LEMMA QIOPENBase ==
  ASSUME Base, Sequential, NEW id \in Ids, NEW type \in Types, QIOPEN(id, type)
  PROVE  Base'
BY SockAssumption, ZeroId DEF QIOPEN, Dead, Fresh, ShCtx, Base, Shape, ShOpen, ShTable,
   ShConn, ShRcv, ShAt, ShSaved, RInv, Owned, Named, CreatorSeesNone, OneWaiting,
   RestoredFirst, Sequential

\* Every step keeps the order of the threads.
LEMMA BaseStep ==
  ASSUME Base, Sequential, [Next]_vars
  PROVE  Base'
PROOF
  <1>1. CASE Traffic
    BY <1>1, TrafficQuiet, QuietBase DEF Base
  <1>2. CASE UNCHANGED vars
    BY <1>2, StutterQuiet, QuietBase DEF Base
  <1>3. CASE \E id \in Ids, type \in Types : QIOPEN(id, type)
    BY <1>3, QIOPENBase
  <1>4. CASE \E c \in Ctxs : Open(c)
    BY <1>4, OpenBase
  <1>5. CASE \E r \in Receivers : Receive(r)
    BY <1>5, ReceiveBase
  <1>6. CASE Restore \/ DeepSleep \/ ChipReset
    BY <1>6, PowerBase
  <1> QED
    BY <1>1, <1>2, <1>3, <1>4, <1>5, <1>6 DEF Next, Traffic

\* The receive thread is created where at_rcv_thread_id is NULL, in sck_open
\* (at_socket_bc26.c:314) and in the restoration (at_socket_context.c:799), without a
\* lock: if the MCU opens one socket at a time and resumes the saved ones first,
\* there is never a second one.
THEOREM NeverTwoReceivers == Sequential => (Spec => []OneReceiver)
PROOF
  <1> SUFFICES ASSUME Sequential  PROVE Spec => []OneReceiver
    OBVIOUS
  <1>1. Base => OneReceiver
    BY DEF Base, RInv, Owned, OneReceiver
  <1>2. Base /\ [Next]_vars => Base'
    BY BaseStep
  <1> QED  BY <1>1, <1>2, BaseInit, PTL DEF Spec

-----------------------------------------------------------------------------
(* The only way to a deaf socket                                              *)

(* A receive thread that ends has seen no descriptor in its last round.       *)
ExitNoFds == \A r \in Receivers : rcv[r].pc = "exit" => rcv[r].fds = {}
Kept == ExitNoFds' /\ (Watched => Watched')
Race(r) == /\ rcv'[r].pc = "exit" /\ rcv'[r].fds = {}
           /\ rcv[r].pc = "scan" \/ \E c \in Connecting : open'[c].pc = "thread"

\* Slots are numbers below SOCK_NUM.
LEMMA SlotIsNat == \A j \in Slots : j \in Nat /\ j < SockNum
BY SockAssumption DEF Slots

\* Such steps keep the watch.
LEMMA QuietKept == ASSUME ExitNoFds, Quiet PROVE Kept
BY DEF Kept, Quiet, AtSame, ExitNoFds, Watched, FreeSlots

\* A receive thread that goes on watches, whatever slot it has emptied.
LEMMA GoesOnKept ==
  ASSUME Base, ExitNoFds, NEW r \in Receivers, rcv[r].pc \notin {"none", "exit"},
         DOMAIN rcv' = Receivers, rcv'[r].pc \notin {"none", "exit"},
         \A q \in Receivers \ {r} : rcv'[q] = rcv[q],
         UNCHANGED <<open, rcvId, at>>
  PROVE  Kept
PROOF
  <1>1. rcvId = r /\ rcvId # NoThread
    BY SockAssumption DEF Base, RInv, Owned
  <1>2. Watched'
    BY <1>1 DEF Watched
  <1>3. ExitNoFds'
    BY DEF ExitNoFds
  <1> QED BY <1>2, <1>3 DEF Kept

\* One slot is scanned.
LEMMA RcvScanKept ==
  ASSUME Base, ExitNoFds, NEW r \in Receivers, RcvScan(r)
  PROVE  Kept
PROOF
  <1>1. UNCHANGED <<open, rcvId, at>> /\ rcv[r].pc = "scan"
    BY DEF RcvScan
  <1>2. /\ DOMAIN rcv' = Receivers /\ rcv'[r].pc \in {"scan", "delete"}
        /\ \A q \in Receivers \ {r} : rcv'[q] = rcv[q]
    <2>1. CASE DeleteBegins(r, "scan")
      BY <2>1 DEF DeleteBegins, Base, Shape, ShRcv
    <2>2. CASE ~ DeleteBegins(r, "scan")
      <3>1. rcv' = [rcv EXCEPT ![r].i = @ + 1,
                               ![r].fds = IF table[rcv[r].i] = NoCtx THEN @ ELSE @ \cup {ctx[table[rcv[r].i]].fd}]
        BY <2>2 DEF RcvScan
      <3> QED BY <1>1, <3>1 DEF Base, Shape, ShRcv
    <2> QED BY <2>1, <2>2
  <1> QED BY <1>1, <1>2, GoesOnKept

\* select returns.
LEMMA RcvSelectKept ==
  ASSUME Base, ExitNoFds, NEW r \in Receivers, RcvSelect(r)
  PROVE  Kept
PROOF
  <1>1. UNCHANGED <<open, rcvId, at>> /\ rcv[r].pc = "select"
    BY DEF RcvSelect
  <1>2. /\ DOMAIN rcv' = Receivers /\ rcv'[r].pc \in {"select", "scan", "serve"}
        /\ \A q \in Receivers \ {r} : rcv'[q] = rcv[q]
    BY <1>1, Selected DEF Base, Shape, ShRcv
  <1> QED BY <1>1, <1>2, GoesOnKept

\* One slot is served.
LEMMA RcvServeKept ==
  ASSUME Base, ExitNoFds, NEW r \in Receivers, RcvServe(r)
  PROVE  Kept
PROOF
  <1>1. UNCHANGED <<open, rcvId, at>> /\ rcv[r].pc = "serve"
    BY ServeSays
  <1>2. /\ DOMAIN rcv' = Receivers /\ rcv'[r].pc \in {"serve", "delete"}
        /\ \A q \in Receivers \ {r} : rcv'[q] = rcv[q]
    <2>1. CASE DeleteBegins(r, "serve")
      BY <2>1 DEF DeleteBegins, Base, Shape, ShRcv
    <2>2. CASE ~ DeleteBegins(r, "serve")
      <3>1. rcv' = [rcv EXCEPT ![r].i = @ + 1]
        BY <2>2, Zenon DEF RcvServe
      <3> QED BY <1>1, <3>1 DEF Base, Shape, ShRcv
    <2> QED BY <2>1, <2>2
  <1> QED BY <1>1, <1>2, GoesOnKept

\* The receive thread keeps the watch until it ends, and by then it has lost it.
LEMMA ReceiveKept ==
  ASSUME Base, ExitNoFds, NEW r \in Receivers, Receive(r)
  PROVE  Kept \/ (ExitNoFds' /\ Race(r))
PROOF
  <1>1. CASE RcvStart(r)
    BY <1>1, GoesOnKept DEF RcvStart, Base, Shape, ShRcv
  <1>2. CASE RcvScan(r)
    BY <1>2, RcvScanKept
  <1>3. CASE RcvDrops(r)
    BY <1>3, GoesOnKept DEF RcvDrops, Base, Shape, ShRcv
  <1>4. CASE RcvDelete(r)
    BY <1>4, GoesOnKept DEF RcvDelete, Base, Shape, ShRcv
  <1>5. CASE RcvScanned(r)
    <2>1. /\ rcv[r].pc = "scan" /\ UNCHANGED <<open, rcvId, at>>
          /\ DOMAIN rcv' = Receivers /\ \A q \in Receivers \ {r} : rcv'[q] = rcv[q]
          /\ rcv'[r].pc = IF rcv[r].fds = {} THEN "exit" ELSE "select"
          /\ rcv'[r].fds = rcv[r].fds
      BY <1>5 DEF RcvScanned, Base, Shape, ShRcv
    <2>2. CASE rcv[r].fds = {}
      BY <2>1, <2>2 DEF ExitNoFds, Race
    <2>3. CASE rcv[r].fds # {}
      BY <2>1, <2>3, GoesOnKept
    <2> QED BY <2>2, <2>3
  <1>6. CASE RcvSelect(r)
    BY <1>6, RcvSelectKept
  <1>7. CASE RcvServe(r)
    BY <1>7, RcvServeKept
  <1>8. CASE RcvServed(r)
    BY <1>8, GoesOnKept DEF RcvServed, Rescan, NoRcv, Base, Shape, ShRcv
  <1>9. CASE RcvExit(r)
    <2>1. /\ rcv[r].pc = "exit" /\ rcvId' = NoThread /\ UNCHANGED <<table, open, at>>
          /\ rcv' = [rcv EXCEPT ![r] = NoRcv]
      BY <1>9 DEF RcvExit
    <2>2. rcvId = r /\ rcvId # NoThread
      BY <2>1, SockAssumption DEF Base, RInv, Owned
    <2>3. ExitNoFds'
      BY <2>1 DEF ExitNoFds, NoRcv, Base, Shape, ShRcv
    <2>4. Watched => Watched'
      BY <2>1, <2>2 DEF Watched, FreeSlots
    <2> QED BY <2>3, <2>4 DEF Kept
  <1> QED
    BY <1>1, <1>2, <1>3, <1>4, <1>5, <1>6, <1>7, <1>8, <1>9 DEF Receive

\* A new receive thread watches.
LEMMA StartKept ==
  ASSUME Base, ExitNoFds, StartRcv
  PROVE  Kept
PROOF
  <1>1. PICK q \in Receivers : /\ rcvId' = q
                               /\ rcv' = [rcv EXCEPT ![q] = [NoRcv EXCEPT !.pc = "start"]]
    BY StartRcvShape
  <1>2. Watched'
    BY <1>1, SockAssumption DEF Watched, NoRcv, Base, Shape, ShRcv
  <1>3. ExitNoFds'
    BY <1>1 DEF ExitNoFds, NoRcv, Base, Shape, ShRcv
  <1> QED BY <1>2, <1>3 DEF Kept

\* The thread sck_open keeps the watch, but for a connection made too late.
LEMMA OpenKept ==
  ASSUME Base, ExitNoFds, NEW c \in Ctxs, Open(c)
  PROVE  Kept \/ (ExitNoFds' /\ (Watched' \/ \E r \in Receivers : Race(r)))
PROOF
  <1>1. CASE OpenSlot(c) \/ OpenSocket(c) \/ OpenRefused(c) \/ OpenReport(c)
    <2>1. UNCHANGED <<table, rcvId, rcv, at>>
      BY <1>1 DEF OpenSlot, OpenSocket, OpenRefused, OpenReport, OpenFails
    <2>2. /\ open[c].pc \notin {"thread", "create"}
          /\ \A d \in Ctxs \ {c} : open'[d] = open[d]
      BY <1>1 DEF OpenSlot, OpenSocket, OpenRefused, OpenReport, OpenFails, Base, Shape, ShOpen
    <2> QED BY <2>1, <2>2 DEF Kept, ExitNoFds, Watched, FreeSlots
  <1>2. CASE OpenConnected(c)
    <2>1. /\ UNCHANGED <<rcvId, rcv>> /\ c \in Connecting /\ open'[c].pc = "thread"
      BY <1>2 DEF OpenConnected, Connecting, Base, Shape, ShOpen
    <2>2. ExitNoFds'
      BY <2>1 DEF ExitNoFds
    <2>3. ASSUME ~Watched'  PROVE \E r \in Receivers : Race(r)
      <3>1. rcvId # NoThread /\ rcv[rcvId].pc \in {"none", "exit"}
        BY <2>1, <2>3 DEF Watched
      <3>2. rcvId \in Receivers /\ rcv[rcvId].pc = "exit"
        BY <3>1 DEF Base, RInv, Named
      <3> QED BY <2>1, <3>2 DEF Race, ExitNoFds
    <2> QED BY <2>2, <2>3
  <1>3. CASE OpenThread(c)
    BY <1>3 DEF OpenThread, Kept, ExitNoFds, Watched, FreeSlots, Base, Shape, ShOpen, RInv,
       CreatorSeesNone
  <1>4. CASE OpenCreate(c)
    BY <1>4, StartKept DEF OpenCreate
  <1> QED BY <1>1, <1>2, <1>3, <1>4 DEF Open

\* Deep sleep and a reset leave no socket, the restoration ends with a thread.
LEMMA PowerKept ==
  ASSUME Base, ExitNoFds, Restore \/ DeepSleep \/ ChipReset
  PROVE  Kept
PROOF
  <1>1. CASE Resume
    BY <1>1 DEF Resume, AtIdle, Kept, ExitNoFds, Watched, FreeSlots
  <1>2. CASE RestoreSlot
    <2>1. UNCHANGED <<rcv, rcvId>>
      BY <1>2 DEF RestoreSlot, Breaks
    <2>2. at'.pc = "restore"
      BY <1>2 DEF RestoreSlot, Breaks, Base, Shape, ShAt
    <2> QED BY <2>1, <2>2 DEF Kept, ExitNoFds, Watched
  <1>3. CASE RestoreEnd
    <2>1. CASE FreeSlots # Slots
      <3>1. rcvId = NoThread
        BY <1>3 DEF RestoreEnd, Base, RInv, RestoredFirst
      <3> QED BY <1>3, <2>1, <3>1, StartKept DEF RestoreEnd
    <2>2. CASE FreeSlots = Slots
      BY <1>3, <2>2 DEF RestoreEnd, Kept, ExitNoFds, Watched, FreeSlots
    <2> QED BY <2>1, <2>2
  <1>4. CASE DeepSleep \/ ChipReset
    <2>1. table' = [i \in Slots |-> NoCtx] /\ rcv' = [r \in Receivers |-> NoRcv]
      BY <1>4 DEF DeepSleep, ChipReset
    <2>2. Watched'
      BY <2>1 DEF Watched, FreeSlots
    <2>3. ExitNoFds'
      BY <2>1 DEF ExitNoFds, NoRcv
    <2> QED BY <2>2, <2>3 DEF Kept
  <1> QED BY <1>1, <1>2, <1>3, <1>4 DEF Restore

\* AT+QIOPEN keeps the watch.
LEMMA QIOPENKept ==
  ASSUME Base, ExitNoFds, NEW id \in Ids, NEW type \in Types, QIOPEN(id, type)
  PROVE  Kept
PROOF
  <1>1. UNCHANGED <<table, rcvId, rcv, at>>
    BY DEF QIOPEN
  <1>2. PICK d \in Ctxs : open[d].pc = "none" /\ open' = [open EXCEPT ![d].pc = "slot"]
    BY DEF QIOPEN, NewCtx, FreeCtxs
  <1> QED BY <1>1, <1>2 DEF Kept, ExitNoFds, Watched, FreeSlots, Base, Shape, ShOpen

\* Every step keeps the watch, or is the race.
LEMMA RaceStep ==
  ASSUME Base, ExitNoFds, [Next]_vars
  PROVE  ExitNoFds' /\ (Watched => Watched' \/ \E r \in Receivers : Race(r))
PROOF
  <1>1. CASE Traffic
    BY <1>1, TrafficQuiet, QuietKept DEF Base, Kept
  <1>2. CASE UNCHANGED vars
    BY <1>2, StutterQuiet, QuietKept DEF Base, Kept
  <1>3. CASE \E id \in Ids, type \in Types : QIOPEN(id, type)
    BY <1>3, QIOPENKept DEF Kept
  <1>4. CASE \E c \in Ctxs : Open(c)
    BY <1>4, OpenKept DEF Kept
  <1>5. CASE \E r \in Receivers : Receive(r)
    BY <1>5, ReceiveKept DEF Kept
  <1>6. CASE Restore \/ DeepSleep \/ ChipReset
    BY <1>6, PowerKept DEF Kept
  <1> QED
    BY <1>1, <1>2, <1>3, <1>4, <1>5, <1>6 DEF Next, Traffic

\* The sockets of the table lose their thread in one way only: it saw no socket in
\* a whole round and ends while a connection is made (at_socket_rcv.c:60,
\* at_socket_bc26.c:314).  Nothing is assumed of the time a connection takes.
THEOREM SocketsDeafOnlyByRace == Sequential => (Spec => DeafOnlyByRace)
PROOF
  <1> SUFFICES ASSUME Sequential  PROVE Spec => DeafOnlyByRace
    OBVIOUS
  <1> DEFINE Step == Watched /\ ~Watched' => \E r \in Receivers : Race(r)
  <1>1. Init => ExitNoFds
    BY DEF Init, ExitNoFds, NoRcv
  <1>2. Base /\ ExitNoFds /\ [Next]_vars => Base' /\ ExitNoFds' /\ [Step]_vars
    BY BaseStep, RaceStep
  <1>3. [Step]_vars <=> [Watched /\ ~Watched' =>
            \E r \in Receivers :
               /\ rcv'[r].pc = "exit" /\ rcv'[r].fds = {}
               /\ rcv[r].pc = "scan" \/ \E c \in Connecting : open'[c].pc = "thread"]_vars
    BY DEF Race
  <1> HIDE DEF Step
  <1>4. Spec => [][Step]_vars
    BY <1>1, <1>2, BaseInit, PTL DEF Spec
  <1> QED  BY <1>3, <1>4, PTL DEF DeafOnlyByRace

-----------------------------------------------------------------------------
(* Descriptors                                                                *)

(* A context of the table is live and in one slot only; one that sck_open     *)
(* prepares is in no slot, and the slot chosen for it stays free.             *)
Live == \A i \in Slots : table[i] # NoCtx => ctx[table[i]].live
Distinct == \A i, j \in Slots : table[i] # NoCtx /\ table[i] = table[j] => i = j
Preparing(c) == open[c].pc \in {"slot", "socket", "connect", "fails"}
Outside == \A c \in Ctxs : Preparing(c) => ctx[c].live /\ \A i \in Slots : table[i] # c
SlotKept ==
    \A c \in Ctxs : open[c].pc \in {"socket", "connect"} =>
        open[c].slot \in Slots /\ table[open[c].slot] = NoCtx
Deleting ==
    \A r \in Receivers : rcv[r].pc \in {"delete", "free"} =>
        rcv[r].i \in Slots /\ table[rcv[r].i] # NoCtx
HasFd == \A c \in Ctxs : open[c].pc = "connect" => ctx[c].fd \in Fds /\ conn[ctx[c].fd].open

FInv == Live /\ Distinct /\ Outside /\ SlotKept /\ Deleting /\ HasFd /\ FdsOwned

(* The sockets in use, and those being connected, keep their descriptors.     *)
OwnersSame ==
    /\ InUse' = InUse /\ Connecting' = Connecting
    /\ \A i \in InUse : table'[i] = table[i]
    /\ \A c \in Ctxs : (c \in Connecting \/ \E i \in InUse : table[i] = c) =>
                         ctx'[c].live = ctx[c].live /\ ctx'[c].fd = ctx[c].fd
    /\ \A f \in Fds : conn'[f].open = conn[f].open

\* Then descriptors stay owned.
LEMMA OwnersKeep == ASSUME ShTable, FdsOwned, OwnersSame PROVE FdsOwned'
PROOF
  <1>1. \A i \in InUse : i \in Slots /\ table[i] \in Ctxs /\ ctx'[table[i]].fd = ctx[table[i]].fd /\ ctx'[table[i]].live = ctx[table[i]].live
    BY DEF InUse, OwnersSame, ShTable
  <1>2. \A c \in Connecting : c \in Ctxs /\ ctx'[c].fd = ctx[c].fd
    BY DEF Connecting, OwnersSame
  <1> QED BY <1>1, <1>2 DEF OwnersSame, FdsOwned

\* The steps of the MCU, the network and the handlers of outcomes keep descriptors.
LEMMA QuietOwned == ASSUME Base, FInv, Quiet PROVE FInv'
PROOF
  <1>1. Live' /\ Distinct' /\ Outside' /\ SlotKept' /\ Deleting' 
    BY DEF FInv, Quiet, CtxSame, Base, Shape, ShTable, Live, Distinct, Outside, Preparing,
       SlotKept, Deleting
  <1>2. HasFd'
    BY DEF FInv, Quiet, CtxSame, ConnSame, HasFd
  <1>3. InUse' = InUse /\ Connecting' = Connecting
    BY DEF Quiet, InUse, BeingDeleted, Connecting
  <1>4. \A i \in InUse : i \in Slots /\ table'[i] = table[i] /\ table[i] \in Ctxs
    BY DEF InUse, Quiet, Base, Shape, ShTable
  <1>5. \A c \in Connecting : c \in Ctxs
    BY DEF Connecting
  <1>6. FdsOwned'
    BY <1>3, <1>4, <1>5 DEF FInv, FdsOwned, Quiet, CtxSame, ConnSame
  <1> QED BY <1>1, <1>2, <1>6 DEF FInv

\* So does a step that touches neither the table nor descriptors.
LEMMA StillOwned == ASSUME Base, FInv, UNCHANGED <<table, ctx, conn, open, rcv>>  PROVE FInv'
BY DEF FInv, Live, Distinct, Outside, Preparing, SlotKept, Deleting, HasFd, FdsOwned, InUse,
   BeingDeleted, Connecting

\* The receive thread closes a descriptor and begins to delete its socket.
LEMMA BeginsOwned ==
  ASSUME Base, FInv, NEW r \in Receivers, NEW back, DeleteBegins(r, back),
         rcv[r].pc \in {"scan", "serve"}, rcv[r].i \in Slots, table[rcv[r].i] # NoCtx,
         UNCHANGED <<table, ctx, open>>
  PROVE  FInv'
PROOF
  <1> DEFINE i == rcv[r].i
             f == ctx[table[i]].fd
  <1>1. /\ \A q \in Receivers : q # r => rcv'[q] = rcv[q] /\ rcv[q].pc = "none"
        /\ rcv'[r].pc = "delete" /\ rcv'[r].i = i
    BY DEF DeleteBegins, Base, Shape, ShRcv, RInv, Owned
  <1>2. i \in InUse /\ InUse' = InUse \ {i} /\ Connecting' = Connecting
    BY <1>1 DEF InUse, BeingDeleted, Connecting
  <1>3. f \in Fds
    BY <1>2 DEF FInv, FdsOwned
  <1>4. ~ conn'[f].open /\ \A g \in Fds : g # f => conn'[g] = conn[g]
    BY <1>3 DEF DeleteBegins, Closed, Base, Shape, ShConn
  <1>5. Live' /\ Distinct' /\ Outside' /\ SlotKept'
    BY DEF FInv, Live, Distinct, Outside, Preparing, SlotKept
  <1>6. Deleting'
    BY <1>1 DEF FInv, Deleting
  <1>7. HasFd'
    <2>1. \A c \in Connecting : ctx[c].fd # f
      BY <1>2 DEF FInv, FdsOwned
    <2> QED BY <1>4, <2>1 DEF FInv, HasFd, Connecting
  <1> HIDE DEF i, f
  <1>8. \A j \in InUse : j # i => ctx[table[j]].fd # f
    BY <1>2 DEF FInv, FdsOwned, i, f
  <1>9. \A c \in Connecting : ctx[c].fd # f
    BY <1>2 DEF FInv, FdsOwned, i, f
  <1>10. FdsOwned'
    <2>1. \A j \in InUse' : j \in InUse /\ j # i
      BY <1>2
    <2>2. \A j \in InUse' : /\ ctx'[table'[j]].live /\ ctx'[table'[j]].fd \in Fds
                            /\ conn'[ctx'[table'[j]].fd].open
      BY <1>4, <1>8, <2>1 DEF FInv, FdsOwned
    <2>3. \A g \in Fds : conn'[g].open =>
              (\E j \in InUse' : ctx'[table'[j]].fd = g) \/ (\E c \in Connecting' : ctx'[c].fd = g)
      <3> SUFFICES ASSUME NEW g \in Fds, conn'[g].open
                   PROVE  (\E j \in InUse' : ctx'[table'[j]].fd = g) \/ (\E c \in Connecting' : ctx'[c].fd = g)
        OBVIOUS
      <3>1. g # f /\ conn[g].open
        BY <1>4
      <3>2. CASE \E c \in Connecting : ctx[c].fd = g
        BY <1>2, <3>2
      <3>3. CASE \E j \in InUse : ctx[table[j]].fd = g
        <4>1. PICK j \in InUse : ctx[table[j]].fd = g
          BY <3>3
        <4>2. j # i
          BY <3>1, <4>1 DEF i, f
        <4> QED BY <1>2, <4>1, <4>2
      <3> QED BY <3>1, <3>2, <3>3 DEF FInv, FdsOwned
    <2> QED BY <1>2, <2>1, <2>2, <2>3 DEF FInv, FdsOwned
  <1> QED BY <1>5, <1>6, <1>7, <1>10 DEF FInv

\* The receive thread goes on to the next slot.
LEMMA MovesOwned ==
  ASSUME Base, FInv, NEW r \in Receivers, UNCHANGED <<table, ctx, open>>,
         rcv[r].pc \notin {"delete", "free"}, rcv'[r].pc \notin {"delete", "free"},
         \A q \in Receivers : q # r => rcv'[q] = rcv[q],
         \A f \in Fds : conn'[f].open = conn[f].open
  PROVE  FInv'
PROOF
  <1>1. Live' /\ Distinct' /\ Outside' /\ SlotKept' /\ HasFd'
    BY DEF FInv, Live, Distinct, Outside, Preparing, SlotKept, HasFd
  <1>2. Deleting'
    BY DEF FInv, Deleting
  <1>3. InUse' = InUse /\ Connecting' = Connecting
    BY DEF InUse, BeingDeleted, Connecting
  <1>4. OwnersSame
    BY <1>3 DEF OwnersSame
  <1> QED BY <1>1, <1>2, <1>4, OwnersKeep DEF FInv, Base, Shape

\* No descriptor is open initially.
LEMMA OwnedInit == Init => FInv
BY DEF Init, FInv, Live, Distinct, Outside, Preparing, SlotKept, Deleting, HasFd, FdsOwned,
   InUse, BeingDeleted, Connecting, NoRcv, Closed

\* The slot is chosen.
LEMMA OpenSlotOwned ==
  ASSUME Base, Sequential, FInv, NEW c \in Ctxs, OpenSlot(c)
  PROVE  FInv'
PROOF
  <1>Live. Live'
    BY SockAssumption, LeastSlot DEF OpenSlot, OpenFails, Dead, FreeSlots, FInv, Live, Base,
       Shape, ShTable, ShCtx, ShConn, ShRcv, ShOpen, ShAt, RInv, Owned, CreatorSeesNone,
       OneWaiting, RestoredFirst, Sequential, Outside, Preparing
  <1>Distinct. Distinct'
    BY SockAssumption, LeastSlot DEF OpenSlot, OpenFails, Dead, FreeSlots, FInv, Distinct,
       Base, Shape, ShTable, ShCtx, ShConn, ShRcv, ShOpen, ShAt, RInv, Owned,
       CreatorSeesNone, OneWaiting, RestoredFirst, Sequential, Outside, Preparing, Live
  <1>Outside. Outside'
    BY SockAssumption, LeastSlot DEF OpenSlot, OpenFails, Dead, FreeSlots, FInv, Outside,
       Preparing, Base, Shape, ShTable, ShCtx, ShConn, ShRcv, ShOpen, ShAt, RInv, Owned,
       CreatorSeesNone, OneWaiting, RestoredFirst, Sequential, Live
  <1>0. FreeSlots # {} => Least(FreeSlots) \in Slots /\ table[Least(FreeSlots)] = NoCtx
    BY LeastSlot DEF FreeSlots
  <1>SlotKept. SlotKept'
    BY <1>0 DEF OpenSlot, OpenFails, FInv, SlotKept, Base, Shape, ShOpen
  <1>Deleting. Deleting'
    BY SockAssumption, LeastSlot DEF OpenSlot, OpenFails, Dead, FreeSlots, FInv, Deleting,
       Base, Shape, ShTable, ShCtx, ShConn, ShRcv, ShOpen, ShAt, RInv, Owned,
       CreatorSeesNone, OneWaiting, RestoredFirst, Sequential
  <1>HasFd. HasFd'
    BY SockAssumption, LeastSlot DEF OpenSlot, OpenFails, Dead, FreeSlots, FInv, HasFd,
       Base, Shape, ShTable, ShCtx, ShConn, ShRcv, ShOpen, ShAt, RInv, Owned,
       CreatorSeesNone, OneWaiting, RestoredFirst, Sequential, FdsOwned, Connecting
  <1>1. /\ UNCHANGED <<table, rcv, conn>>
        /\ \A d \in Ctxs : d # c => ctx'[d] = ctx[d] /\ open'[d] = open[d]
        /\ open[c].pc = "slot" /\ open'[c].pc \in {"socket", "fails"}
    BY DEF OpenSlot, OpenFails, Base, Shape, ShCtx, ShOpen
  <1>2. InUse' = InUse /\ Connecting' = Connecting
    BY <1>1 DEF InUse, BeingDeleted, Connecting
  <1>3. c \notin Connecting /\ \A i \in InUse : table[i] # c
    BY <1>1 DEF Connecting, InUse, FInv, Outside, Preparing
  <1>4. OwnersSame
    BY <1>1, <1>2, <1>3 DEF OwnersSame
  <1>FdsOwned. FdsOwned'
    BY <1>4, OwnersKeep DEF FInv, Base, Shape
  <1> QED
    BY <1>Live, <1>Distinct, <1>Outside, <1>SlotKept, <1>Deleting, <1>HasFd, <1>FdsOwned DEF
       FInv

\* The descriptor is opened, or sck_open gives up.
LEMMA OpenSocketOwned ==
  ASSUME Base, Sequential, FInv, NEW c \in Ctxs, OpenSocket(c)
  PROVE  FInv'
PROOF
  <1>Live. Live'
    BY SockAssumption, LeastFd DEF OpenSocket, OpenFails, Dead, Closed, FreeFds, FInv, Live,
       Base, Shape, ShTable, ShCtx, ShConn, ShRcv, ShOpen, ShAt, RInv, Owned,
       CreatorSeesNone, OneWaiting, RestoredFirst, Sequential, Outside, Preparing
  <1>Distinct. Distinct'
    BY SockAssumption, LeastFd DEF OpenSocket, OpenFails, Dead, Closed, FreeFds, FInv,
       Distinct, Base, Shape, ShTable, ShCtx, ShConn, ShRcv, ShOpen, ShAt, RInv, Owned,
       CreatorSeesNone, OneWaiting, RestoredFirst, Sequential, Outside, Preparing, Live
  <1>Outside. Outside'
    BY SockAssumption, LeastFd DEF OpenSocket, OpenFails, Dead, Closed, FreeFds, FInv,
       Outside, Preparing, Base, Shape, ShTable, ShCtx, ShConn, ShRcv, ShOpen, ShAt, RInv,
       Owned, CreatorSeesNone, OneWaiting, RestoredFirst, Sequential, Live
  <1>SlotKept. SlotKept'
    BY SockAssumption, LeastFd DEF OpenSocket, OpenFails, Dead, Closed, FreeFds, FInv,
       SlotKept, Base, Shape, ShTable, ShCtx, ShConn, ShRcv, ShOpen, ShAt, RInv, Owned,
       CreatorSeesNone, OneWaiting, RestoredFirst, Sequential
  <1>Deleting. Deleting'
    BY SockAssumption, LeastFd DEF OpenSocket, OpenFails, Dead, Closed, FreeFds, FInv,
       Deleting, Base, Shape, ShTable, ShCtx, ShConn, ShRcv, ShOpen, ShAt, RInv, Owned,
       CreatorSeesNone, OneWaiting, RestoredFirst, Sequential
  <1>0. FreeFds # {} => Least(FreeFds) \in Fds /\ ~ conn[Least(FreeFds)].open
    BY LeastFd DEF FreeFds
  <1>1. /\ UNCHANGED <<table, rcv>>
        /\ open[c].pc = "socket"
        /\ \A d \in Ctxs : d # c => ctx'[d] = ctx[d] /\ open'[d] = open[d] /\ open[d].pc = "none"
        /\ Connecting = {} /\ \A i \in InUse : table[i] # c
    BY DEF OpenSocket, OpenFails, Base, Shape, ShCtx, ShOpen, RInv, OneWaiting, Connecting,
       InUse, FInv, Outside, Preparing
  <1>2. InUse' = InUse
    BY <1>1 DEF InUse, BeingDeleted
  <1> DEFINE Got(f) == /\ ~ conn[f].open /\ conn'[f].open
                       /\ \A g \in Fds : g # f => conn'[g] = conn[g]
                       /\ open'[c].pc = "connect" /\ ctx'[c].fd = f
  <1>3. \/ /\ UNCHANGED conn /\ open'[c].pc = "fails"
        \/ \E f \in Fds : Got(f)
    <2>1. CASE OpenFails(c) /\ UNCHANGED conn
      BY <2>1 DEF OpenFails, Base, Shape, ShOpen
    <2>2. CASE ~ (OpenFails(c) /\ UNCHANGED conn)
      <3> DEFINE f == Least(FreeFds)
      <3>1. /\ FreeFds # {}
            /\ conn' = [conn EXCEPT ![f] = [Closed EXCEPT !.open = TRUE, !.type = ctx[c].type]]
            /\ ctx' = [ctx EXCEPT ![c].fd = f]
            /\ open' = [open EXCEPT ![c].pc = "connect"]
        BY <2>2 DEF OpenSocket
      <3>2. f \in Fds /\ ~ conn[f].open
        BY <1>0, <3>1
      <3> HIDE DEF f
      <3>3. conn'[f].open /\ \A g \in Fds : g # f => conn'[g] = conn[g]
        BY <3>1, <3>2 DEF Base, Shape, ShConn, Closed
      <3>4. open'[c].pc = "connect" /\ ctx'[c].fd = f
        BY <3>1 DEF Base, Shape, ShOpen, ShCtx
      <3> QED BY <3>2, <3>3, <3>4
    <2> QED BY <2>1, <2>2
  <1>HasFd. HasFd'
    BY <1>1, <1>3 DEF HasFd
  <1> HIDE DEF Got
  <1>FdsOwned. FdsOwned'
    <2>1. CASE UNCHANGED conn /\ open'[c].pc = "fails"
      <3>1. OwnersSame
        BY <1>1, <1>2, <2>1 DEF OwnersSame, Connecting
      <3> QED BY <3>1, OwnersKeep DEF FInv, Base, Shape
    <2>2. CASE \E f \in Fds : Got(f)
      <3>0. PICK f \in Fds : Got(f)
        BY <2>2
      <3>1. /\ ~ conn[f].open /\ conn'[f].open
            /\ \A g \in Fds : g # f => conn'[g] = conn[g]
            /\ open'[c].pc = "connect" /\ ctx'[c].fd = f
        BY <3>0 DEF Got
      <3>2. Connecting' = {c}
        BY <1>1, <3>1 DEF Connecting
      <3>3. \A i \in InUse : /\ table'[i] = table[i] /\ ctx'[table[i]] = ctx[table[i]]
                             /\ ctx[table[i]].live /\ ctx[table[i]].fd \in Fds
                             /\ conn[ctx[table[i]].fd].open /\ ctx[table[i]].fd # f
        BY <1>1, <3>1 DEF FInv, FdsOwned, InUse, Base, Shape, ShTable
      <3>4. \A g \in Fds : conn[g].open => \E i \in InUse : ctx[table[i]].fd = g
        BY <1>1 DEF FInv, FdsOwned
      <3>5. \A i, j \in InUse : ctx[table[i]].fd = ctx[table[j]].fd => i = j
        BY DEF FInv, FdsOwned
      <3> QED BY <1>2, <3>1, <3>2, <3>3, <3>4, <3>5 DEF FdsOwned
    <2> QED BY <1>3, <2>1, <2>2
  <1> QED
    BY <1>Live, <1>Distinct, <1>Outside, <1>SlotKept, <1>Deleting, <1>HasFd, <1>FdsOwned DEF
       FInv

\* The context takes its descriptor into the table.
LEMMA OpenConnectedOwned ==
  ASSUME Base, Sequential, FInv, NEW c \in Ctxs, OpenConnected(c)
  PROVE  FInv'
PROOF
  <1>Live. Live'
    BY SockAssumption DEF OpenConnected, FInv, Live, Base, Shape, ShTable, ShCtx, ShConn,
       ShRcv, ShOpen, ShAt, RInv, Owned, CreatorSeesNone, OneWaiting, RestoredFirst,
       Sequential, Outside, Preparing
  <1>Distinct. Distinct'
    BY SockAssumption DEF OpenConnected, FInv, Distinct, Base, Shape, ShTable, ShCtx,
       ShConn, ShRcv, ShOpen, ShAt, RInv, Owned, CreatorSeesNone, OneWaiting, RestoredFirst,
       Sequential, Outside, Preparing, Live
  <1>Outside. Outside'
    BY SockAssumption DEF OpenConnected, FInv, Outside, Preparing, Base, Shape, ShTable,
       ShCtx, ShConn, ShRcv, ShOpen, ShAt, RInv, Owned, CreatorSeesNone, OneWaiting,
       RestoredFirst, Sequential, Live
  <1>SlotKept. SlotKept'
    BY SockAssumption DEF OpenConnected, FInv, SlotKept, Base, Shape, ShTable, ShCtx,
       ShConn, ShRcv, ShOpen, ShAt, RInv, Owned, CreatorSeesNone, OneWaiting, RestoredFirst,
       Sequential
  <1>Deleting. Deleting'
    BY SockAssumption DEF OpenConnected, FInv, Deleting, Base, Shape, ShTable, ShCtx,
       ShConn, ShRcv, ShOpen, ShAt, RInv, Owned, CreatorSeesNone, OneWaiting, RestoredFirst,
       Sequential
  <1>HasFd. HasFd'
    BY SockAssumption DEF OpenConnected, FInv, HasFd, Base, Shape, ShTable, ShCtx, ShConn,
       ShRcv, ShOpen, ShAt, RInv, Owned, CreatorSeesNone, OneWaiting, RestoredFirst,
       Sequential, FdsOwned, Connecting
  <1>1. /\ UNCHANGED <<ctx, rcv>>
        /\ open[c].pc = "connect" /\ open'[c].pc = "thread"
        /\ \A d \in Ctxs : d # c => open'[d] = open[d] /\ open[d].pc = "none"
        /\ Connecting = {c} /\ Connecting' = {}
        /\ \A f \in Fds : conn'[f].open = conn[f].open
    BY DEF OpenConnected, Base, Shape, ShConn, ShOpen, RInv, OneWaiting, Connecting
  <1> DEFINE s == open[c].slot
  <1>2. s \in Slots /\ table[s] = NoCtx /\ ~ BeingDeleted(s) /\ s \notin InUse
    BY <1>1 DEF FInv, SlotKept, Deleting, BeingDeleted, InUse
  <1>3. table' = [table EXCEPT ![s] = c]
    BY DEF OpenConnected
  <1>4. table'[s] = c /\ \A i \in Slots : i # s => table'[i] = table[i]
    BY <1>2, <1>3 DEF Base, Shape, ShTable
  <1>5. InUse' = InUse \cup {s}
    BY <1>1, <1>2, <1>4, SockAssumption DEF InUse, BeingDeleted
  <1>6. ctx[c].live /\ ctx[c].fd \in Fds /\ conn[ctx[c].fd].open
    BY <1>1 DEF FInv, HasFd, Outside, Preparing
  <1>7. \A i \in InUse : i \in Slots /\ i # s
    BY <1>2 DEF InUse
  <1> HIDE DEF s
  <1>FdsOwned. FdsOwned'
    BY <1>1, <1>4, <1>5, <1>6, <1>7 DEF FInv, FdsOwned
  <1> QED
    BY <1>Live, <1>Distinct, <1>Outside, <1>SlotKept, <1>Deleting, <1>HasFd, <1>FdsOwned DEF
       FInv

\* One slot is scanned.
LEMMA RcvScanOwned ==
  ASSUME Base, Sequential, FInv, NEW r \in Receivers, RcvScan(r)
  PROVE  FInv'
PROOF
  <1>1. UNCHANGED <<table, ctx, open>> /\ rcv[r].pc = "scan" /\ rcv[r].i \in Slots
    BY DEF RcvScan
  <1>2. CASE table[rcv[r].i] # NoCtx /\ DeleteBegins(r, "scan")
    BY <1>1, <1>2, BeginsOwned
  <1>3. CASE ~ (table[rcv[r].i] # NoCtx /\ DeleteBegins(r, "scan"))
    <2>1. /\ UNCHANGED conn
          /\ rcv' = [rcv EXCEPT ![r].i = @ + 1,
                                ![r].fds = IF table[rcv[r].i] = NoCtx THEN @ ELSE @ \cup {ctx[table[rcv[r].i]].fd}]
      BY <1>3 DEF RcvScan
    <2>2. rcv'[r].pc = "scan" /\ \A q \in Receivers : q # r => rcv'[q] = rcv[q]
      BY <1>1, <2>1 DEF Base, Shape, ShRcv
    <2> QED BY <1>1, <2>1, <2>2, MovesOwned
  <1> QED BY <1>2, <1>3

\* The nodes go before the context.
LEMMA RcvDropsOwned ==
  ASSUME Base, Sequential, FInv, NEW r \in Receivers, RcvDrops(r)
  PROVE  FInv'
PROOF
  <1>1. /\ UNCHANGED <<table, conn, open>>
        /\ \A c \in Ctxs : ctx'[c].live = ctx[c].live /\ ctx'[c].fd = ctx[c].fd
    BY DEF RcvDrops, Failed, Base, Shape, ShCtx
  <1>2. /\ rcv[r].pc = "delete" /\ rcv'[r].pc = "free" /\ rcv'[r].i = rcv[r].i
        /\ \A q \in Receivers : q # r => rcv'[q] = rcv[q]
    BY DEF RcvDrops, Base, Shape, ShRcv
  <1>3. Live'
    BY <1>1 DEF FInv, Live, Base, Shape, ShTable
  <1>4. Distinct' /\ Outside' /\ SlotKept' /\ HasFd'
    BY <1>1 DEF FInv, Distinct, Outside, Preparing, SlotKept, HasFd
  <1>5. Deleting'
    BY <1>1, <1>2 DEF FInv, Deleting
  <1>6. InUse' = InUse /\ Connecting' = Connecting
    BY <1>1, <1>2 DEF InUse, BeingDeleted, Connecting
  <1>7. OwnersSame
    BY <1>1, <1>6 DEF OwnersSame
  <1> QED BY <1>3, <1>4, <1>5, <1>7, OwnersKeep DEF FInv, Base, Shape

\* The context is freed after its descriptor.
LEMMA RcvDeleteOwned ==
  ASSUME Base, Sequential, FInv, NEW r \in Receivers, RcvDelete(r)
  PROVE  FInv'
PROOF
  <1>Live. Live'
    <2> DEFINE i == rcv[r].i
    <2>1. i \in Slots /\ table[i] \in Ctxs /\ table'[i] = NoCtx
          /\ \A j \in Slots : j # i => table'[j] = table[j]
      BY DEF RcvDelete, FInv, Deleting, Base, Shape, ShTable
    <2>2. \A c \in Ctxs : c # table[i] => ctx'[c].live = ctx[c].live
      BY DEF RcvDelete, Base, Shape, ShCtx
    <2> QED BY <2>1, <2>2 DEF FInv, Live, Distinct, Base, Shape, ShTable
  <1>Distinct. Distinct'
    BY SockAssumption DEF RcvDelete, Dead, FInv, Distinct, Base, Shape, ShTable,
       ShCtx, ShConn, ShRcv, ShOpen, ShAt, RInv, Owned, CreatorSeesNone, OneWaiting,
       RestoredFirst, Sequential, Outside, Preparing, Live
  <1>Outside. Outside'
    BY SockAssumption DEF RcvDelete, Dead, FInv, Outside, Preparing, Base, Shape,
       ShTable, ShCtx, ShConn, ShRcv, ShOpen, ShAt, RInv, Owned, CreatorSeesNone,
       OneWaiting, RestoredFirst, Sequential, Live
  <1>SlotKept. SlotKept'
    BY SockAssumption DEF RcvDelete, Dead, FInv, SlotKept, Base, Shape, ShTable,
       ShCtx, ShConn, ShRcv, ShOpen, ShAt, RInv, Owned, CreatorSeesNone, OneWaiting,
       RestoredFirst, Sequential
  <1>Deleting. Deleting'
    BY SockAssumption DEF RcvDelete, Dead, FInv, Deleting, Base, Shape, ShTable,
       ShCtx, ShConn, ShRcv, ShOpen, ShAt, RInv, Owned, CreatorSeesNone, OneWaiting,
       RestoredFirst, Sequential
  <1>HasFd. HasFd'
    BY SockAssumption DEF RcvDelete, Dead, FInv, HasFd, Base, Shape, ShTable, ShCtx,
       ShConn, ShRcv, ShOpen, ShAt, RInv, Owned, CreatorSeesNone, OneWaiting, RestoredFirst,
       Sequential, FdsOwned, Connecting
  <1> DEFINE i == rcv[r].i
             d == table[i]
  <1>1. /\ i \in Slots /\ d \in Ctxs /\ UNCHANGED <<conn, open>>
        /\ rcv[r].pc = "free" /\ rcv'[r].pc \notin {"delete", "free"}
        /\ \A q \in Receivers : q # r => rcv[q].pc = "none" /\ rcv'[q] = rcv[q]
    BY DEF RcvDelete, FInv, Deleting, Base, Shape, ShTable, ShRcv, RInv, Owned
  <1>2. table'[i] = NoCtx /\ \A j \in Slots : j # i => table'[j] = table[j]
    BY <1>1 DEF RcvDelete, Base, Shape, ShTable
  <1>3. \A c \in Ctxs : c # d => ctx'[c].live = ctx[c].live /\ ctx'[c].fd = ctx[c].fd
    BY DEF RcvDelete, Base, Shape, ShCtx
  <1>4. InUse' = InUse /\ Connecting' = Connecting
    BY <1>1, <1>2 DEF InUse, BeingDeleted, Connecting
  <1>5. /\ \A j \in InUse : j \in Slots /\ j # i /\ table[j] # d
        /\ d \notin Connecting
    BY <1>1 DEF InUse, BeingDeleted, Connecting, FInv, Distinct, Outside, Preparing
  <1>6. OwnersSame
    BY <1>1, <1>2, <1>3, <1>4, <1>5 DEF OwnersSame
  <1>FdsOwned. FdsOwned'
    BY <1>6, OwnersKeep DEF FInv, Base, Shape
  <1> QED
    BY <1>Live, <1>Distinct, <1>Outside, <1>SlotKept, <1>Deleting, <1>HasFd, <1>FdsOwned DEF
       FInv

\* select returns.
LEMMA RcvSelectOwned ==
  ASSUME Base, Sequential, FInv, NEW r \in Receivers, RcvSelect(r)
  PROVE  FInv'
PROOF
  <1>1. UNCHANGED <<table, ctx, conn, open>>
    BY DEF RcvSelect
  <1>2. \A q \in Receivers : rcv[q].pc \in {"delete", "free"} <=> rcv'[q].pc \in {"delete", "free"}
    BY Selected, Zenon DEF RcvSelect, Base, Shape, ShRcv
  <1>3. \A q \in Receivers : rcv[q].pc \in {"delete", "free"} => rcv'[q] = rcv[q]
    BY Selected, Zenon DEF RcvSelect, Base, Shape, ShRcv
  <1>4. Live' /\ Distinct' /\ Outside' /\ SlotKept' /\ HasFd'
    BY <1>1 DEF FInv, Live, Distinct, Outside, Preparing, SlotKept, HasFd
  <1>5. Deleting'
    BY <1>1, <1>2, <1>3 DEF FInv, Deleting
  <1>6. InUse' = InUse /\ Connecting' = Connecting
    BY <1>1, <1>2, <1>3 DEF InUse, BeingDeleted, Connecting
  <1>7. OwnersSame
    BY <1>1, <1>6 DEF OwnersSame
  <1> QED BY <1>4, <1>5, <1>7, OwnersKeep DEF FInv, Base, Shape

\* One slot is served.
LEMMA RcvServeOwned ==
  ASSUME Base, Sequential, FInv, NEW r \in Receivers, RcvServe(r)
  PROVE  FInv'
PROOF
  <1>1. UNCHANGED <<table, ctx, open>> /\ rcv[r].pc = "serve" /\ rcv[r].i \in Slots
    BY ServeSays, Zenon
  <1>2. CASE table[rcv[r].i] # NoCtx /\ DeleteBegins(r, "serve")
    BY <1>1, <1>2, BeginsOwned
  <1>3. CASE ~ (table[rcv[r].i] # NoCtx /\ DeleteBegins(r, "serve"))
    <2>1. rcv' = [rcv EXCEPT ![r].i = @ + 1]
      BY <1>3, Zenon DEF RcvServe
    <2>2. conn' = conn \/ \E f : conn' = [conn EXCEPT ![f].data = 0]
      BY <1>3, ServeSays, Zenon
    <2>3. \A f \in Fds : conn'[f].open = conn[f].open
      BY <2>2 DEF Base, Shape, ShConn
    <2>4. rcv'[r].pc = "serve" /\ \A q \in Receivers : q # r => rcv'[q] = rcv[q]
      BY <1>1, <2>1 DEF Base, Shape, ShRcv
    <2> QED BY <1>1, <2>3, <2>4, MovesOwned, Zenon
  <1> QED BY <1>2, <1>3, Zenon

\* One socket is restored.
LEMMA RestoreSlotOwned ==
  ASSUME Base, Sequential, FInv, "host_is_ip" \in Env, RestoreSlot
  PROVE  FInv'
PROOF
  <1>1. CASE Breaks("assert")
    BY <1>1, BreaksQuiet, QuietOwned DEF Base
  <1>2. CASE UNCHANGED <<table, ctx, conn, open, rcv>>
    BY <1>2, StillOwned
  <1>3. CASE ~ (Breaks("assert") \/ UNCHANGED <<table, ctx, conn, open, rcv>>)
    <2> DEFINE id == saved[at.slot]
               f == Least(FreeFds)
    <2>1. /\ UNCHANGED <<open, rcv>>
          /\ id \in Slots /\ table[id] = NoCtx /\ FreeFds # {} /\ FreeCtxs # {}
          /\ ctx' = [ctx EXCEPT ![NewCtx] = [Fresh(id, "udp") EXCEPT
                               !.fd = f, !.state = [s \in Seqs |-> "unused"]]]
          /\ table' = [table EXCEPT ![id] = NewCtx]
          /\ conn' = [conn EXCEPT ![f] = [Closed EXCEPT !.open = TRUE, !.up = TRUE]]
      BY <1>3, ZeroId DEF RestoreSlot, Base, Shape, ShSaved
    <2>2. NewCtx \in Ctxs /\ ~ ctx[NewCtx].live
      BY <2>1 DEF NewCtx, FreeCtxs
    <2>3. f \in Fds /\ ~ conn[f].open
      BY <2>1, LeastFd DEF FreeFds
    <2> HIDE DEF id, f
    <2> DEFINE n == NewCtx
    <2>4. /\ ctx'[n].live /\ ctx'[n].fd = f /\ \A c \in Ctxs : c # n => ctx'[c] = ctx[c]
          /\ table'[id] = n /\ \A i \in Slots : i # id => table'[i] = table[i]
          /\ conn'[f].open /\ \A g \in Fds : g # f => conn'[g] = conn[g]
      BY <2>1, <2>2, <2>3 DEF Base, Shape, ShCtx, ShTable, ShConn, Fresh, Dead, Closed
    <2>5. /\ \A c \in Ctxs : open[c].pc = "none" /\ open'[c].pc = "none"
          /\ \A r \in Receivers : rcv[r].pc = "none" /\ rcv'[r].pc = "none"
      BY <2>1, SockAssumption DEF RestoreSlot, Base, RInv, RestoredFirst, Owned
    <2>6. n \in Ctxs /\ \A i \in Slots : table[i] # n
      BY <2>2, SockAssumption DEF FInv, Live
    <2> HIDE DEF n
    <2>7. Outside' /\ SlotKept' /\ Deleting' /\ HasFd'
      BY <2>5 DEF Outside, Preparing, SlotKept, Deleting, HasFd
    <2>8. Live' /\ Distinct'
      BY <2>1, <2>4, <2>6 DEF FInv, Live, Distinct, Base, Shape, ShTable
    <2>9. /\ Connecting = {} /\ Connecting' = {} /\ id \notin InUse
          /\ InUse' = InUse \cup {id}
      BY <2>1, <2>4, <2>5, <2>6, SockAssumption DEF Connecting, InUse, BeingDeleted
    <2>10. \A i \in InUse : /\ i \in Slots /\ i # id /\ table[i] \in Ctxs
                            /\ ctx'[table'[i]] = ctx[table[i]] /\ ctx[table[i]].fd # f
      BY <2>3, <2>4, <2>6, <2>9 DEF InUse, FInv, FdsOwned, Base, Shape, ShTable
    <2>11. FdsOwned'
      <3>1. \A i \in InUse : ctx[table[i]].live /\ ctx[table[i]].fd \in Fds /\ conn[ctx[table[i]].fd].open
        BY DEF FInv, FdsOwned
      <3>2. \A g \in Fds : conn[g].open => \E i \in InUse : ctx[table[i]].fd = g
        BY <2>9 DEF FInv, FdsOwned
      <3>3. \A i, j \in InUse : ctx[table[i]].fd = ctx[table[j]].fd => i = j
        BY DEF FInv, FdsOwned
      <3> QED BY <2>3, <2>4, <2>9, <2>10, <3>1, <3>2, <3>3 DEF FdsOwned
    <2> QED BY <2>7, <2>8, <2>11 DEF FInv
  <1> QED BY <1>1, <1>2, <1>3

\* The thread sck_open keeps descriptors owned.
LEMMA OpenOwned ==
  ASSUME Base, Sequential, FInv, "host_is_ip" \in Env, NEW c \in Ctxs, Open(c)
  PROVE  FInv'
PROOF
  <1>1. CASE OpenSlot(c)
    BY <1>1, OpenSlotOwned
  <1>2. CASE OpenSocket(c)
    BY <1>2, OpenSocketOwned
  <1>3. CASE OpenConnected(c)
    BY <1>3, OpenConnectedOwned
  <1>4. CASE OpenRefused(c)
    BY <1>4, SockAssumption DEF OpenRefused, OpenFails, Dead, Closed, FInv, Live, Base,
       Shape, ShTable, ShCtx, ShConn, ShRcv, ShOpen, ShAt, RInv, Owned, CreatorSeesNone,
       OneWaiting, RestoredFirst, Outside, Preparing, Distinct, SlotKept, Deleting, HasFd,
       FdsOwned, Connecting, InUse, BeingDeleted
  <1>5. CASE OpenThread(c)
    BY <1>5, SockAssumption, OwnersKeep DEF OpenThread, FInv, Live, Base, Shape, ShTable,
       ShCtx, ShConn, ShRcv, ShOpen, ShAt, RInv, Owned, CreatorSeesNone, OneWaiting,
       RestoredFirst, Outside, Preparing, Distinct, SlotKept, Deleting, HasFd, FdsOwned,
       Connecting, OwnersSame, InUse, BeingDeleted
  <1>6. CASE OpenCreate(c)
    BY <1>6, SockAssumption, StartRcvShape, OwnersKeep DEF OpenCreate, NoRcv, FInv, Live,
       Base, Shape, ShTable, ShCtx, ShConn, ShRcv, ShOpen, ShAt, RInv, Owned,
       CreatorSeesNone, OneWaiting, RestoredFirst, Outside, Preparing, Distinct, SlotKept,
       Deleting, HasFd, FdsOwned, Connecting, OwnersSame, InUse, BeingDeleted
  <1>7. CASE OpenReport(c)
    <2>1. /\ UNCHANGED <<table, conn, rcv>>
          /\ open[c].pc \in {"report", "fails"} /\ open'[c].pc = "none"
          /\ \A d \in Ctxs \ {c} : open'[d] = open[d] /\ ctx'[d] = ctx[d]
          /\ open[c].pc = "report" => ctx' = ctx
      BY <1>7 DEF OpenReport, Base, Shape, ShOpen, ShCtx
    <2>2. open[c].pc = "fails" => \A i \in Slots : table[i] # c
      BY DEF FInv, Outside, Preparing
    <2>3. Live'
      BY <2>1, <2>2 DEF FInv, Live, Base, Shape, ShTable
    <2>4. Distinct' /\ SlotKept' /\ Deleting'
      BY <2>1 DEF FInv, Distinct, SlotKept, Deleting
    <2>5. Outside' /\ HasFd'
      BY <2>1 DEF FInv, Outside, Preparing, HasFd
    <2>6. InUse' = InUse /\ Connecting' = Connecting
      BY <2>1 DEF InUse, BeingDeleted, Connecting
    <2>7. OwnersSame
      BY <2>1, <2>2, <2>6 DEF OwnersSame, InUse, Connecting
    <2> QED BY <2>3, <2>4, <2>5, <2>7, OwnersKeep DEF FInv, Base, Shape
  <1> QED
    BY <1>1, <1>2, <1>3, <1>4, <1>5, <1>6, <1>7 DEF Open

\* The receive thread keeps descriptors owned.
LEMMA ReceiveOwned ==
  ASSUME Base, Sequential, FInv, "host_is_ip" \in Env, NEW r \in Receivers, Receive(r)
  PROVE  FInv'
PROOF
  <1>1. CASE RcvStart(r)
    BY <1>1, SockAssumption, OwnersKeep DEF RcvStart, FInv, Live, Base, Shape, ShTable,
       ShCtx, ShConn, ShRcv, ShOpen, ShAt, RInv, Owned, CreatorSeesNone, OneWaiting,
       RestoredFirst, Outside, Preparing, Distinct, SlotKept, Deleting, HasFd, FdsOwned,
       Connecting, OwnersSame, InUse, BeingDeleted
  <1>2. CASE RcvScan(r)
    BY <1>2, RcvScanOwned
  <1>9. CASE RcvDrops(r)
    BY <1>9, RcvDropsOwned
  <1>3. CASE RcvDelete(r)
    BY <1>3, RcvDeleteOwned
  <1>4. CASE RcvScanned(r)
    BY <1>4, MovesOwned, Zenon DEF RcvScanned, Base, Shape, ShRcv
  <1>5. CASE RcvSelect(r)
    BY <1>5, RcvSelectOwned
  <1>6. CASE RcvServe(r)
    BY <1>6, RcvServeOwned
  <1>7. CASE RcvServed(r)
    BY <1>7, SockAssumption, OwnersKeep DEF RcvServed, Rescan, NoRcv, FInv, Live, Base,
       Shape, ShTable, ShCtx, ShConn, ShRcv, ShOpen, ShAt, RInv, Owned, CreatorSeesNone,
       OneWaiting, RestoredFirst, Outside, Preparing, Distinct, SlotKept, Deleting, HasFd,
       FdsOwned, Connecting, OwnersSame, InUse, BeingDeleted
  <1>8. CASE RcvExit(r)
    BY <1>8, SockAssumption, OwnersKeep, SMTT(20) DEF RcvExit, NoRcv, FInv, Live, Base, Shape,
       ShTable, ShCtx, ShConn, ShRcv, ShOpen, ShAt, RInv, Owned, CreatorSeesNone,
       OneWaiting, RestoredFirst, Outside, Preparing, Distinct, SlotKept, Deleting, HasFd,
       FdsOwned, Connecting, OwnersSame, InUse, BeingDeleted
  <1> QED
    BY <1>1, <1>2, <1>3, <1>4, <1>5, <1>6, <1>7, <1>8, <1>9 DEF Receive

\* Deep sleep, a reset and the restoration afterwards keep descriptors owned.
LEMMA PowerOwned ==
  ASSUME Base, Sequential, FInv, "host_is_ip" \in Env, Restore \/ DeepSleep \/ ChipReset
  PROVE  FInv'
PROOF
  <1>1. CASE Resume
    BY <1>1, SockAssumption, OwnersKeep DEF Resume, AtIdle, FInv, Live, Base, Shape,
       ShTable, ShCtx, ShConn, ShRcv, ShOpen, ShAt, RInv, Owned, CreatorSeesNone,
       OneWaiting, RestoredFirst, Outside, Preparing, Distinct, SlotKept, Deleting, HasFd,
       FdsOwned, Connecting, OwnersSame, InUse, BeingDeleted
  <1>2. CASE RestoreSlot
    BY <1>2, RestoreSlotOwned
  <1>3. CASE RestoreEnd
    BY <1>3, SockAssumption, StartRcvShape, OwnersKeep DEF RestoreEnd, NoRcv, AtIdle, FInv,
       Live, Base, Shape, ShTable, ShCtx, ShConn, ShRcv, ShOpen, ShAt, RInv, Owned,
       CreatorSeesNone, OneWaiting, RestoredFirst, Outside, Preparing, Distinct, SlotKept,
       Deleting, HasFd, FdsOwned, Connecting, OwnersSame, InUse, BeingDeleted
  <1>4. CASE DeepSleep
    BY <1>4, SockAssumption DEF DeepSleep, NoRcv, Dead, FInv, Live, Base, Shape, ShTable,
       ShCtx, ShConn, ShRcv, ShOpen, ShAt, RInv, Owned, CreatorSeesNone, OneWaiting,
       RestoredFirst, Outside, Preparing, Distinct, SlotKept, Deleting, HasFd, FdsOwned,
       Connecting, InUse, Closed
  <1>5. CASE ChipReset
    BY <1>5, SockAssumption DEF ChipReset, NoRcv, Dead, FInv, Live, Base, Shape, ShTable,
       ShCtx, ShConn, ShRcv, ShOpen, ShAt, RInv, Owned, CreatorSeesNone, OneWaiting,
       RestoredFirst, Outside, Preparing, Distinct, SlotKept, Deleting, HasFd, FdsOwned,
       Connecting, InUse, Closed
  <1> QED
    BY <1>1, <1>2, <1>3, <1>4, <1>5 DEF Restore

\* AT+QIOPEN keeps descriptors owned.
LEMMA QIOPENOwned ==
  ASSUME Base, Sequential, FInv, "host_is_ip" \in Env, NEW id \in Ids, NEW type \in Types,
         QIOPEN(id, type)
  PROVE  FInv'
PROOF
  <1> DEFINE n == NewCtx
  <1>1. /\ n \in Ctxs /\ ~ ctx[n].live /\ open[n].pc = "none"
        /\ UNCHANGED <<table, conn, rcv>>
        /\ ctx' = [ctx EXCEPT ![n] = Fresh(id, type)]
        /\ open' = [open EXCEPT ![n].pc = "slot"]
    BY DEF QIOPEN, NewCtx, FreeCtxs
  <1> HIDE DEF n
  <1>2. /\ ctx'[n].live /\ open'[n].pc = "slot"
        /\ \A c \in Ctxs \ {n} : ctx'[c] = ctx[c] /\ open'[c] = open[c]
    BY <1>1 DEF Fresh, Dead, Base, Shape, ShCtx, ShOpen
  <1>3. \A i \in Slots : table[i] # NoCtx => table[i] \in Ctxs /\ table[i] # n
    BY <1>1 DEF FInv, Live, Base, Shape, ShTable
  <1>4. Live' /\ Distinct' /\ Deleting'
    BY <1>1, <1>2, <1>3 DEF FInv, Live, Distinct, Deleting
  <1>5. Outside'
    BY <1>1, <1>2, <1>3, SockAssumption DEF FInv, Outside, Preparing
  <1>6. SlotKept' /\ HasFd'
    BY <1>1, <1>2 DEF FInv, SlotKept, HasFd
  <1>7. InUse' = InUse /\ Connecting' = Connecting
    BY <1>1, <1>2 DEF InUse, BeingDeleted, Connecting
  <1>8. OwnersSame
    BY <1>1, <1>2, <1>3, <1>7 DEF OwnersSame, InUse, Connecting
  <1>9. FdsOwned'
    BY <1>8, OwnersKeep DEF FInv, Base, Shape
  <1> QED BY <1>4, <1>5, <1>6, <1>9 DEF FInv

\* Every step keeps descriptors owned.
LEMMA OwnedStep ==
  ASSUME Base, FInv, Sequential, "host_is_ip" \in Env, [Next]_vars
  PROVE  FInv'
PROOF
  <1>1. CASE Traffic
    BY <1>1, TrafficQuiet, QuietOwned DEF Base
  <1>2. CASE UNCHANGED vars
    BY <1>2, StutterQuiet, QuietOwned DEF Base
  <1>3. CASE \E id \in Ids, type \in Types : QIOPEN(id, type)
    BY <1>3, QIOPENOwned
  <1>4. CASE \E c \in Ctxs : Open(c)
    BY <1>4, OpenOwned
  <1>5. CASE \E r \in Receivers : Receive(r)
    BY <1>5, ReceiveOwned
  <1>6. CASE Restore \/ DeepSleep \/ ChipReset
    BY <1>6, PowerOwned
  <1> QED
    BY <1>1, <1>2, <1>3, <1>4, <1>5, <1>6 DEF Next, Traffic

\* Descriptors of at_socket are neither leaked nor shared (at_socket_create, bind and
\* connect failing, del_socket_ctx_by_index), if the MCU opens one socket at a time,
\* resumes the saved ones first and a saved host is an address.
THEOREM DescriptorsOwned == Sequential /\ "host_is_ip" \in Env => (Spec => []FdsOwned)
PROOF
  <1> SUFFICES ASSUME Sequential, "host_is_ip" \in Env  PROVE Spec => []FdsOwned
    OBVIOUS
  <1>1. FInv => FdsOwned
    BY DEF FInv
  <1>2. Base /\ FInv /\ [Next]_vars => Base' /\ FInv'
    BY BaseStep, OwnedStep
  <1> QED  BY <1>1, <1>2, BaseInit, OwnedInit, PTL DEF Spec

-----------------------------------------------------------------------------
(* Types                                                                      *)

OpenPcs == {"none", "slot", "socket", "connect", "thread", "create", "report", "fails"}
RcvPcs == {"none", "start", "scan", "delete", "free", "select", "serve", "exit"}
AtPcs == {"idle", "wait", "send", "add", "mark", "restore"}
AckPcs == {"idle", "mark"}
BackPcs == {"scan", "serve"}
SomeFd == Fds \cup {NoFd}
CtxT == [live : BOOLEAN, id : Ids, type : Kinds, fd : SomeFd,
         quit : BOOLEAN, deact : BOOLEAN, state : [Seqs -> Statuses]]
ConnT == [open : BOOLEAN, type : Kinds, up : BOOLEAN, sent : 0 .. MaxSn,
          acked : 0 .. MaxSn, reset : BOOLEAN, data : 0 .. MaxData]
NodeT == [id : Ids, seq : Seqs, sn : 0 .. MaxSn, type : Kinds]
AirT == [fd : Fds, seq : Seqs]
OpenT == [pc : OpenPcs, slot : Slots]
RcvT == [pc : RcvPcs, i : 0 .. SockNum, fds : SUBSET SomeFd, rd : SUBSET Fds,
         ex : SUBSET SomeFd, back : BackPcs]
AtT == [pc : AtPcs, pass : BOOLEAN, ctx : Ctxs \cup {NoCtx}, seq : Seqs \cup {0},
        sn : 0 .. MaxSn, slot : 0 .. SockNum, fd : SomeFd]
AckT == [pc : AckPcs, slot : Slots, seq : Seqs \cup {0}, status : Statuses]

HeapOK == /\ table \in [Slots -> Ctxs \cup {NoCtx}] /\ ctx \in [Ctxs -> CtxT]
          /\ conn \in [Fds -> ConnT]
SentOK == nodes \subseteq NodeT /\ air \subseteq AirT
ThreadsOK == /\ open \in [Ctxs -> OpenT] /\ rcvId \in Receivers \cup {NoThread}
             /\ rcv \in [Receivers -> RcvT]
HandlersOK == at \in AtT /\ ack \in [Kinds -> AckT]
FlashOK == saved \in [Slots -> Ids \cup {NoId}] /\ recover \in BOOLEAN
BrokenOK == broken \in {"no", "assert", "wild"}

\* TypeOK, part by part.
LEMMA TypeParts ==
    TypeOK <=> HeapOK /\ SentOK /\ ThreadsOK /\ HandlersOK /\ FlashOK /\ BrokenOK
  BY DEF TypeOK, HeapOK, SentOK, ThreadsOK, HandlersOK, FlashOK, BrokenOK, CtxT, ConnT,
     NodeT, AirT, OpenT, RcvT, AtT, AckT, OpenPcs, RcvPcs, AtPcs, AckPcs, BackPcs, SomeFd

\* What is being deleted is a slot, and what is being sent a sequence of a
\* context.
Indices ==
    /\ \A r \in Receivers : rcv[r].pc \in {"delete", "free"} => rcv[r].i \in Slots
    /\ at.pc \in {"wait", "send", "add", "mark"} => at.ctx \in Ctxs
    /\ at.pc \in {"add", "mark"} => at.seq \in Seqs

TInv == HeapOK /\ SentOK /\ ThreadsOK /\ HandlersOK /\ FlashOK /\ BrokenOK /\ Indices

\* The ranges of the indices.
LEMMA Numbers ==
    /\ SockNum \in Nat \ {0} /\ FdNum \in Nat \ {0} /\ MaxSn \in Nat /\ MaxData \in Nat
    /\ Seqs \subseteq Nat
    /\ 0 \in Slots /\ 0 \in Ids /\ 0 \in 0 .. MaxSn /\ 0 \in 0 .. MaxData /\ 0 \in 0 .. SockNum
    /\ SockNum \in 0 .. SockNum
    /\ \A i \in Slots : i \in 0 .. SockNum /\ i + 1 \in 0 .. SockNum
    /\ \A i \in 0 .. SockNum : i \in Nat /\ (i \in Slots <=> i # SockNum)
    /\ NoFd \in SomeFd /\ Fds \subseteq SomeFd /\ NoFd \notin Fds
    /\ Ids = Slots /\ Types \subseteq Kinds
  BY SockAssumption DEF Slots, Ids, SomeFd, Fds, NoFd, Kinds

\* The names of the states.
LEMMA Words ==
    /\ "udp" \in Kinds /\ "tcp" \in Kinds
    /\ \A s \in {"unused", "failed", "success", "sending"} : s \in Statuses
    /\ \A pc \in {"none", "slot", "socket", "connect", "thread", "create", "report", "fails"} : pc \in OpenPcs
    /\ \A pc \in {"none", "start", "scan", "delete", "free", "select", "serve", "exit"} : pc \in RcvPcs
    /\ \A pc \in {"idle", "wait", "send", "add", "mark", "restore"} : pc \in AtPcs
    /\ \A pc \in {"idle", "mark"} : pc \in AckPcs
    /\ \A pc \in {"scan", "serve"} : pc \in BackPcs
  BY DEF Kinds, Statuses, OpenPcs, RcvPcs, AtPcs, AckPcs, BackPcs

\* The values that code stores as a whole.
LEMMA Values ==
    /\ Dead \in CtxT /\ Closed \in ConnT /\ NoRcv \in RcvT /\ AtIdle \in AtT /\ NoAck \in AckT
    /\ NothingSaved \in [Slots -> Ids \cup {NoId}]
    /\ \A pc \in OpenPcs, i \in Slots : [pc |-> pc, slot |-> i] \in OpenT
    /\ \A id \in Ids, t \in Kinds : Fresh(id, t) \in CtxT
  <1>1. Dead \in CtxT
    BY Numbers, Words DEF Dead, CtxT
  <1>2. Closed \in ConnT
    BY Numbers, Words DEF Closed, ConnT
  <1>3. NoRcv \in RcvT
    BY Numbers, Words DEF NoRcv, RcvT
  <1>4. AtIdle \in AtT
    BY Numbers, Words DEF AtIdle, AtT
  <1>5. NoAck \in AckT
    BY Numbers, Words DEF NoAck, AckT
  <1>6. NothingSaved \in [Slots -> Ids \cup {NoId}]
    BY DEF NothingSaved
  <1>7. \A pc \in OpenPcs, i \in Slots : [pc |-> pc, slot |-> i] \in OpenT
    BY DEF OpenT
  <1>8. \A id \in Ids, t \in Kinds : Fresh(id, t) \in CtxT
    BY <1>1 DEF Fresh, CtxT
  <1> QED  BY <1>1, <1>2, <1>3, <1>4, <1>5, <1>6, <1>7, <1>8

\* The types hold initially.
LEMMA TypeInit == Init => TInv
  <1> SUFFICES ASSUME Init  PROVE TInv
    OBVIOUS
  <1>1. HeapOK
    BY Values DEF Init, HeapOK
  <1>2. SentOK
    BY DEF Init, SentOK
  <1>3. ThreadsOK
    BY Values, Words, Numbers DEF Init, ThreadsOK
  <1>4. HandlersOK
    BY Values DEF Init, HandlersOK
  <1>5. FlashOK
    BY Values DEF Init, FlashOK
  <1>6. BrokenOK /\ Indices
    BY DEF Init, BrokenOK, Indices, NoRcv, AtIdle
  <1> QED  BY <1>1, <1>2, <1>3, <1>4, <1>5, <1>6 DEF TInv

\* One context, one descriptor or one thread changes to a value of its type.
LEMMA OneChanges ==
    ASSUME TInv
    PROVE  /\ \A c \in Ctxs, v \in CtxT : [ctx EXCEPT ![c] = v] \in [Ctxs -> CtxT]
           /\ \A f : \A v \in ConnT : [conn EXCEPT ![f] = v] \in [Fds -> ConnT]
           /\ \A c \in Ctxs, v \in OpenT : [open EXCEPT ![c] = v] \in [Ctxs -> OpenT]
           /\ \A r \in Receivers, v \in RcvT : [rcv EXCEPT ![r] = v] \in [Receivers -> RcvT]
           /\ \A i : \A v \in Ctxs \cup {NoCtx} : [table EXCEPT ![i] = v] \in [Slots -> Ctxs \cup {NoCtx}]
  BY DEF TInv, HeapOK, ThreadsOK

\* So does a thread sck_open that goes on.
LEMMA OpenGoes ==
    ASSUME TInv, NEW c \in Ctxs, NEW pc \in OpenPcs
    PROVE  [open EXCEPT ![c].pc = pc] \in [Ctxs -> OpenT]
  BY DEF TInv, ThreadsOK, OpenT

\* So does a context that gets a descriptor, or is to be closed.
LEMMA CtxChanges ==
    ASSUME TInv, NEW c \in Ctxs
    PROVE  /\ \A f \in SomeFd : [ctx EXCEPT ![c].fd = f] \in [Ctxs -> CtxT]
           /\ [ctx EXCEPT ![c].quit = TRUE] \in [Ctxs -> CtxT]
  <1>1. ctx \in [Ctxs -> CtxT]
    BY DEF TInv, HeapOK
  <1>2. \A f \in SomeFd : [ctx EXCEPT ![c].fd = f] \in [Ctxs -> CtxT]
    BY <1>1 DEF CtxT
  <1>3. [ctx EXCEPT ![c].quit = TRUE] \in [Ctxs -> CtxT]
    BY <1>1 DEF CtxT
  <1> QED  BY <1>2, <1>3

\* So does a descriptor whose connection is made.
LEMMA UpChanges ==
    ASSUME TInv, NEW f
    PROVE  [conn EXCEPT ![f].up = TRUE] \in [Fds -> ConnT]
  <1>1. conn \in [Fds -> ConnT]
    BY DEF TInv, HeapOK
  <1> QED  BY <1>1 DEF ConnT

\* A sck_open that gives up frees its context.
LEMMA OpenFailsType ==
    ASSUME TInv, NEW c \in Ctxs, OpenFails(c)
    PROVE  ctx' = ctx /\ open' \in [Ctxs -> OpenT] /\ table' = table
  BY Values, Words, Numbers, OneChanges DEF OpenFails

\* A new receive thread starts its loop; none is made to delete.
LEMMA StartRcvType ==
    ASSUME TInv, StartRcv
    PROVE  /\ rcvId' \in Receivers \cup {NoThread} /\ rcv' \in [Receivers -> RcvT]
           /\ \A q \in Receivers : rcv'[q].pc \in {"delete", "free"} => rcv'[q] = rcv[q]
  <1>1. PICK r \in Receivers : /\ rcvId' = r
                              /\ rcv' = [rcv EXCEPT ![r] = [NoRcv EXCEPT !.pc = "start"]]
    BY StartRcvShape
  <1>2. [NoRcv EXCEPT !.pc = "start"] \in RcvT /\ [NoRcv EXCEPT !.pc = "start"].pc = "start"
    BY Values, Words DEF RcvT
  <1>3. rcv' \in [Receivers -> RcvT]
    BY <1>1, <1>2, OneChanges
  <1> QED  BY <1>1, <1>2, <1>3 DEF TInv, ThreadsOK

\* QIOPEN and the thread sck_open.
LEMMA OpenType ==
    ASSUME TInv, (\E id \in Ids, t \in Types : QIOPEN(id, t)) \/ \E c \in Ctxs : Open(c)
    PROVE  TInv'
  <1>1. table \in [Slots -> Ctxs \cup {NoCtx}] /\ ctx \in [Ctxs -> CtxT] /\ conn \in [Fds -> ConnT]
        /\ open \in [Ctxs -> OpenT] /\ rcv \in [Receivers -> RcvT]
    BY DEF TInv, HeapOK, ThreadsOK
  <1>2. UNCHANGED <<nodes, air, at, ack, saved, recover, broken>>
    BY Zenon DEF QIOPEN, Open, OpenSlot, OpenSocket, OpenConnected, OpenRefused, OpenThread, OpenCreate,
       OpenReport
  <1>3. /\ HeapOK' /\ open' \in [Ctxs -> OpenT]
        /\ UNCHANGED <<rcvId, rcv>> \/ StartRcv
    <2>1. ASSUME NEW id \in Ids, NEW t \in Types, QIOPEN(id, t)
          PROVE  HeapOK' /\ open' \in [Ctxs -> OpenT] /\ UNCHANGED <<rcvId, rcv>>
      <3>1. NewCtx \in Ctxs
        BY <2>1 DEF QIOPEN, NewCtx, FreeCtxs
      <3>2. Fresh(id, t) \in CtxT
        BY Values, Numbers
      <3>3. ctx' \in [Ctxs -> CtxT]
        BY <2>1, <3>1, <3>2, OneChanges DEF QIOPEN
      <3>4. open' \in [Ctxs -> OpenT]
        BY <2>1, <3>1, OpenGoes, Words DEF QIOPEN
      <3> QED  BY <1>1, <2>1, <3>3, <3>4 DEF HeapOK, QIOPEN
    <2>2. ASSUME NEW c \in Ctxs, OpenSlot(c)
          PROVE  HeapOK' /\ open' \in [Ctxs -> OpenT] /\ UNCHANGED <<rcvId, rcv>>
      <3>1. CASE FreeSlots = {}
        BY <1>1, <2>2, <3>1, OpenFailsType DEF OpenSlot, HeapOK
      <3>2. CASE FreeSlots # {}
        <4>1. Least(FreeSlots) \in Slots
          BY <3>2, LeastSlot DEF FreeSlots
        <4> QED  BY <1>1, <2>2, <3>2, <4>1, OneChanges, Values, Words DEF OpenSlot, HeapOK
      <3> QED  BY <3>1, <3>2
    <2>3. ASSUME NEW c \in Ctxs, OpenSocket(c)
          PROVE  HeapOK' /\ open' \in [Ctxs -> OpenT] /\ UNCHANGED <<rcvId, rcv>>
      <3>1. CASE OpenFails(c) /\ UNCHANGED conn
        BY <1>1, <2>3, <3>1, OpenFailsType DEF OpenSocket, HeapOK
      <3>2. CASE ~ (OpenFails(c) /\ UNCHANGED conn)
        <4> DEFINE f == Least(FreeFds)
                   v == [Closed EXCEPT !.open = TRUE, !.type = ctx[c].type]
        <4>1. /\ f \in Fds /\ conn' = [conn EXCEPT ![f] = v]
              /\ ctx' = [ctx EXCEPT ![c].fd = f]
              /\ open' = [open EXCEPT ![c].pc = "connect"] /\ UNCHANGED <<table, rcvId, rcv>>
          BY <2>3, <3>2, LeastFd DEF OpenSocket, FreeFds
        <4>2. v \in ConnT
          BY <1>1, Values DEF ConnT, CtxT
        <4> HIDE DEF v, f
        <4>3. ctx' \in [Ctxs -> CtxT]
          BY <1>1, <4>1, Numbers, CtxChanges
        <4>4. conn' \in [Fds -> ConnT]
          BY <4>1, <4>2, OneChanges
        <4> QED  BY <1>1, <4>1, <4>3, <4>4, OpenGoes, Words DEF HeapOK
      <3> QED  BY <3>1, <3>2
    <2>4. ASSUME NEW c \in Ctxs, OpenConnected(c)
          PROVE  HeapOK' /\ open' \in [Ctxs -> OpenT] /\ UNCHANGED <<rcvId, rcv>>
      <3>1. conn' \in [Fds -> ConnT]
        BY <1>1, <2>4, UpChanges DEF OpenConnected
      <3>2. table' \in [Slots -> Ctxs \cup {NoCtx}]
        BY <2>4, OneChanges DEF OpenConnected
      <3>3. open' \in [Ctxs -> OpenT]
        BY <2>4, OneChanges, Values, Words, Numbers DEF OpenConnected
      <3> QED  BY <1>1, <2>4, <3>1, <3>2, <3>3 DEF HeapOK, OpenConnected
    <2>5. ASSUME NEW c \in Ctxs, OpenRefused(c)
          PROVE  HeapOK' /\ open' \in [Ctxs -> OpenT] /\ UNCHANGED <<rcvId, rcv>>
      <3>1. conn' \in [Fds -> ConnT]
        BY <2>5, OneChanges, Values DEF OpenRefused
      <3> QED  BY <1>1, <2>5, <3>1, OpenFailsType DEF HeapOK, OpenRefused
    <2>6. ASSUME NEW c \in Ctxs, OpenThread(c) \/ OpenCreate(c) \/ OpenReport(c)
          PROVE  /\ HeapOK' /\ open' \in [Ctxs -> OpenT]
                 /\ UNCHANGED <<rcvId, rcv>> \/ StartRcv
      <3>1. HeapOK'
        BY <1>1, <2>6, OneChanges, Values DEF HeapOK, OpenThread, OpenCreate, OpenReport
      <3>2. open' \in [Ctxs -> OpenT]
        BY <2>6, OpenGoes, OneChanges, Values, Words, Numbers DEF OpenThread, OpenCreate, OpenReport
      <3> QED  BY <2>6, <3>1, <3>2 DEF OpenThread, OpenCreate, OpenReport
    <2> QED  BY <2>1, <2>2, <2>3, <2>4, <2>5, <2>6 DEF Open
  <1>4. ThreadsOK' /\ \A q \in Receivers : rcv'[q].pc \in {"delete", "free"} => rcv'[q] = rcv[q]
    BY <1>3, StartRcvType DEF TInv, ThreadsOK
  <1> QED  BY <1>2, <1>3, <1>4 DEF TInv, SentOK, HandlersOK, FlashOK, BrokenOK, Indices

\* The receive thread begins a deletion, or goes on.
LEMMA DeleteBeginsType ==
    ASSUME TInv, NEW r \in Receivers, NEW back \in BackPcs, DeleteBegins(r, back)
    PROVE  conn' \in [Fds -> ConnT] /\ rcv' \in [Receivers -> RcvT]
  <1>1. conn' \in [Fds -> ConnT]
    BY OneChanges, Values DEF DeleteBegins
  <1>2. rcv' \in [Receivers -> RcvT]
    BY Words DEF DeleteBegins, TInv, ThreadsOK, RcvT
  <1> QED  BY <1>1, <1>2

\* The receive thread keeps the types: its scan ends at SOCK_NUM.
LEMMA ReceiveType ==
    ASSUME TInv, NEW r \in Receivers, Receive(r)
    PROVE  TInv'
  <1>1. table \in [Slots -> Ctxs \cup {NoCtx}] /\ ctx \in [Ctxs -> CtxT] /\ conn \in [Fds -> ConnT]
        /\ open \in [Ctxs -> OpenT] /\ rcv \in [Receivers -> RcvT]
        /\ rcvId \in Receivers \cup {NoThread} /\ rcv[r] \in RcvT
    BY DEF TInv, HeapOK, ThreadsOK
  <1>2. UNCHANGED <<air, open, at, ack, saved, recover>>
    BY Zenon DEF Receive, RcvStart, RcvScan, RcvDrops, RcvDelete, RcvScanned, RcvSelect, RcvServe, RcvServed,
       RcvExit
  <1>3. \A q \in Receivers \ {r} : rcv'[q] = rcv[q]
    BY <1>1, Zenon DEF Receive, RcvStart, RcvScan, RcvDrops, RcvDelete, RcvScanned, RcvSelect, RcvServe, RcvServed,
       RcvExit, DeleteBegins, Rescan
  <1>4. /\ rcv[r].i \in 0 .. SockNum /\ rcv[r].fds \subseteq SomeFd /\ rcv[r].back \in BackPcs
        /\ rcv[r].i \in Slots => rcv[r].i + 1 \in 0 .. SockNum
    BY <1>1, Numbers DEF RcvT
  <1>5. [NoRcv EXCEPT !.pc = "scan"] \in RcvT /\ [NoRcv EXCEPT !.pc = "scan"].pc = "scan"
    BY Values, Words DEF RcvT
  <1>6. /\ HeapOK' /\ nodes' \subseteq NodeT /\ broken' \in {"no", "assert", "wild"}
        /\ rcvId' \in Receivers \cup {NoThread} /\ rcv' \in [Receivers -> RcvT]
        /\ rcv'[r].pc \in {"delete", "free"} => rcv'[r].i \in Slots
    <2>0. HeapOK /\ nodes \subseteq NodeT /\ broken \in {"no", "assert", "wild"}
      BY DEF TInv, SentOK, BrokenOK
    <2>1. CASE RcvStart(r)
      <3>1. rcv' \in [Receivers -> RcvT] /\ rcv'[r].pc = "scan"
        BY <1>1, <2>1, Words DEF RcvStart, RcvT
      <3> QED  BY <1>1, <2>0, <2>1, <3>1 DEF RcvStart, HeapOK
    <2>2. CASE RcvScan(r)
      <3>1. CASE DeleteBegins(r, "scan")
        <4>1. rcv'[r].i = rcv[r].i
          BY <1>1, <3>1 DEF DeleteBegins
        <4> QED  BY <1>1, <2>0, <2>2, <3>1, <4>1, DeleteBeginsType, Words DEF RcvScan, HeapOK
      <3>2. CASE ~ DeleteBegins(r, "scan")
        <4> DEFINE c == table[rcv[r].i]
                   fds == IF c = NoCtx THEN rcv[r].fds ELSE rcv[r].fds \cup {ctx[c].fd}
        <4>1. rcv' = [rcv EXCEPT ![r].i = rcv[r].i + 1, ![r].fds = fds]
          BY <1>1, <2>2, <3>2 DEF RcvScan
        <4>2. rcv[r].i \in Slots /\ rcv[r].pc = "scan" /\ UNCHANGED <<conn, table, ctx, nodes, rcvId, broken>>
          BY <2>2, <3>2 DEF RcvScan
        <4>3. fds \subseteq SomeFd
          <5>1. c # NoCtx => c \in Ctxs
            BY <1>1, <4>2
          <5>2. c \in Ctxs => ctx[c].fd \in SomeFd
            BY <1>1 DEF CtxT
          <5> QED  BY <1>4, <5>1, <5>2
        <4> HIDE DEF fds
        <4>4. rcv' \in [Receivers -> RcvT] /\ rcv'[r].pc = "scan"
          BY <1>1, <1>4, <4>1, <4>2, <4>3 DEF RcvT
        <4> QED  BY <1>1, <2>0, <4>2, <4>4 DEF HeapOK
      <3> QED  BY <3>1, <3>2
    <2>9. CASE RcvDrops(r)
      <3> DEFINE c == table[rcv[r].i]
                 mine == {n \in nodes : n.id = ctx[c].id}
                 other == table[ctx[c].id]
      <3>1. /\ rcv[r].i \in Slots /\ UNCHANGED <<table, conn, rcvId>>
            /\ nodes' = nodes \ mine
            /\ broken' = IF mine # {} /\ other = NoCtx THEN "wild" ELSE broken
            /\ ctx' = [d \in Ctxs |-> IF d = other THEN Failed(d, mine) ELSE ctx[d]]
            /\ rcv' = [rcv EXCEPT ![r].pc = "free"]
        BY <1>1, <2>9 DEF RcvDrops, TInv, Indices
      <3> HIDE DEF c, mine, other
      <3>2. \A d \in Ctxs : Failed(d, mine) \in CtxT
        <4> SUFFICES ASSUME NEW d \in Ctxs PROVE Failed(d, mine) \in CtxT
          OBVIOUS
        <4>1. ctx[d] \in CtxT /\ ctx[d].state \in [Seqs -> Statuses] /\ "failed" \in Statuses
          BY <1>1, Words DEF CtxT
        <4> DEFINE st == [s \in Seqs |-> IF \E n \in mine : n.seq = s THEN "failed" ELSE ctx[d].state[s]]
        <4>2. st \in [Seqs -> Statuses]
          BY <4>1
        <4>3. Failed(d, mine) = [ctx[d] EXCEPT !.state = st]
          BY <4>1 DEF Failed, CtxT
        <4> HIDE DEF st
        <4> QED  BY <4>1, <4>2, <4>3 DEF CtxT
      <3>3. ctx' \in [Ctxs -> CtxT]
        BY <1>1, <3>1, <3>2
      <3>4. rcv' \in [Receivers -> RcvT] /\ rcv'[r].i \in Slots
        BY <1>1, <3>1, Words DEF RcvT
      <3> QED  BY <1>1, <2>0, <3>1, <3>3, <3>4 DEF HeapOK
    <2>3. CASE RcvDelete(r)
      <3>1. /\ rcv[r].i \in Slots /\ UNCHANGED <<conn, nodes, rcvId, broken>>
            /\ ctx' = [ctx EXCEPT ![table[rcv[r].i]] = Dead]
            /\ table' = [table EXCEPT ![rcv[r].i] = NoCtx]
            /\ rcv' = [rcv EXCEPT ![r].pc = rcv[r].back, ![r].back = "scan", ![r].i = rcv[r].i + 1]
        BY <1>1, <2>3 DEF RcvDelete, TInv, Indices
      <3>2. ctx' \in [Ctxs -> CtxT] /\ table' \in [Slots -> Ctxs \cup {NoCtx}]
        BY <1>1, <3>1, OneChanges, Values
      <3>3. rcv' \in [Receivers -> RcvT] /\ rcv'[r].pc \in BackPcs
        BY <1>1, <1>4, <3>1, Words DEF RcvT, BackPcs, RcvPcs
      <3> QED  BY <1>1, <2>0, <3>1, <3>2, <3>3 DEF HeapOK, BackPcs
    <2>4. CASE RcvScanned(r)
      <3>1. rcv' \in [Receivers -> RcvT] /\ rcv'[r].pc \notin {"delete", "free"}
        BY <1>1, <2>4, Words, Numbers, Zenon DEF RcvScanned, RcvT
      <3> QED  BY <1>1, <2>0, <2>4, <3>1 DEF RcvScanned, HeapOK
    <2>5. CASE RcvSelect(r)
      <3> DEFINE new == [NoRcv EXCEPT !.pc = "serve", !.rd = rcv[r].fds \cap Readable,
                                      !.ex = {f \in rcv[r].fds : conn[f].reset}]
      <3>1. new \in RcvT /\ new.pc = "serve"
        BY <1>4, Values, Words, Zenon DEF RcvT, Readable
      <3> HIDE DEF new
      <3>2. rcv' = rcv \/ rcv' = [rcv EXCEPT ![r] = [NoRcv EXCEPT !.pc = "scan"]]
            \/ rcv' = [rcv EXCEPT ![r] = new]
        BY <2>5 DEF RcvSelect, Rescan, new
      <3>3. rcv' \in [Receivers -> RcvT]
        BY <1>1, <1>5, <3>1, <3>2
      <3>4. rcv'[r].pc \notin {"delete", "free"}
        BY <1>1, <1>5, <2>5, <3>1, <3>2, Zenon DEF RcvSelect
      <3> QED  BY <1>1, <2>0, <2>5, <3>3, <3>4 DEF RcvSelect, HeapOK
    <2>6. CASE RcvServe(r)
      <3>1. CASE DeleteBegins(r, "serve")
        <4>1. rcv'[r].i = rcv[r].i
          BY <1>1, <3>1 DEF DeleteBegins
        <4> QED  BY <1>1, <2>0, <2>6, <3>1, <4>1, DeleteBeginsType, Words, ServeSays DEF HeapOK
      <3>2. CASE ~ DeleteBegins(r, "serve")
        <4>1. /\ rcv' = [rcv EXCEPT ![r].i = rcv[r].i + 1] /\ rcv[r].i \in Slots /\ rcv[r].pc = "serve"
              /\ UNCHANGED <<table, ctx, nodes, rcvId, broken>>
              /\ \/ conn' = conn
                 \/ \E f : conn' = [conn EXCEPT ![f].data = 0]
          BY <2>6, <3>2, ServeSays, Zenon
        <4>2. conn' \in [Fds -> ConnT]
          BY <1>1, <4>1, Numbers DEF ConnT
        <4>3. rcv' \in [Receivers -> RcvT] /\ rcv'[r].pc = "serve"
          BY <1>1, <1>4, <4>1 DEF RcvT
        <4> QED  BY <1>1, <2>0, <4>1, <4>2, <4>3, Zenon DEF HeapOK
      <3> QED  BY <3>1, <3>2
    <2>7. CASE RcvServed(r)
      <3>1. rcv' \in [Receivers -> RcvT] /\ rcv'[r].pc = "scan"
        BY <1>1, <1>5, <2>7 DEF RcvServed, Rescan
      <3> QED  BY <1>1, <2>0, <2>7, <3>1 DEF RcvServed, HeapOK
    <2>8. CASE RcvExit(r)
      <3>1. rcv' \in [Receivers -> RcvT] /\ rcv'[r].pc = "none"
        BY <1>1, <2>8, Values DEF RcvExit, NoRcv
      <3> QED  BY <1>1, <2>0, <2>8, <3>1 DEF RcvExit, HeapOK
    <2> QED  BY <2>1, <2>2, <2>3, <2>4, <2>5, <2>6, <2>7, <2>8, <2>9 DEF Receive
  <1>7. Indices'
    BY <1>2, <1>3, <1>6 DEF TInv, Indices
  <1> QED  BY <1>1, <1>2, <1>6, <1>7 DEF TInv, SentOK, ThreadsOK, HandlersOK, FlashOK, BrokenOK

\* The slot that a connect id is looked up in is one with that id.
LEMMA FirstSlot ==
    ASSUME TInv, NEW id \in Ids, SlotsOf(id) # {}
    PROVE  Least(SlotsOf(id)) \in SlotsOf(id) /\ Least(SlotsOf(id)) \in Slots
           /\ table[Least(SlotsOf(id))] \in Ctxs
  <1>1. SlotsOf(id) \in SUBSET Slots
    BY DEF SlotsOf
  <1>2. Least(SlotsOf(id)) \in SlotsOf(id)
    BY <1>1, LeastSlot
  <1> QED  BY <1>1, <1>2 DEF SlotsOf, TInv, HeapOK

\* The free sequence that is chosen is a sequence.
LEMMA FirstSeq ==
    ASSUME NEW S \in SUBSET Seqs, S # {}
    PROVE  Least(S) \in S
  <1>1. \A x \in S : x \in Nat
    BY Numbers
  <1> QED  BY <1>1, LeastIn DEF Least

\* A handler that only breaks off keeps every type.
LEMMA BreaksType ==
    ASSUME TInv, NEW how \in {"assert", "wild"}, Breaks(how)
    PROVE  TInv'
  BY DEF Breaks, TInv, HeapOK, SentOK, ThreadsOK, HandlersOK, FlashOK, BrokenOK, Indices

\* AT+QICLOSE, AT+QISEND and pass-through mode keep the types.
LEMMA CommandsType ==
    ASSUME TInv, (\E id \in Ids : QICLOSE(id) \/ \E pass \in BOOLEAN : QISEND(id, pass)) \/ PassData
    PROVE  TInv'
  <1>1. CASE \E id \in Ids : QICLOSE(id)
    <2>1. PICK id \in Ids : QICLOSE(id)
      BY <1>1
    <2>2. table[Least(SlotsOf(id))] \in Ctxs
      BY <2>1, FirstSlot DEF QICLOSE
    <2>3. ctx' \in [Ctxs -> CtxT]
      BY <2>1, <2>2, CtxChanges DEF QICLOSE
    <2> QED  BY <2>1, <2>3 DEF QICLOSE, TInv, HeapOK, SentOK, ThreadsOK, HandlersOK, FlashOK,
                               BrokenOK, Indices
  <1>2. CASE \E id \in Ids, pass \in BOOLEAN : QISEND(id, pass)
    <2>1. PICK id \in Ids, pass \in BOOLEAN : QISEND(id, pass)
      BY <1>2
    <2>2. table[Least(SlotsOf(id))] \in Ctxs
      BY <2>1, FirstSlot, Zenon DEF QISEND
    <2>3. at' \in AtT /\ at'.pc \in {"wait", "send"} /\ at'.ctx \in Ctxs
      BY <2>1, <2>2, Values, Words, Zenon DEF QISEND, AtT
    <2> QED  BY <2>1, <2>3, Zenon DEF QISEND, TInv, HeapOK, SentOK, ThreadsOK, HandlersOK, FlashOK,
                               BrokenOK, Indices
  <1>3. CASE PassData
    <2>1. at' \in AtT /\ (at' = AtIdle \/ (at'.pc = "send" /\ at'.ctx = at.ctx))
      <3>1. at \in AtT
        BY DEF TInv, HandlersOK
      <3>2. CASE at' = AtIdle
        BY <3>2, Values
      <3>3. CASE at' = [at EXCEPT !.pc = "send"]
        BY <3>1, <3>3, Words DEF AtT
      <3> QED  BY <1>3, <3>2, <3>3 DEF PassData
    <2>2. Indices'
      BY <1>3, <2>1 DEF PassData, TInv, Indices, AtIdle
    <2> QED  BY <1>3, <2>1, <2>2 DEF PassData, TInv, HeapOK, SentOK, ThreadsOK, HandlersOK, FlashOK,
                                     BrokenOK
  <1> QED  BY <1>1, <1>2, <1>3

\* bc26_socket_send_data keeps the types: a number that is sent is below MaxSn.
LEMMA SendType == ASSUME TInv, Send PROVE TInv'
  <1> DEFINE c == at.ctx
             slots == SlotsOf(ctx[c].id)
             free == {s \in Seqs : ctx[table[Least(slots)]].state[s] # "sending"}
             f == ctx[c].fd
  <1>1. c \in Ctxs /\ at \in AtT /\ ctx[c] \in CtxT /\ ctx \in [Ctxs -> CtxT] /\ conn \in [Fds -> ConnT]
    BY Zenon DEF Send, TInv, Indices, HandlersOK, HeapOK
  <1>2. UNCHANGED <<table, nodes, open, rcvId, rcv, ack, saved, recover>>
    BY Zenon DEF Send, Breaks
  <1>3. CASE Breaks("wild")
    BY <1>3, BreaksType
  <1>4. CASE SendEnds /\ UNCHANGED <<ctx, conn, air>>
    <2>1. Indices'
      BY <1>2, <1>4 DEF SendEnds, AtIdle, TInv, Indices
    <2> QED  BY <1>2, <1>4, <2>1, Values DEF SendEnds, TInv, HeapOK, SentOK, ThreadsOK, HandlersOK,
                FlashOK, BrokenOK
  <1>5. CASE /\ free # {} /\ f \in Fds /\ conn[f].open /\ ~conn[f].reset /\ conn[f].sent < MaxSn
             /\ conn' = [conn EXCEPT ![f].sent = @ + 1]
             /\ air' = IF conn[f].type = "udp" THEN air \cup {[fd |-> f, seq |-> Least(free)]} ELSE air
             /\ at' = [at EXCEPT !.pc = "add", !.seq = Least(free), !.sn = conn[f].sent]
             /\ UNCHANGED <<ctx, broken>>
    <2>1. Least(free) \in Seqs
      <3>1. free \in SUBSET Seqs
        OBVIOUS
      <3> HIDE DEF free
      <3> QED  BY <1>5, <3>1, FirstSeq
    <2> DEFINE sq == Least(free)
    <2> HIDE DEF free, f, c
    <2>2. conn[f] \in ConnT /\ conn[f].sent \in 0 .. MaxSn /\ conn[f].sent + 1 \in 0 .. MaxSn
      BY <1>1, <1>5, Numbers DEF ConnT
    <2>3. conn' \in [Fds -> ConnT]
      <3>1. [conn[f] EXCEPT !.sent = conn[f].sent + 1] \in ConnT
        BY <2>2 DEF ConnT
      <3>2. conn' = [conn EXCEPT ![f] = [conn[f] EXCEPT !.sent = conn[f].sent + 1]]
        BY <1>1, <1>5
      <3> QED  BY <1>1, <3>1, <3>2
    <2>4. air' \subseteq AirT
      BY <1>5, <2>1 DEF TInv, SentOK, AirT
    <2>5. at' \in AtT /\ at'.pc = "add" /\ at'.ctx = at.ctx /\ at'.seq \in Seqs
      BY <1>1, <1>5, <2>1, <2>2, Words DEF AtT
    <2>6. Indices'
      BY <1>1, <1>2, <2>5 DEF TInv, Indices, c
    <2> QED  BY <1>2, <1>5, <2>3, <2>4, <2>5, <2>6 DEF TInv, HeapOK, SentOK, ThreadsOK, HandlersOK,
                FlashOK, BrokenOK
  <1>6. CASE /\ free # {}
             /\ ctx' = [ctx EXCEPT ![c].state[Least(free)] = "failed"]
             /\ SendEnds
             /\ UNCHANGED <<conn, air>>
    <2> HIDE DEF free, c
    <2>1. ctx' \in [Ctxs -> CtxT]
      BY <1>1, <1>6, Words, Zenon DEF CtxT
    <2>2. Indices'
      BY <1>2, <1>6 DEF SendEnds, AtIdle, TInv, Indices
    <2> QED  BY <1>2, <1>6, <2>1, <2>2, Values DEF SendEnds, TInv, HeapOK, SentOK, ThreadsOK,
                HandlersOK, FlashOK, BrokenOK
  <1> QED  BY <1>3, <1>4, <1>5, <1>6, Zenon DEF Send

\* So do add_sninfo_node and the mark that follows it.
LEMMA AfterSendType == ASSUME TInv, SendAdd \/ SendMark PROVE TInv'
  <1>1. at \in AtT /\ at.ctx \in Ctxs /\ at.seq \in Seqs /\ ctx[at.ctx] \in CtxT
        /\ ctx \in [Ctxs -> CtxT]
    BY DEF SendAdd, SendMark, TInv, Indices, HandlersOK, HeapOK
  <1>2. CASE \E how \in {"assert", "wild"} : Breaks(how)
    BY <1>2, BreaksType
  <1>3. CASE /\ SlotsOf(ctx[at.ctx].id) # {}
             /\ nodes' = nodes \cup {[id |-> ctx[at.ctx].id, seq |-> at.seq, sn |-> at.sn,
                                     type |-> ctx[table[Least(SlotsOf(ctx[at.ctx].id))]].type]}
             /\ at' = [at EXCEPT !.pc = "mark"]
             /\ UNCHANGED <<table, ctx, conn, air, open, rcvId, rcv, ack, saved, recover, broken>>
    <2> DEFINE c == table[Least(SlotsOf(ctx[at.ctx].id))]
    <2>1. ctx[at.ctx].id \in Ids
      BY <1>1 DEF CtxT
    <2>2. c \in Ctxs
      BY <1>3, <2>1, FirstSlot
    <2> HIDE DEF c
    <2>3. ctx[c].type \in Kinds
      BY <1>1, <2>2 DEF CtxT
    <2>4. at.sn \in 0 .. MaxSn
      BY <1>1 DEF AtT
    <2>5. nodes' \subseteq NodeT
      BY <1>1, <1>3, <2>1, <2>3, <2>4 DEF TInv, SentOK, NodeT, c
    <2>6. at' \in AtT /\ at'.pc = "mark" /\ at'.ctx = at.ctx /\ at'.seq = at.seq
      BY <1>1, <1>3, Words DEF AtT
    <2>7. Indices'
      BY <1>1, <1>3, <2>6 DEF TInv, Indices
    <2> QED  BY <1>3, <2>5, <2>6, <2>7 DEF TInv, HeapOK, SentOK, ThreadsOK, HandlersOK, FlashOK, BrokenOK
  <1>4. CASE /\ ctx' = [ctx EXCEPT ![at.ctx].state[at.seq] = "sending"]
             /\ at' = AtIdle
             /\ UNCHANGED <<table, conn, nodes, air, open, rcvId, rcv, ack, saved, recover, broken>>
    <2>1. ctx' \in [Ctxs -> CtxT]
      BY <1>1, <1>4, Words DEF CtxT
    <2>2. Indices'
      BY <1>4 DEF AtIdle, TInv, Indices
    <2> QED  BY <1>4, <2>1, <2>2, Values DEF TInv, HeapOK, SentOK, ThreadsOK, HandlersOK, FlashOK,
                BrokenOK
  <1> QED  BY <1>2, <1>3, <1>4, SMTT(20) DEF SendAdd, SendMark

\* The handlers of the outcomes.
LEMMA OutcomeType ==
    ASSUME TInv, \/ \E f \in Fds, n \in 1 .. MaxSn : AckTcp(f, n)
                 \/ \E d \in air, status \in {"success", "failed"} : ConfirmUdp(d, status)
                 \/ \E t \in Kinds : AckMark(t)
    PROVE  TInv'
  <1>1. HeapOK /\ ack \in [Kinds -> AckT] /\ nodes \subseteq NodeT /\ air \subseteq AirT
    BY DEF TInv, HandlersOK, SentOK
  <1>2. ASSUME NEW f \in Fds, SlotsOfFd(f) # {}
        PROVE  Least(SlotsOfFd(f)) \in Slots
    <2>1. SlotsOfFd(f) \in SUBSET Slots
      BY DEF SlotsOfFd
    <2> QED  BY <1>2, <2>1, LeastSlot
  <1>3. CASE \E f \in Fds, n \in 1 .. MaxSn : AckTcp(f, n)
    <2>1. PICK f \in Fds, n \in 1 .. MaxSn : AckTcp(f, n)
      BY <1>3
    <2>2. conn' \in [Fds -> ConnT]
      <3>1. n \in 0 .. MaxSn
        BY Numbers
      <3> QED  BY <1>1, <2>1, <3>1 DEF AckTcp, HeapOK, ConnT
    <2>3. ack' \in [Kinds -> AckT]
      <3>1. CASE UNCHANGED ack
        BY <1>1, <3>1
      <3>2. CASE SlotsOfFd(f) # {} /\ \E m \in nodes :
                   ack' = [ack EXCEPT !["tcp"] = [pc |-> "mark", slot |-> Least(SlotsOfFd(f)),
                                                  seq |-> m.seq, status |-> "success"]]
        <4>1. PICK m \in nodes : ack' = [ack EXCEPT !["tcp"] = [pc |-> "mark", slot |-> Least(SlotsOfFd(f)),
                                                  seq |-> m.seq, status |-> "success"]]
          BY <3>2
        <4>2. m.seq \in Seqs
          BY <1>1 DEF NodeT
        <4>3. [pc |-> "mark", slot |-> Least(SlotsOfFd(f)), seq |-> m.seq, status |-> "success"] \in AckT
          BY <1>2, <3>2, <4>2, Words DEF AckT
        <4> QED  BY <1>1, <4>1, <4>3
      <3> QED  BY <2>1, <3>1, <3>2 DEF AckTcp
    <2>4. UNCHANGED <<table, ctx, nodes, air, open, rcvId, rcv, at, saved, recover, broken>>
      BY <2>1 DEF AckTcp
    <2> QED  BY <2>2, <2>3, <2>4 DEF TInv, HeapOK, SentOK, ThreadsOK, HandlersOK, FlashOK, BrokenOK,
                Indices
  <1>4. CASE \E d \in air, status \in {"success", "failed"} : ConfirmUdp(d, status)
    <2>1. PICK d \in air, status \in {"success", "failed"} : ConfirmUdp(d, status)
      BY <1>4
    <2>2. d.fd \in Fds /\ d.seq \in Seqs /\ status \in Statuses
      BY <1>1, Words DEF AirT
    <2>3. ack' \in [Kinds -> AckT]
      <3>1. CASE UNCHANGED ack
        BY <1>1, <3>1
      <3>2. CASE /\ SlotsOfFd(d.fd) # {}
                 /\ ack' = [ack EXCEPT !["udp"] = [pc |-> "mark", slot |-> Least(SlotsOfFd(d.fd)),
                                                   seq |-> d.seq, status |-> status]]
        <4>1. [pc |-> "mark", slot |-> Least(SlotsOfFd(d.fd)), seq |-> d.seq, status |-> status] \in AckT
          BY <1>2, <2>2, <3>2, Words DEF AckT
        <4> QED  BY <1>1, <3>2, <4>1
      <3> QED  BY <2>1, <3>1, <3>2 DEF ConfirmUdp
    <2>4. air' \subseteq AirT
      BY <1>1, <2>1 DEF ConfirmUdp
    <2>5. UNCHANGED <<table, ctx, conn, nodes, open, rcvId, rcv, at, saved, recover, broken>>
      BY <2>1 DEF ConfirmUdp
    <2> QED  BY <2>3, <2>4, <2>5 DEF TInv, HeapOK, SentOK, ThreadsOK, HandlersOK, FlashOK, BrokenOK,
                Indices
  <1>5. CASE \E t \in Kinds : AckMark(t)
    <2>1. PICK t \in Kinds : AckMark(t)
      BY <1>5
    <2>2. CASE Breaks("wild")
      BY <2>2, BreaksType
    <2>3. CASE ~ Breaks("wild")
      <3> DEFINE c == table[ack[t].slot]
      <3>1. /\ c # NoCtx
            /\ ctx' = [ctx EXCEPT ![c].state[ack[t].seq] = ack[t].status]
            /\ nodes' = {m \in nodes : m.id # ctx[c].id \/ m.seq # ack[t].seq}
            /\ ack' = [ack EXCEPT ![t] = NoAck]
            /\ UNCHANGED <<table, conn, air, open, rcvId, rcv, at, saved, recover, broken>>
        BY <2>1, <2>3, Zenon DEF AckMark
      <3>2. ack[t].slot \in Slots /\ ack[t].status \in Statuses
        BY <1>1 DEF AckT
      <3>3. c \in Ctxs
        BY <1>1, <3>1, <3>2 DEF HeapOK
      <3> HIDE DEF c
      <3>4. ctx' \in [Ctxs -> CtxT]
        BY <1>1, <3>1, <3>2, <3>3 DEF HeapOK, CtxT
      <3>5. ack' \in [Kinds -> AckT] /\ nodes' \subseteq NodeT
        BY <1>1, <3>1, Values
      <3> QED  BY <3>1, <3>4, <3>5 DEF TInv, HeapOK, SentOK, ThreadsOK, HandlersOK, FlashOK,
                  BrokenOK, Indices
    <2> QED  BY <2>2, <2>3
  <1> QED  BY <1>3, <1>4, <1>5

\* The network and the power.
LEMMA WorldType ==
    ASSUME TInv, (\E f \in Fds : Arrives(f) \/ Reset(f)) \/ NetDown \/ DeepSleep \/ ChipReset
    PROVE  TInv'
  <1>1. HeapOK /\ \A f \in Fds : conn[f] \in ConnT
    BY DEF TInv, HeapOK
  <1>2. CASE \E f \in Fds : Arrives(f) \/ Reset(f)
    <2>1. PICK f \in Fds : Arrives(f) \/ Reset(f)
      BY <1>2
    <2>2. conn[f].data < MaxData => conn[f].data + 1 \in 0 .. MaxData
      BY <1>1, Numbers DEF ConnT
    <2>3. conn' \in [Fds -> ConnT]
      <3>1. CASE Arrives(f)
        <4>1. [conn[f] EXCEPT !.data = conn[f].data + 1] \in ConnT
          BY <1>1, <2>2, <3>1 DEF Arrives, ConnT
        <4>2. conn' = [conn EXCEPT ![f] = [conn[f] EXCEPT !.data = conn[f].data + 1]]
          BY <1>1, <3>1 DEF Arrives, HeapOK
        <4> QED  BY <1>1, <4>1, <4>2 DEF HeapOK
      <3>2. CASE Reset(f)
        BY <1>1, <3>2 DEF Reset, ConnT, HeapOK
      <3> QED  BY <2>1, <3>1, <3>2
    <2> QED  BY <2>1, <2>3 DEF Arrives, Reset, TInv, HeapOK, SentOK, ThreadsOK, HandlersOK, FlashOK,
                BrokenOK, Indices
  <1>3. CASE NetDown
    <2>1. ctx' \in [Ctxs -> CtxT]
      <3>1. ASSUME NEW c \in Ctxs, NEW b \in BOOLEAN
            PROVE  [ctx[c] EXCEPT !.deact = b] \in CtxT
        BY <1>1 DEF HeapOK, CtxT
      <3>2. ctx' = [c \in Ctxs |-> [ctx[c] EXCEPT !.deact =
                                      ctx[c].deact \/ \E i \in Slots : table[i] = c]]
        BY <1>3 DEF NetDown
      <3>3. \A c \in Ctxs : (ctx[c].deact \/ \E i \in Slots : table[i] = c) \in BOOLEAN
        OBVIOUS
      <3> QED  BY <3>1, <3>2, <3>3
    <2> QED  BY <1>3, <2>1 DEF NetDown, TInv, HeapOK, SentOK, ThreadsOK, HandlersOK, FlashOK,
                BrokenOK, Indices
  <1>4. CASE DeepSleep
    <2>1. HeapOK' /\ air' = {} /\ rcvId' = NoThread /\ rcv' = [r \in Receivers |-> NoRcv]
      BY <1>4, Values DEF DeepSleep, HeapOK
    <2>2. FlashOK'
      <3>1. CASE UNCHANGED <<saved, recover>>
        BY <3>1 DEF TInv, FlashOK
      <3>2. CASE /\ saved' = [i \in Slots |-> IF table[i] # NoCtx /\ ctx[table[i]].type = "udp"
                                                THEN ctx[table[i]].id ELSE NoId]
                 /\ recover' = TRUE
        <4>1. \A i \in Slots : table[i] # NoCtx => ctx[table[i]].id \in Ids
          BY <1>1 DEF HeapOK, CtxT
        <4> QED  BY <3>2, <4>1 DEF FlashOK
      <3> QED  BY <1>4, <3>1, <3>2 DEF DeepSleep
    <2>3. Indices'
      BY <1>4, <2>1 DEF DeepSleep, TInv, Indices, NoRcv
    <2> QED  BY <1>4, <2>1, <2>2, <2>3, Values DEF DeepSleep, TInv, SentOK, ThreadsOK, HandlersOK, BrokenOK
  <1>5. CASE ChipReset
    <2>1. HeapOK'
      BY <1>5, Values DEF ChipReset, HeapOK
    <2>2. ThreadsOK'
      BY <1>5, Values, Words, Numbers DEF ChipReset, ThreadsOK
    <2>3. Indices' /\ HandlersOK'
      BY <1>5, Values DEF ChipReset, Indices, HandlersOK, NoRcv, AtIdle
    <2> QED  BY <1>5, <2>1, <2>2, <2>3 DEF ChipReset, TInv, SentOK, FlashOK, BrokenOK
  <1> QED  BY <1>2, <1>3, <1>4, <1>5

\* The saved sockets are made again.
LEMMA RestoreSlotType ==
    ASSUME TInv, RestoreSlot
    PROVE  TInv'
  <1> DEFINE id == saved[at.slot]
             made == [Fresh(id, "udp") EXCEPT !.fd = Least(FreeFds), !.state = [s \in Seqs |-> "unused"]]
             up == [Closed EXCEPT !.open = TRUE, !.up = TRUE]
  <1>1. at \in AtT /\ at.slot \in Slots /\ at.slot + 1 \in 0 .. SockNum /\ id \in Ids \cup {NoId}
    BY Numbers DEF RestoreSlot, TInv, HandlersOK, FlashOK
  <1>2. HeapOK
    BY DEF TInv
  <1>3. UNCHANGED <<nodes, air, open, rcvId, rcv, ack, saved, recover>>
    BY DEF RestoreSlot, Breaks
  <1>4. ASSUME NEW f \in SomeFd, at' = [at EXCEPT !.slot = @ + 1, !.fd = f] \/ at' = [at EXCEPT !.slot = @ + 1]
        PROVE  HandlersOK' /\ Indices'
    <2>1. at' \in AtT /\ at'.pc = at.pc
      BY <1>1, <1>4 DEF AtT
    <2>2. at.pc = "restore"
      BY DEF RestoreSlot
    <2> QED  BY <1>3, <2>1, <2>2 DEF TInv, HandlersOK, Indices
  <1>5. CASE Breaks("assert")
    BY <1>5, BreaksType
  <1>6. CASE UNCHANGED broken /\ at' = [at EXCEPT !.slot = @ + 1] /\ UNCHANGED <<table, ctx>>
             /\ (conn' = conn \/ conn' = [conn EXCEPT ![at.fd] = Closed])
    <2>1. HeapOK'
      BY <1>2, <1>6, OneChanges, Values DEF HeapOK
    <2>2. HandlersOK' /\ Indices'
      BY <1>4, <1>6, Numbers
    <2> QED  BY <1>3, <1>6, <2>1, <2>2 DEF TInv, SentOK, ThreadsOK, FlashOK, BrokenOK
  <1>7. CASE UNCHANGED <<table, ctx, conn, broken>> /\ FreeFds # {}
             /\ at' = [at EXCEPT !.slot = @ + 1, !.fd = Least(FreeFds)]
    <2>1. Least(FreeFds) \in SomeFd
      BY <1>7, LeastFd, Numbers DEF FreeFds
    <2>2. HandlersOK' /\ Indices'
      BY <1>4, <1>7, <2>1, Zenon
    <2> QED  BY <1>2, <1>3, <1>7, <2>2 DEF TInv, HeapOK, SentOK, ThreadsOK, FlashOK, BrokenOK
  <1>8. CASE /\ FreeFds # {} /\ FreeCtxs # {} /\ id # NoId
             /\ ctx' = [ctx EXCEPT ![NewCtx] = made]
             /\ table' = [table EXCEPT ![id] = NewCtx]
             /\ conn' = [conn EXCEPT ![Least(FreeFds)] = up]
             /\ at' = [at EXCEPT !.slot = @ + 1, !.fd = Least(FreeFds)]
             /\ UNCHANGED broken
    <2>1. Least(FreeFds) \in SomeFd /\ NewCtx \in Ctxs /\ id \in Ids
      BY <1>1, <1>8, LeastFd, Numbers DEF FreeFds, NewCtx, FreeCtxs
    <2>2. HandlersOK' /\ Indices'
      BY <1>4, <1>8, <2>1, Zenon
    <2>3. made \in CtxT
      <3>1. [s \in Seqs |-> "unused"] \in [Seqs -> Statuses]
        BY Words
      <3> DEFINE st == [s \in Seqs |-> "unused"]
      <3> HIDE DEF st, id
      <3> QED  BY <2>1, <3>1, Values, Words DEF CtxT, st
    <2>4. up \in ConnT
      BY Values DEF ConnT
    <2> HIDE DEF made, up, id
    <2>5. HeapOK'
      BY <1>8, <2>1, <2>3, <2>4, OneChanges DEF HeapOK
    <2> QED  BY <1>3, <1>8, <2>2, <2>5 DEF TInv, SentOK, ThreadsOK, FlashOK, BrokenOK
  <1> QED  BY <1>5, <1>6, <1>7, <1>8 DEF RestoreSlot

\* resume_net_app keeps the types.
LEMMA RestoreType ==
    ASSUME TInv, Restore
    PROVE  TInv'
  <1>1. CASE Resume
    <2>1. FlashOK'
      BY <1>1, Values DEF Resume, TInv, FlashOK
    <2>2. at' \in AtT /\ (at' = at \/ at'.pc = "restore")
      <3>1. [AtIdle EXCEPT !.pc = "restore"] \in AtT /\ [AtIdle EXCEPT !.pc = "restore"].pc = "restore"
        BY Values, Words DEF AtT
      <3>2. at' = at \/ at' = [AtIdle EXCEPT !.pc = "restore"]
        BY <1>1 DEF Resume
      <3> QED  BY <3>1, <3>2 DEF TInv, HandlersOK
    <2>3. HandlersOK' /\ Indices'
      BY <1>1, <2>2 DEF Resume, TInv, HandlersOK, Indices
    <2> QED  BY <1>1, <2>1, <2>3 DEF Resume, TInv, HeapOK, SentOK, ThreadsOK, BrokenOK
  <1>2. CASE RestoreSlot
    BY <1>2, RestoreSlotType
  <1>3. CASE RestoreEnd
    <2>1. ThreadsOK' /\ \A q \in Receivers : rcv'[q].pc \in {"delete", "free"} => rcv'[q] = rcv[q]
      BY <1>3, StartRcvType DEF RestoreEnd, TInv, ThreadsOK
    <2>2. FlashOK' /\ HandlersOK' /\ Indices'
      BY <1>3, <2>1, Values DEF RestoreEnd, TInv, FlashOK, HandlersOK, Indices, AtIdle
    <2> QED  BY <1>3, <2>1, <2>2 DEF RestoreEnd, TInv, HeapOK, SentOK, BrokenOK
  <1> QED  BY <1>1, <1>2, <1>3 DEF Restore

\* Every step keeps the types.
LEMMA TypeStep ==
    ASSUME TInv, [Next]_vars
    PROVE  TInv'
  <1>1. CASE UNCHANGED vars
    BY <1>1 DEF vars, TInv, HeapOK, SentOK, ThreadsOK, HandlersOK, FlashOK, BrokenOK, Indices
  <1>2. CASE Next
    BY <1>2, OpenType, ReceiveType, CommandsType, SendType, AfterSendType, OutcomeType, WorldType,
       RestoreType DEF Next, Sending
  <1> QED  BY <1>1, <1>2

\* Whatever the MCU, the network and the power do, every context, descriptor,
\* thread and handler stays in its range; so does what sock_ctx and
\* sn_info hold after a restore from flash or a reset of the chip.
THEOREM TypeCorrect == Spec => []TypeOK
  <1>1. Init => TInv
    BY TypeInit
  <1>2. TInv /\ [Next]_vars => TInv'
    BY TypeStep
  <1>3. TInv => TypeOK
    BY TypeParts DEF TInv
  <1> QED  BY <1>1, <1>2, <1>3, PTL DEF Spec

-----------------------------------------------------------------------------
(* Connected sockets                                                          *)

(* A connection is open, and made once; the exceptions that select returned   *)
(* are of sockets that the peer has reset, for no other takes a descriptor    *)
(* while the receive thread is still at its round.                            *)
UpIsOpen == \A f \in Fds : conn[f].up => conn[f].open
NotYetUp == \A c \in Ctxs : open[c].pc = "connect" => ~conn[ctx[c].fd].up
Serving(r) == rcv[r].pc = "serve" \/ (rcv[r].pc \in {"delete", "free"} /\ rcv[r].back = "serve")
ExReset ==
    \A r \in Receivers, f \in Fds :
        Serving(r) /\ f \in rcv[r].ex /\ conn[f].up => conn[f].reset

UInv == UpIsOpen /\ NotYetUp /\ ExReset
Known == Base /\ FInv /\ TInv /\ UInv

\* Connections stay as they are: data comes, is sent or acknowledged, or the
\* peer resets one.
ConnectionsStay ==
    \A f \in Fds : /\ conn'[f].open = conn[f].open /\ conn'[f].up = conn[f].up
                   /\ conn[f].reset => conn'[f].reset

\* Then what is known of them stays, if no thread begins to connect or serve.
LEMMA ConnectionsKeep ==
    ASSUME Known, ConnectionsStay,
           \A c \in Ctxs : open'[c].pc = "connect" => open[c].pc = "connect" /\ ctx'[c].fd = ctx[c].fd,
           \A r \in Receivers : Serving(r)' => Serving(r) /\ rcv'[r].ex = rcv[r].ex
    PROVE  UInv'
  <1>1. UpIsOpen'
    BY DEF Known, UInv, UpIsOpen, ConnectionsStay
  <1>2. NotYetUp'
    BY DEF Known, UInv, NotYetUp, ConnectionsStay, FInv, HasFd
  <1>3. ExReset'
    BY DEF Known, UInv, ExReset, ConnectionsStay
  <1> QED  BY <1>1, <1>2, <1>3 DEF UInv

\* Traffic leaves the connections as they are.
LEMMA TrafficConnections ==
    ASSUME Known, Traffic
    PROVE  ConnectionsStay /\ Quiet
  <1>1. Quiet
    BY TrafficQuiet DEF Known, Base
  <1>2. conn \in [Fds -> ConnT]
    BY DEF Known, TInv, HeapOK
  <1>3. \/ conn' = conn
        \/ \E f \in Fds : \/ conn' = [conn EXCEPT ![f].sent = conn[f].sent + 1]
                          \/ conn' = [conn EXCEPT ![f].data = conn[f].data + 1]
                          \/ conn' = [conn EXCEPT ![f].reset = TRUE]
                          \/ \E n : conn' = [conn EXCEPT ![f].acked = n]
    <2>1. CASE PassData \/ SendAdd \/ SendMark \/ NetDown
      BY <2>1 DEF PassData, SendAdd, SendMark, NetDown, Breaks
    <2>2. CASE \E id \in Ids : QICLOSE(id) \/ \E pass \in BOOLEAN : QISEND(id, pass)
      BY <2>2, Zenon DEF QICLOSE, QISEND
    <2>3. CASE Send
      BY <2>3, Zenon DEF Send, Breaks
    <2>4. CASE \E f \in Fds, n \in 1 .. MaxSn : AckTcp(f, n)
      BY <2>4 DEF AckTcp
    <2>5. CASE \E d \in air, status \in {"success", "failed"} : ConfirmUdp(d, status)
      BY <2>5 DEF ConfirmUdp
    <2>6. CASE \E t \in Kinds : AckMark(t)
      BY <2>6 DEF AckMark, Breaks
    <2>7. CASE \E f \in Fds : Arrives(f) \/ Reset(f)
      BY <2>7 DEF Arrives, Reset
    <2> QED  BY <2>1, <2>2, <2>3, <2>4, <2>5, <2>6, <2>7 DEF Traffic, Sending
  <1>4. ConnectionsStay
    BY <1>2, <1>3 DEF ConnectionsStay, ConnT
  <1> QED  BY <1>1, <1>4

\* Opening a socket: its descriptor is free before, and connected only when
\* the receive thread is at rest.
LEMMA OpenConnections ==
    ASSUME Known, Sequential, "slow_net" \in Env, NEW c \in Ctxs, Open(c)
    PROVE  UInv'
  <1>1. /\ conn \in [Fds -> ConnT] /\ ctx \in [Ctxs -> CtxT] /\ open \in [Ctxs -> OpenT]
        /\ rcv \in [Receivers -> RcvT]
    BY DEF Known, TInv, HeapOK, ThreadsOK
  <1>2. ConnectionsStay \/ conn' # conn
    BY DEF ConnectionsStay
  <1>3. ASSUME NEW d \in Ctxs, d # c
        PROVE  open'[d] = open[d] /\ open[d].pc = "none"
    <2>1. open[c].pc # "none"
      BY DEF Open, OpenSlot, OpenSocket, OpenConnected, OpenRefused, OpenThread, OpenCreate, OpenReport
    <2>2. open[d].pc = "none"
      BY <1>3, <2>1 DEF Known, Base, RInv, OneWaiting
    <2>3. open'[d] = open[d]
      BY <1>1, <1>3 DEF Open, OpenSlot, OpenSocket, OpenConnected, OpenRefused, OpenThread,
         OpenCreate, OpenReport, OpenFails
    <2> QED  BY <2>2, <2>3
  <1>4. \A r \in Receivers : Serving(r)' => Serving(r) /\ rcv'[r].ex = rcv[r].ex
    <2>1. CASE rcv' = rcv
      BY <2>1 DEF Serving
    <2>2. CASE rcv' # rcv
      <3>1. StartRcv
        BY <2>2 DEF Open, OpenSlot, OpenSocket, OpenConnected, OpenRefused, OpenThread,
           OpenCreate, OpenReport
      <3>2. PICK q \in Receivers : rcv' = [rcv EXCEPT ![q] = [NoRcv EXCEPT !.pc = "start"]]
        BY <3>1, StartRcvShape
      <3> QED  BY <1>1, <3>2 DEF Serving, NoRcv
    <2> QED  BY <2>1, <2>2
  <1>5. CASE OpenSocket(c) /\ conn' # conn
    <2> DEFINE f == Least(FreeFds)
    <2>1. /\ f \in FreeFds
          /\ conn' = [conn EXCEPT ![f] = [Closed EXCEPT !.open = TRUE, !.type = ctx[c].type]]
          /\ ctx' = [ctx EXCEPT ![c].fd = f] /\ rcv' = rcv
      BY <1>5, LeastFd DEF OpenSocket, FreeFds
    <2>2. f \in Fds
      BY <2>1 DEF FreeFds
    <2> HIDE DEF f
    <2>3. conn'[f].open /\ ~conn'[f].up /\ \A g \in Fds \ {f} : conn'[g] = conn[g]
      BY <1>1, <2>1, <2>2 DEF Closed
    <2>4. ctx'[c].fd = f
      BY <1>1, <2>1 DEF CtxT
    <2>5. UpIsOpen' /\ ExReset'
      BY <2>1, <2>3 DEF Known, UInv, UpIsOpen, ExReset, Serving
    <2>6. NotYetUp'
      BY <1>3, <2>3, <2>4 DEF NotYetUp
    <2> QED  BY <2>5, <2>6 DEF UInv
  <1>6. CASE OpenConnected(c)
    <2> DEFINE f == ctx[c].fd
    <2>1. /\ f \in Fds /\ conn[f].open
      BY <1>6 DEF OpenConnected, Known, FInv, HasFd
    <2> HIDE DEF f
    <2>2. conn' = [conn EXCEPT ![f].up = TRUE] /\ rcv' = rcv /\ RcvAtRest /\ open'[c].pc # "connect"
      BY <1>1, <1>6 DEF OpenConnected, Slow, f
    <2>3. conn'[f].open /\ \A g \in Fds \ {f} : conn'[g] = conn[g]
      BY <1>1, <2>1, <2>2 DEF ConnT
    <2>4. UpIsOpen'
      BY <2>3 DEF Known, UInv, UpIsOpen
    <2>5. NotYetUp'
      BY <1>3, <2>2 DEF NotYetUp
    <2>6. ExReset'
      BY <2>2 DEF ExReset, Serving, RcvAtRest
    <2> QED  BY <2>4, <2>5, <2>6 DEF UInv
  <1>7. CASE OpenRefused(c)
    <2>1. conn' = [conn EXCEPT ![ctx[c].fd] = Closed] /\ rcv' = rcv /\ open'[c].pc # "connect"
      BY <1>1, <1>7 DEF OpenRefused, OpenFails
    <2>2. \A f \in Fds : conn'[f] = conn[f] \/ ~conn'[f].up
      BY <1>1, <2>1 DEF Closed
    <2>3. UpIsOpen' /\ ExReset'
      BY <2>1, <2>2 DEF Known, UInv, UpIsOpen, ExReset, Serving
    <2>4. NotYetUp'
      BY <1>3, <2>1 DEF NotYetUp
    <2> QED  BY <2>3, <2>4 DEF UInv
  <1>8. CASE conn' = conn
    <2>1. open'[c].pc # "connect"
      <3>1. CASE OpenSocket(c)
        <4>1. OpenFails(c)
          <5>1. SUFFICES ASSUME ~OpenFails(c) PROVE conn' # conn
            BY <1>8
          <5>2. /\ Least(FreeFds) \in FreeFds
                /\ conn' = [conn EXCEPT ![Least(FreeFds)] = [Closed EXCEPT !.open = TRUE, !.type = ctx[c].type]]
            BY <3>1, <5>1, LeastFd DEF OpenSocket, FreeFds
          <5>3. Least(FreeFds) \in Fds /\ ~conn[Least(FreeFds)].open /\ conn'[Least(FreeFds)].open
            BY <1>1, <5>2 DEF FreeFds, Closed
          <5> QED  BY <5>3
        <4> QED  BY <1>1, <4>1 DEF OpenFails
      <3>2. CASE ~OpenSocket(c)
        BY <1>1, <3>2 DEF Open, OpenSlot, OpenConnected, OpenRefused, OpenThread, OpenCreate,
           OpenReport, OpenFails, OpenT
      <3> QED  BY <3>1, <3>2
    <2> QED  BY <1>2, <1>3, <1>4, <1>8, <2>1, ConnectionsKeep
  <1> QED
    BY <1>5, <1>6, <1>7, <1>8 DEF Open, OpenSlot, OpenSocket, OpenThread, OpenCreate, OpenReport

\* The receive thread closes descriptors, and selects those that are reset.
LEMMA ReceiveConnections ==
    ASSUME Known, NEW r \in Receivers, Receive(r)
    PROVE  UInv'
  <1>1. conn \in [Fds -> ConnT] /\ rcv \in [Receivers -> RcvT]
    BY DEF Known, TInv, HeapOK, ThreadsOK
  <1>2. open' = open /\ \A q \in Receivers \ {r} : rcv'[q] = rcv[q]
    BY <1>1, Zenon DEF Receive, RcvStart, RcvScan, RcvDrops, RcvDelete, RcvScanned, RcvSelect, RcvServe, RcvServed,
       RcvExit, DeleteBegins, Rescan
  <1>3. \A f \in Fds : \/ ~conn'[f].up
                       \/ /\ conn'[f].open = conn[f].open /\ conn'[f].up = conn[f].up
                          /\ conn'[f].reset = conn[f].reset
    <2>1. CASE UNCHANGED conn
      BY <2>1
    <2>2. CASE \E back : DeleteBegins(r, back)
      <3>1. PICK f : conn' = [conn EXCEPT ![f] = Closed]
        BY <2>2 DEF DeleteBegins
      <3> QED  BY <1>1, <3>1 DEF Closed
    <2>3. CASE \E f : conn' = [conn EXCEPT ![f].data = 0]
      BY <1>1, <2>3 DEF ConnT
    <2> QED
      BY <2>1, <2>2, <2>3, Zenon DEF Receive, RcvStart, RcvScan, RcvDrops, RcvDelete, RcvScanned, RcvSelect,
         RcvServe, RcvServed, RcvExit
  <1>4. UpIsOpen'
    BY <1>3 DEF Known, UInv, UpIsOpen
  <1>5. NotYetUp'
    <2>1. \A c \in Ctxs : open[c].pc = "connect" => ctx'[c].fd = ctx[c].fd
      <3>1. CASE ctx' = ctx
        BY <3>1
      <3>2. CASE ctx' # ctx
        <4>1. RcvDrops(r) \/ RcvDelete(r)
          BY <3>2, Zenon DEF Receive, RcvStart, RcvScan, RcvScanned, RcvSelect, RcvServe, RcvServed, RcvExit
        <4>2. SUFFICES ASSUME NEW c \in Ctxs, open[c].pc = "connect"
              PROVE ctx'[c].fd = ctx[c].fd
          OBVIOUS
        <4>3. RcvDelete(r) => c # table[rcv[r].i]
          BY <4>2 DEF RcvDelete, Known, FInv, Outside, Preparing, Deleting
        <4>4. ctx \in [Ctxs -> CtxT]
          BY DEF Known, TInv, HeapOK
        <4>5. CASE RcvDrops(r)
          <5>1. \A d \in Ctxs : \A mine : Failed(d, mine).fd = ctx[d].fd
            BY <4>4 DEF Failed, CtxT
          <5>2. PICK other, mine :
                  ctx' = [d \in Ctxs |-> IF d = other THEN Failed(d, mine) ELSE ctx[d]]
            BY <4>5, Zenon DEF RcvDrops
          <5> QED  BY <5>1, <5>2
        <4>6. CASE RcvDelete(r)
          BY <4>2, <4>3, <4>4, <4>6 DEF RcvDelete, CtxT
        <4> QED  BY <4>1, <4>5, <4>6
      <3> QED  BY <3>1, <3>2
    <2> QED  BY <1>2, <1>3, <2>1 DEF Known, UInv, NotYetUp, FInv, HasFd
  <1>6. Serving(r)' => \/ Serving(r) /\ rcv'[r].ex = rcv[r].ex
                       \/ conn' = conn /\ \A f \in rcv'[r].ex : conn[f].reset
    <2>1. CASE RcvStart(r) \/ RcvScanned(r) \/ RcvServed(r) \/ RcvExit(r)
      BY <1>1, <2>1 DEF RcvStart, RcvScanned, RcvServed, RcvExit, Rescan, NoRcv, Serving, RcvT
    <2>2. CASE RcvScan(r)
      BY <1>1, <2>2 DEF RcvScan, DeleteBegins, Serving, RcvT
    <2>3. CASE RcvDrops(r) \/ RcvDelete(r)
      BY <1>1, <2>3 DEF RcvDrops, RcvDelete, Serving, RcvT, BackPcs
    <2>4. CASE RcvServe(r)
      <3>1. /\ rcv[r].pc = "serve"
            /\ \/ rcv' = [rcv EXCEPT ![r].i = rcv[r].i + 1]
               \/ rcv' = [rcv EXCEPT ![r].pc = "delete", ![r].back = "serve"]
        BY <2>4, Zenon DEF RcvServe, DeleteBegins
      <3> QED  BY <1>1, <3>1 DEF Serving, RcvT
    <2>5. CASE RcvSelect(r)
      <3>1. CASE UNCHANGED rcv
        BY <2>5, <3>1 DEF RcvSelect, Serving
      <3>2. CASE Rescan(r)
        BY <1>1, <3>2 DEF Rescan, NoRcv, Serving
      <3>3. CASE rcv' = [rcv EXCEPT ![r] = [NoRcv EXCEPT !.pc = "serve",
                           !.rd = rcv[r].fds \cap Readable, !.ex = {f \in rcv[r].fds : conn[f].reset}]]
        <4> DEFINE rd == rcv[r].fds \cap Readable
                   ex == {f \in rcv[r].fds : conn[f].reset}
        <4>1. \A f \in ex : conn[f].reset
          OBVIOUS
        <4>2. rcv' = [rcv EXCEPT ![r] = [NoRcv EXCEPT !.pc = "serve", !.rd = rd, !.ex = ex]]
          BY <3>3
        <4> HIDE DEF rd, ex
        <4> QED  BY <1>1, <2>5, <4>1, <4>2 DEF NoRcv, RcvSelect
      <3> QED  BY <2>5, <3>1, <3>2, <3>3 DEF RcvSelect
    <2> QED  BY <2>1, <2>2, <2>3, <2>4, <2>5 DEF Receive
  <1>7. ExReset'
    <2>1. \A q \in Receivers :
            Serving(q)' => \/ Serving(q) /\ rcv'[q].ex = rcv[q].ex
                           \/ conn' = conn /\ \A f \in rcv'[q].ex : conn[f].reset
      BY <1>2, <1>6 DEF Serving
    <2> QED  BY <1>3, <2>1 DEF Known, UInv, ExReset
  <1> QED  BY <1>4, <1>5, <1>7 DEF UInv

\* While the saved sockets are made again, no receive thread and no sck_open
\* is there.
LEMMA RestoreAlone ==
    ASSUME Known, at.pc = "restore"
    PROVE  /\ \A c \in Ctxs : open[c].pc = "none"
           /\ \A r \in Receivers : rcv[r].pc = "none"
           /\ rcvId = NoThread /\ recover
  BY SockAssumption DEF Known, Base, RInv, RestoredFirst, Owned

\* Deep sleep, a reset and the restoration.
LEMMA PowerConnections ==
    ASSUME Known, "host_is_ip" \in Env, Restore \/ DeepSleep \/ ChipReset
    PROVE  UInv'
  <1>1. conn \in [Fds -> ConnT] /\ rcv \in [Receivers -> RcvT]
    BY DEF Known, TInv, HeapOK, ThreadsOK
  <1>2. CASE Resume
    BY <1>2, ConnectionsKeep DEF Resume, ConnectionsStay, Serving
  <1>3. CASE RestoreSlot
    <2>1. /\ UNCHANGED <<open, rcv>>
          /\ \A c \in Ctxs : open[c].pc # "connect"
          /\ \A r \in Receivers : rcv[r].pc = "none"
      BY <1>3, RestoreAlone DEF RestoreSlot, Breaks
    <2>2. NotYetUp' /\ ExReset'
      BY <2>1 DEF NotYetUp, ExReset, Serving
    <2>3. \/ conn' = conn
          \/ \E f : conn' = [conn EXCEPT ![f] = [Closed EXCEPT !.open = TRUE, !.up = TRUE]]
      BY <1>3 DEF RestoreSlot, Breaks
    <2>4. UpIsOpen'
      BY <1>1, <2>3 DEF Known, UInv, UpIsOpen, Closed
    <2> QED  BY <2>2, <2>4 DEF UInv
  <1>4. CASE RestoreEnd
    <2>1. \A r \in Receivers : Serving(r)' => Serving(r) /\ rcv'[r].ex = rcv[r].ex
      <3>1. CASE rcv' = rcv
        BY <3>1 DEF Serving
      <3>2. CASE StartRcv
        <4>1. PICK q \in Receivers : rcv' = [rcv EXCEPT ![q] = [NoRcv EXCEPT !.pc = "start"]]
          BY <3>2, StartRcvShape
        <4> QED  BY <1>1, <4>1 DEF Serving, NoRcv
      <3> QED  BY <1>4, <3>1, <3>2 DEF RestoreEnd
    <2> QED  BY <1>4, <2>1, ConnectionsKeep DEF RestoreEnd, ConnectionsStay
  <1>5. CASE DeepSleep
    <2>1. /\ conn' = [f \in Fds |-> Closed] /\ open' = open
          /\ rcv' = [r \in Receivers |-> NoRcv] /\ \A c \in Ctxs : open[c].pc = "none"
      BY <1>5 DEF DeepSleep
    <2> QED  BY <2>1 DEF UInv, UpIsOpen, NotYetUp, ExReset, Serving, NoRcv, Closed
  <1>6. CASE ChipReset
    <2>1. /\ conn' = [f \in Fds |-> Closed] /\ open' = [c \in Ctxs |-> [pc |-> "none", slot |-> 0]]
          /\ rcv' = [r \in Receivers |-> NoRcv]
      BY <1>6 DEF ChipReset
    <2> QED  BY <2>1 DEF UInv, UpIsOpen, NotYetUp, ExReset, Serving, NoRcv, Closed
  <1> QED  BY <1>2, <1>3, <1>4, <1>5, <1>6 DEF Restore

\* Every step keeps what is known of the connections.
LEMMA ConnectionsStep ==
    ASSUME Known, Sequential, "slow_net" \in Env, "host_is_ip" \in Env, [Next]_vars
    PROVE  UInv'
  <1>1. CASE Traffic
    <2>1. ConnectionsStay /\ Quiet
      BY <1>1, TrafficConnections
    <2> QED  BY <2>1, ConnectionsKeep DEF Quiet, CtxSame, Serving
  <1>2. CASE UNCHANGED vars
    BY <1>2, ConnectionsKeep DEF vars, ConnectionsStay, Serving
  <1>3. CASE \E id \in Ids, type \in Types : QIOPEN(id, type)
    <2>1. PICK id \in Ids, type \in Types : QIOPEN(id, type)
      BY <1>3
    <2>2. NewCtx \in Ctxs /\ open \in [Ctxs -> OpenT] /\ ctx \in [Ctxs -> CtxT]
      BY <2>1 DEF QIOPEN, NewCtx, FreeCtxs, Known, TInv, ThreadsOK, HeapOK
    <2>3. \A c \in Ctxs : open'[c].pc = "connect" => open[c].pc = "connect" /\ ctx'[c].fd = ctx[c].fd
      BY <2>1, <2>2 DEF QIOPEN, OpenT
    <2> QED  BY <2>1, <2>3, ConnectionsKeep DEF QIOPEN, ConnectionsStay, Serving
  <1>4. CASE \E c \in Ctxs : Open(c)
    BY <1>4, OpenConnections
  <1>5. CASE \E r \in Receivers : Receive(r)
    BY <1>5, ReceiveConnections
  <1>6. CASE Restore \/ DeepSleep \/ ChipReset
    BY <1>6, PowerConnections
  <1> QED  BY <1>1, <1>2, <1>3, <1>4, <1>5, <1>6 DEF Next, Traffic

\* No connection is made yet.
LEMMA ConnectionsInit == Init => UInv
  BY DEF Init, UInv, UpIsOpen, NotYetUp, ExReset, Serving, Closed, NoRcv

\* All together.
LEMMA KnownStep ==
    ASSUME Known, Sequential, "slow_net" \in Env, "host_is_ip" \in Env, [Next]_vars
    PROVE  Known'
  <1>1. Base' /\ FInv'
    BY BaseStep, OwnedStep DEF Known
  <1>2. TInv'
    BY TypeStep DEF Known
  <1> QED  BY <1>1, <1>2, ConnectionsStep DEF Known

\* What the receive thread closes is to be closed, or was reset.
LEMMA ReceiveCloses ==
    ASSUME Known, NEW r \in Receivers, Receive(r), NEW f \in Fds, conn[f].up, ~conn'[f].open
    PROVE  conn[f].reset \/ \E i \in SlotsOfFd(f) : ctx[table[i]].quit \/ ctx[table[i]].deact
  <1>1. conn \in [Fds -> ConnT] /\ rcv[r].i \in Nat
    BY DEF Known, TInv, HeapOK, ThreadsOK, RcvT, Base, Shape, ShRcv
  <1>2. conn[f].open
    BY DEF Known, UInv, UpIsOpen
  <1>3. \/ RcvScan(r) /\ DeleteBegins(r, "scan")
        \/ RcvServe(r) /\ DeleteBegins(r, "serve")
    <2>1. conn' # conn
      BY <1>2
    <2>2. CASE RcvServe(r) /\ ~ DeleteBegins(r, "serve")
      <3>1. \E g : conn' = [conn EXCEPT ![g].data = 0]
        BY <2>1, <2>2, Zenon DEF RcvServe
      <3> QED  BY <1>1, <1>2, <3>1 DEF ConnT
    <2> QED
      BY <2>1, <2>2, Zenon DEF Receive, RcvStart, RcvScan, RcvDrops, RcvDelete, RcvScanned, RcvSelect, RcvServed,
         RcvExit
  <1> DEFINE i == rcv[r].i
             c == table[rcv[r].i]
  <1>4. i \in Slots /\ ctx[c].fd = f
    <2>1. \E back : DeleteBegins(r, back)
      BY <1>3
    <2> QED  BY <1>1, <1>2, <1>3, <2>1, Zenon DEF DeleteBegins, RcvScan, RcvServe
  <1>5. CASE RcvScan(r) /\ DeleteBegins(r, "scan")
    <2>1. c # NoCtx /\ (ctx[c].quit \/ ctx[c].deact)
      <3>1. conn' # conn
        BY <1>2
      <3> QED  BY <1>5, <3>1 DEF RcvScan
    <2> QED  BY <1>4, <2>1 DEF SlotsOfFd
  <1>6. CASE RcvServe(r) /\ DeleteBegins(r, "serve")
    <2>1. c # NoCtx /\ (f \in rcv[r].ex \/ (f \in rcv[r].rd /\ (~conn[f].open \/ conn[f].reset)))
      <3>1. conn' # conn /\ ~conn'[f].open
        BY <1>2
      <3>2. \A g : conn' # [conn EXCEPT ![g].data = 0]
        BY <1>1, <1>2, <3>1, Zenon DEF ConnT
      <3> QED  BY <1>4, <1>6, <3>1, <3>2 DEF RcvServe
    <2>2. Serving(r)
      BY <1>6, Zenon DEF RcvServe, Serving
    <2> QED  BY <1>2, <2>1, <2>2 DEF Known, UInv, ExReset
  <1> QED  BY <1>3, <1>5, <1>6

\* So a step closes a connected socket only for a reason.
LEMMA ClosesForAReason ==
    ASSUME Known, Sequential, "host_is_ip" \in Env, [Next]_vars,
           NEW f \in Fds, conn[f].up, ~conn'[f].open
    PROVE  \/ conn[f].reset
           \/ \E i \in SlotsOfFd(f) : ctx[table[i]].quit \/ ctx[table[i]].deact
           \/ \A c \in Ctxs : ~ctx'[c].live
  <1>1. conn[f].open /\ conn \in [Fds -> ConnT]
    BY DEF Known, UInv, UpIsOpen, TInv, HeapOK
  <1>2. CASE Traffic
    BY <1>1, <1>2, TrafficConnections DEF ConnectionsStay
  <1>3. CASE conn' = conn
    BY <1>1, <1>3
  <1>4. CASE \E c \in Ctxs : Open(c)
    <2>1. PICK c \in Ctxs : Open(c)
      BY <1>4
    <2>2. CASE OpenSocket(c)
      <3>1. \/ conn' = conn
            \/ conn' = [conn EXCEPT ![Least(FreeFds)] = [Closed EXCEPT !.open = TRUE, !.type = ctx[c].type]]
        BY <2>2 DEF OpenSocket
      <3> QED  BY <1>1, <3>1 DEF Closed
    <2>3. CASE OpenConnected(c)
      BY <1>1, <2>3 DEF OpenConnected, ConnT
    <2>4. CASE OpenRefused(c)
      <3>1. ~conn[ctx[c].fd].up
        BY <2>4 DEF OpenRefused, Known, UInv, NotYetUp
      <3> QED  BY <1>1, <2>4, <3>1 DEF OpenRefused
    <2> QED
      BY <1>3, <2>1, <2>2, <2>3, <2>4 DEF Open, OpenSlot, OpenThread, OpenCreate, OpenReport
  <1>5. CASE \E r \in Receivers : Receive(r)
    BY <1>5, ReceiveCloses
  <1>6. CASE DeepSleep \/ ChipReset
    BY <1>6 DEF DeepSleep, ChipReset, Dead
  <1>7. CASE Restore
    <2>1. \/ conn' = conn
          \/ conn' = [conn EXCEPT ![Least(FreeFds)] = [Closed EXCEPT !.open = TRUE, !.up = TRUE]]
      BY <1>7 DEF Restore, Resume, RestoreSlot, RestoreEnd, Breaks
    <2> QED  BY <1>1, <2>1 DEF Closed
  <1> QED
    BY <1>2, <1>3, <1>4, <1>5, <1>6, <1>7 DEF Next, Traffic, QIOPEN, vars

\* at_rcv_thread_proc serves the sets that select returned on the table of now.  Still
\* no connected socket is closed but for AT+QICLOSE, a loss of the PDP context, a reset
\* by its peer or of the chip, if a connection is made when the receive thread rests.
THEOREM ClosedOnRequest ==
    Sequential /\ "slow_net" \in Env /\ "host_is_ip" \in Env => (Spec => OnlyOnRequest)
  <1> SUFFICES ASSUME Sequential, "slow_net" \in Env, "host_is_ip" \in Env
               PROVE  Spec => OnlyOnRequest
    OBVIOUS
  <1>1. Init => Known
    BY BaseInit, OwnedInit, TypeInit, ConnectionsInit DEF Known
  <1>2. Known /\ [Next]_vars => Known'
    BY KnownStep
  <1>3. Known /\ [Next]_vars =>
          [\A f \in Fds : conn[f].up /\ ~conn'[f].open =>
             \/ conn[f].reset
             \/ \E i \in SlotsOfFd(f) : ctx[table[i]].quit \/ ctx[table[i]].deact
             \/ \A c \in Ctxs : ~ctx'[c].live]_vars
    BY ClosesForAReason
  <1> QED  BY <1>1, <1>2, <1>3, PTL DEF Spec, OnlyOnRequest

-----------------------------------------------------------------------------
(* Assertions                                                                 *)

(* What the receive thread gives to select are the descriptors of sockets in  *)
(* use, below the slot it has come to.                                        *)
FdsHome ==
    \A r \in Receivers :
        /\ rcv[r].pc = "none" => rcv[r].fds = {}
        /\ \A f \in rcv[r].fds :
               \E j \in InUse : ctx[table[j]].fd = f /\ (rcv[r].pc = "select" \/ j < rcv[r].i)

(* No two sockets have the same connect id, and sck_open prepares none twice. *)
IdsDistinct ==
    \A i, j \in Slots :
        table[i] # NoCtx /\ table[j] # NoCtx /\ ctx[table[i]].id = ctx[table[j]].id => i = j
FreshId == \A c \in Ctxs : open[c].pc \in {"slot", "socket", "connect"} => SlotsOf(ctx[c].id) = {}

(* So no two saved sockets have, and each is restored to the slot of its id.  *)
SavedDistinct == \A i, j \in Slots : saved[i] # NoId /\ saved[i] = saved[j] => i = j
Emptied == recover /\ at.pc # "restore" => \A k \in Slots : table[k] = NoCtx
Restored ==
    at.pc = "restore" =>
        \A k \in Slots : table[k] # NoCtx =>
            /\ ctx[table[k]].id = k
            /\ \E j \in Slots : j < at.slot /\ saved[j] = k
IdsInv == IdsDistinct /\ FreshId /\ SavedDistinct /\ Emptied /\ Restored

(* The context that is sent on is in the table until it is freed.             *)
AtHome ==
    at.pc \in {"wait", "send", "add", "mark"} /\ ctx[at.ctx].live => \E i \in Slots : table[i] = at.ctx

Held == Base /\ FInv /\ TInv

\* What the state is made of.
LEMMA HeldTypes ==
    ASSUME Held
    PROVE  /\ table \in [Slots -> Ctxs \cup {NoCtx}] /\ ctx \in [Ctxs -> CtxT]
           /\ conn \in [Fds -> ConnT] /\ open \in [Ctxs -> OpenT] /\ rcv \in [Receivers -> RcvT]
           /\ at \in AtT /\ saved \in [Slots -> Ids \cup {NoId}]
           /\ \A j \in InUse : j \in Slots /\ table[j] \in Ctxs
  BY DEF Held, TInv, HeapOK, ThreadsOK, HandlersOK, FlashOK, InUse

\* The descriptors stay if the sockets in use do.
LEMMA HomeKeeps ==
    ASSUME Held, FdsHome,
           \A j \in InUse : j \in InUse' /\ ctx'[table'[j]].fd = ctx[table[j]].fd,
           rcv' = rcv \/ StartRcv
    PROVE  FdsHome'
  <1>1. CASE rcv' = rcv
    BY <1>1 DEF FdsHome
  <1>2. CASE StartRcv
    <2>1. PICK q \in Receivers : rcv' = [rcv EXCEPT ![q] = [NoRcv EXCEPT !.pc = "start"]]
      BY <1>2, StartRcvShape
    <2>2. rcv'[q].fds = {} /\ \A r \in Receivers \ {q} : rcv'[r] = rcv[r]
      BY <2>1, HeldTypes DEF NoRcv
    <2> QED  BY <2>2 DEF FdsHome
  <1> QED  BY <1>1, <1>2

\* A thread that is started deletes nothing.
LEMMA StartDeletes ==
    ASSUME Held, rcv' = rcv \/ StartRcv
    PROVE  \A i \in Slots : BeingDeleted(i)' <=> BeingDeleted(i)
  <1>1. CASE rcv' = rcv
    BY <1>1 DEF BeingDeleted
  <1>2. CASE StartRcv
    <2>1. PICK q \in Receivers : /\ rcv[q].pc = "none"
                                 /\ rcv' = [rcv EXCEPT ![q] = [NoRcv EXCEPT !.pc = "start"]]
      BY <1>2, StartRcvShape
    <2>2. rcv'[q].pc = "start" /\ \A r \in Receivers \ {q} : rcv'[r] = rcv[r]
      BY <2>1, HeldTypes DEF NoRcv
    <2> QED  BY <2>1, <2>2 DEF BeingDeleted
  <1> QED  BY <1>1, <1>2

\* Opening a socket: what changes in the heap and in the table is its own.
LEMMA OpensOwn ==
    ASSUME Held, Sequential, NEW c \in Ctxs, Open(c)
    PROVE  /\ UNCHANGED <<at, saved, recover, broken>> /\ (rcv' = rcv \/ StartRcv)
           /\ \A d \in Ctxs \ {c} : ctx'[d] = ctx[d] /\ open'[d] = open[d] /\ open[d].pc = "none"
           /\ ~recover
           /\ \/ /\ table' = table
                 /\ \/ ctx'[c] = ctx[c]
                    \/ /\ \A i \in Slots : table[i] # c
                       /\ \/ /\ ctx'[c].id = ctx[c].id /\ ctx'[c].live = ctx[c].live
                             /\ open[c].pc = "socket"
                          \/ open'[c].pc = "none" /\ ctx'[c] = Dead
              \/ /\ OpenConnected(c) /\ ctx' = ctx /\ open[c].pc = "connect"
                 /\ open'[c].pc = "thread" /\ table' = [table EXCEPT ![open[c].slot] = c]
                 /\ open[c].slot \in Slots /\ table[open[c].slot] = NoCtx
           /\ open'[c].pc \in {"slot", "socket", "connect"} => open[c].pc \in {"slot", "socket", "connect"}
  <1>1. ctx \in [Ctxs -> CtxT] /\ open \in [Ctxs -> OpenT]
    BY HeldTypes
  <1>2. open[c].pc # "none"
    BY DEF Open, OpenSlot, OpenSocket, OpenConnected, OpenRefused, OpenThread, OpenCreate, OpenReport
  <1>3. ~recover /\ \A d \in Ctxs \ {c} : open[d].pc = "none"
    BY <1>2 DEF Held, Base, RInv, OneWaiting, RestoredFirst
  <1>4. UNCHANGED <<at, saved, recover, broken>> /\ (rcv' = rcv \/ StartRcv)
    BY Zenon DEF Open, OpenSlot, OpenSocket, OpenConnected, OpenRefused, OpenThread, OpenCreate, OpenReport
  <1>5. \A d \in Ctxs \ {c} : ctx'[d] = ctx[d] /\ open'[d] = open[d]
    BY <1>1 DEF Open, OpenSlot, OpenSocket, OpenConnected, OpenRefused, OpenThread, OpenCreate,
       OpenReport, OpenFails
  <1>6. open'[c].pc \in {"slot", "socket", "connect"} => open[c].pc \in {"slot", "socket", "connect"}
    BY <1>1 DEF Open, OpenSlot, OpenSocket, OpenConnected, OpenRefused, OpenThread, OpenCreate,
       OpenReport, OpenFails, OpenT
  <1>7. CASE OpenConnected(c)
    <2>1. open[c].slot \in Slots /\ table[open[c].slot] = NoCtx
      BY <1>7 DEF OpenConnected, Held, FInv, SlotKept
    <2>2. open'[c].pc = "thread"
      BY <1>1, <1>7 DEF OpenConnected
    <2> QED  BY <1>3, <1>4, <1>5, <1>6, <1>7, <2>1, <2>2 DEF OpenConnected
  <1>8. CASE OpenSlot(c) \/ OpenRefused(c) \/ OpenThread(c) \/ OpenCreate(c)
    <2>1. ctx' = ctx /\ table' = table
      BY <1>8 DEF OpenSlot, OpenRefused, OpenThread, OpenCreate, OpenFails
    <2> QED  BY <1>3, <1>4, <1>5, <1>6, <2>1
  <1>9. CASE OpenSocket(c)
    <2>1. table' = table /\ (ctx' = ctx \/ \E f : ctx' = [ctx EXCEPT ![c].fd = f])
      BY <1>9 DEF OpenSocket, OpenFails
    <2>2. ctx'[c].id = ctx[c].id /\ ctx'[c].live = ctx[c].live
      BY <1>1, <2>1 DEF CtxT
    <2>3. open[c].pc = "socket" /\ \A i \in Slots : table[i] # c
      BY <1>9 DEF OpenSocket, Held, FInv, Outside, Preparing
    <2> QED  BY <1>3, <1>4, <1>5, <1>6, <2>1, <2>2, <2>3
  <1>10. CASE OpenReport(c)
    <2>1. /\ table' = table /\ open'[c].pc = "none"
          /\ (open[c].pc = "fails" /\ ctx'[c] = Dead) \/ ctx' = ctx
      BY <1>1, <1>10 DEF OpenReport
    <2>2. open[c].pc = "fails" => \A i \in Slots : table[i] # c
      BY DEF Held, FInv, Outside, Preparing
    <2> QED  BY <1>3, <1>4, <1>5, <1>6, <2>1, <2>2
  <1> QED  BY <1>7, <1>8, <1>9, <1>10 DEF Open

\* A step of the receive thread that keeps the other sockets, and no new descriptor.
LEMMA MovesHome ==
    ASSUME Held, FdsHome, NEW r \in Receivers, rcv[r].pc # "none",
           \A q \in Receivers \ {r} : rcv'[q] = rcv[q],
           rcv'[r].fds \subseteq rcv[r].fds,
           rcv'[r].pc = "none" => rcv'[r].fds = {},
           \A j \in InUse : j # rcv[r].i => j \in InUse' /\ ctx'[table'[j]].fd = ctx[table[j]].fd,
           \/ rcv'[r].fds = {}
           \/ rcv'[r].pc = "select" /\ InUse \subseteq InUse' /\ table' = table /\ ctx' = ctx
           \/ /\ rcv[r].pc # "select"
              /\ rcv'[r].i \in Nat /\ rcv'[r].i >= rcv[r].i
    PROVE  FdsHome'
  <1>1. \A q \in Receivers \ {r} : rcv'[q].fds = {} /\ rcv'[q].pc = "none"
    BY DEF Held, Base, RInv, Owned, FdsHome
  <1>2. rcv[r].i \in Nat /\ \A j \in InUse : j \in Nat
    BY HeldTypes, Numbers DEF RcvT
  <1>3. ASSUME NEW f \in rcv'[r].fds
        PROVE  \E j \in InUse' : ctx'[table'[j]].fd = f /\ (rcv'[r].pc = "select" \/ j < rcv'[r].i)
    <2>1. PICK j \in InUse : ctx[table[j]].fd = f /\ (rcv[r].pc = "select" \/ j < rcv[r].i)
      BY <1>3 DEF FdsHome
    <2>2. CASE rcv'[r].pc = "select" /\ InUse \subseteq InUse' /\ table' = table /\ ctx' = ctx
      BY <2>1, <2>2
    <2>3. CASE /\ rcv[r].pc # "select"
               /\ rcv'[r].i \in Nat /\ rcv'[r].i >= rcv[r].i
      <3>1. j < rcv[r].i /\ j # rcv[r].i
        BY <1>2, <2>1, <2>3
      <3>2. j < rcv'[r].i
        BY <1>2, <2>3, <3>1
      <3> QED  BY <2>1, <3>1, <3>2
    <2> QED  BY <1>3, <2>2, <2>3
  <1> QED  BY <1>1, <1>3 DEF FdsHome

\* The receive thread holds only descriptors of sockets that it does not delete.
LEMMA ReceiveHome ==
    ASSUME Held, FdsHome, NEW r \in Receivers, Receive(r)
    PROVE  FdsHome'
  <1>1. /\ table \in [Slots -> Ctxs \cup {NoCtx}] /\ ctx \in [Ctxs -> CtxT]
        /\ rcv \in [Receivers -> RcvT]
        /\ rcv[r].i \in Nat /\ \A j \in InUse : j \in Slots /\ j \in Nat /\ table[j] \in Ctxs
    BY HeldTypes, Numbers DEF RcvT
  <1>2. rcv[r].pc # "none" /\ \A q \in Receivers \ {r} : rcv'[q] = rcv[q]
    BY <1>1, Zenon DEF Receive, RcvStart, RcvScan, RcvDrops, RcvDelete, RcvScanned, RcvSelect, RcvServe,
       RcvServed, RcvExit, DeleteBegins, Rescan
  <1>3. \A q \in Receivers \ {r} : rcv[q].pc = "none"
    BY <1>2 DEF Held, Base, RInv, Owned
  <1>4. ASSUME NEW back, DeleteBegins(r, back), rcv[r].pc \in {"scan", "serve"}, UNCHANGED <<table, ctx>>
        PROVE  FdsHome'
    <2>1. rcv'[r].pc = "delete" /\ rcv'[r].i = rcv[r].i /\ rcv'[r].fds = rcv[r].fds
      BY <1>1, <1>4 DEF DeleteBegins, RcvT
    <2>2. \A j \in InUse : j # rcv[r].i => j \in InUse' /\ ctx'[table'[j]].fd = ctx[table[j]].fd
      BY <1>2, <1>3, <1>4, <2>1 DEF InUse, BeingDeleted
    <2> QED  BY <1>1, <1>2, <1>4, <2>1, <2>2, MovesHome
  <1>5. ASSUME UNCHANGED <<table, ctx>>, rcv'[r].pc \notin {"delete", "free"}
        PROVE  \A j \in InUse : j \in InUse' /\ ctx'[table'[j]].fd = ctx[table[j]].fd
    BY <1>2, <1>3, <1>5 DEF InUse, BeingDeleted
  <1>6. CASE RcvStart(r)
    <2>1. /\ UNCHANGED <<table, ctx>> /\ rcv[r].pc = "start" /\ rcv'[r].pc = "scan"
          /\ rcv'[r].i = rcv[r].i /\ rcv'[r].fds = rcv[r].fds
      BY <1>1, <1>6 DEF RcvStart, RcvT
    <2> QED  BY <1>1, <1>2, <1>5, <2>1, MovesHome
  <1>7. CASE RcvScan(r)
    <2>1. CASE DeleteBegins(r, "scan")
      BY <1>4, <1>7, <2>1 DEF RcvScan
    <2>2. CASE ~ DeleteBegins(r, "scan")
      <3> DEFINE i == rcv[r].i
                 new == IF table[i] = NoCtx THEN {} ELSE {ctx[table[i]].fd}
      <3>1. /\ rcv' = [rcv EXCEPT ![r].i = rcv[r].i + 1, ![r].fds = rcv[r].fds \cup new]
            /\ UNCHANGED <<table, ctx>> /\ rcv[r].pc = "scan" /\ i \in Slots
        BY <1>1, <1>7, <2>2 DEF RcvScan
      <3>2. rcv'[r].pc = "scan" /\ rcv'[r].i = i + 1 /\ rcv'[r].fds = rcv[r].fds \cup new
        BY <1>1, <3>1 DEF RcvT
      <3>3. table[i] # NoCtx => i \in InUse
        BY <1>3, <3>1 DEF InUse, BeingDeleted
      <3>4. \A j \in InUse : j \in InUse' /\ ctx'[table'[j]].fd = ctx[table[j]].fd
        BY <1>5, <3>1, <3>2
      <3>5. ASSUME NEW f \in rcv'[r].fds
            PROVE  \E j \in InUse' : ctx'[table'[j]].fd = f /\ j < rcv'[r].i
        <4>1. CASE f \in new
          BY <1>1, <3>2, <3>3, <3>4, <4>1
        <4>2. CASE f \in rcv[r].fds
          <5>1. PICK j \in InUse : ctx[table[j]].fd = f /\ j < i
            BY <3>1, <4>2 DEF FdsHome
          <5>2. j < rcv'[r].i
            BY <1>1, <3>2, <5>1
          <5> QED  BY <3>4, <5>1, <5>2
        <4> QED  BY <3>2, <3>5, <4>1, <4>2
      <3> QED  BY <1>2, <1>3, <3>2, <3>5 DEF FdsHome
    <2> QED  BY <2>1, <2>2
  <1>8. CASE RcvDrops(r)
    <2>1. /\ table' = table /\ rcv[r].pc = "delete" /\ rcv'[r].pc = "free"
          /\ rcv'[r].i = rcv[r].i /\ rcv'[r].fds = rcv[r].fds
      BY <1>1, <1>8 DEF RcvDrops, RcvT
    <2>2. \A d \in Ctxs : ctx'[d].fd = ctx[d].fd
      <3>1. \A d \in Ctxs : \A mine : Failed(d, mine).fd = ctx[d].fd
        BY <1>1 DEF Failed, CtxT
      <3>2. PICK other, mine :
              ctx' = [d \in Ctxs |-> IF d = other THEN Failed(d, mine) ELSE ctx[d]]
        BY <1>8, Zenon DEF RcvDrops
      <3> QED  BY <3>1, <3>2
    <2>3. InUse' = InUse
      BY <1>2, <1>3, <2>1 DEF InUse, BeingDeleted
    <2>4. \A j \in InUse : j \in InUse' /\ ctx'[table'[j]].fd = ctx[table[j]].fd
      BY <1>1, <2>1, <2>2, <2>3
    <2> QED  BY <1>1, <1>2, <2>1, <2>4, MovesHome
  <1>9. CASE RcvDelete(r)
    <2>1. /\ ctx' = [ctx EXCEPT ![table[rcv[r].i]] = Dead]
          /\ table' = [table EXCEPT ![rcv[r].i] = NoCtx]
          /\ rcv[r].pc = "free" /\ rcv'[r].pc \in {"scan", "serve"}
          /\ rcv'[r].i = rcv[r].i + 1 /\ rcv'[r].fds = rcv[r].fds
      BY <1>1, <1>9 DEF RcvDelete, RcvT, BackPcs
    <2>2. ASSUME NEW j \in InUse, j # rcv[r].i
          PROVE  j \in InUse' /\ ctx'[table'[j]].fd = ctx[table[j]].fd
      <3>1. table'[j] = table[j] /\ table[j] # table[rcv[r].i]
        BY <1>1, <2>1, <2>2 DEF Held, FInv, Distinct, Deleting, InUse
      <3>2. ctx'[table[j]] = ctx[table[j]]
        BY <1>1, <2>1, <3>1
      <3> QED  BY <1>2, <1>3, <2>1, <3>1, <3>2 DEF InUse, BeingDeleted
    <2> QED  BY <1>1, <1>2, <2>1, <2>2, MovesHome
  <1>10. CASE RcvScanned(r)
    <2>1. /\ UNCHANGED <<table, ctx>> /\ rcv'[r].fds = rcv[r].fds
          /\ rcv'[r].pc = "select" \/ (rcv'[r].pc = "exit" /\ rcv'[r].fds = {})
      BY <1>1, <1>10 DEF RcvScanned, RcvT
    <2>2. \A j \in InUse : j \in InUse' /\ ctx'[table'[j]].fd = ctx[table[j]].fd
      BY <1>5, <2>1
    <2> QED  BY <1>2, <2>1, <2>2, MovesHome
  <1>11. CASE RcvSelect(r)
    <2>1. UNCHANGED <<table, ctx>> /\ rcv[r].pc = "select"
      BY <1>11 DEF RcvSelect
    <2>2. CASE rcv' = rcv
      BY <2>1, <2>2 DEF FdsHome, InUse, BeingDeleted
    <2>3. CASE rcv' # rcv
      <3>1. rcv'[r].pc \in {"scan", "serve"} /\ rcv'[r].fds = {}
        <4>1. CASE Rescan(r)
          BY <1>1, <4>1 DEF Rescan, NoRcv
        <4>2. CASE ~ Rescan(r)
          <5> DEFINE rd == rcv[r].fds \cap Readable
                     ex == {f \in rcv[r].fds : conn[f].reset}
          <5>1. rcv' = [rcv EXCEPT ![r] = [NoRcv EXCEPT !.pc = "serve", !.rd = rd, !.ex = ex]]
            BY <1>11, <2>3, <4>2 DEF RcvSelect
          <5> HIDE DEF rd, ex
          <5> QED  BY <1>1, <5>1 DEF NoRcv
        <4> QED  BY <4>1, <4>2
      <3>2. \A j \in InUse : j \in InUse' /\ ctx'[table'[j]].fd = ctx[table[j]].fd
        BY <1>5, <2>1, <3>1
      <3> QED  BY <1>2, <3>1, <3>2, MovesHome
    <2> QED  BY <2>2, <2>3
  <1>12. CASE RcvServe(r)
    <2>1. UNCHANGED <<table, ctx>> /\ rcv[r].pc = "serve"
      BY <1>12, ServeSays, Zenon
    <2>2. CASE DeleteBegins(r, "serve")
      BY <1>4, <2>1, <2>2
    <2>3. CASE ~ DeleteBegins(r, "serve")
      <3>1. rcv' = [rcv EXCEPT ![r].i = rcv[r].i + 1]
        BY <1>12, <2>3, Zenon DEF RcvServe
      <3>2. rcv'[r].pc = "serve" /\ rcv'[r].i = rcv[r].i + 1 /\ rcv'[r].fds = rcv[r].fds
        BY <1>1, <2>1, <3>1 DEF RcvT
      <3>3. \A j \in InUse : j \in InUse' /\ ctx'[table'[j]].fd = ctx[table[j]].fd
        BY <1>5, <2>1, <3>2
      <3> QED  BY <1>1, <1>2, <2>1, <3>2, <3>3, MovesHome
    <2> QED  BY <2>2, <2>3
  <1>13. CASE RcvServed(r) \/ RcvExit(r)
    <2>1. UNCHANGED <<table, ctx>> /\ rcv'[r].fds = {} /\ rcv'[r].pc \in {"scan", "none"}
      BY <1>1, <1>13 DEF RcvServed, RcvExit, Rescan, NoRcv
    <2>2. \A j \in InUse : j \in InUse' /\ ctx'[table'[j]].fd = ctx[table[j]].fd
      BY <1>5, <2>1
    <2> QED  BY <1>2, <2>1, <2>2, MovesHome
  <1> QED
    BY <1>6, <1>7, <1>8, <1>9, <1>10, <1>11, <1>12, <1>13 DEF Receive

\* AT+QIOPEN takes a context that is in no slot.
LEMMA NewOutside ==
    ASSUME Held, NEW id \in Ids, NEW type \in Types, QIOPEN(id, type)
    PROVE  /\ NewCtx \in Ctxs /\ \A i \in Slots : table[i] # NewCtx
           /\ UNCHANGED <<table, rcv, at, saved, recover, broken>>
           /\ ctx' = [ctx EXCEPT ![NewCtx] = Fresh(id, type)]
           /\ ctx'[NewCtx].id = id
           /\ open' = [open EXCEPT ![NewCtx].pc = "slot"]
           /\ at.pc = "idle" /\ SlotsOf(id) = {}
  <1>1. /\ NewCtx \in Ctxs /\ ~ ctx[NewCtx].live
        /\ ctx' = [ctx EXCEPT ![NewCtx] = Fresh(id, type)]
    BY DEF QIOPEN, NewCtx, FreeCtxs
  <1>2. NewCtx # NoCtx
    BY <1>1, SockAssumption
  <1>3. \A i \in Slots : table[i] # NewCtx
    BY <1>1, <1>2 DEF Held, FInv, Live
  <1>4. ctx'[NewCtx].id = id
    BY <1>1, HeldTypes DEF Fresh, Dead
  <1> QED  BY <1>1, <1>3, <1>4 DEF QIOPEN

\* Every step keeps the descriptors of the sets at home.
LEMMA FdsHomeStep ==
    ASSUME Held, FdsHome, Sequential, [Next]_vars
    PROVE  FdsHome'
  <1>1. /\ table \in [Slots -> Ctxs \cup {NoCtx}] /\ ctx \in [Ctxs -> CtxT]
        /\ rcv \in [Receivers -> RcvT] /\ open \in [Ctxs -> OpenT]
        /\ \A j \in InUse : j \in Slots /\ table[j] \in Ctxs
    BY HeldTypes
  <1>2. CASE Traffic \/ UNCHANGED vars
    <2>1. Quiet
      BY <1>2, TrafficQuiet, StutterQuiet DEF Held, Base
    <2>2. \A j \in InUse : j \in InUse' /\ ctx'[table'[j]].fd = ctx[table[j]].fd
      BY <1>1, <2>1 DEF Quiet, CtxSame, InUse, BeingDeleted
    <2> QED  BY <2>1, <2>2, HomeKeeps DEF Quiet
  <1>3. CASE \E id \in Ids, type \in Types : QIOPEN(id, type)
    <2>1. /\ UNCHANGED <<table, rcv>> /\ \A i \in Slots : table[i] # NewCtx
          /\ \E new : ctx' = [ctx EXCEPT ![NewCtx] = new]
      BY <1>3, NewOutside
    <2>2. \A j \in InUse : j \in InUse' /\ ctx'[table'[j]].fd = ctx[table[j]].fd
      BY <1>1, <2>1 DEF InUse, BeingDeleted
    <2> QED  BY <2>1, <2>2, HomeKeeps
  <1>4. CASE \E c \in Ctxs : Open(c)
    <2>1. PICK c \in Ctxs : Open(c)
      BY <1>4
    <2>2. /\ rcv' = rcv \/ StartRcv
          /\ \A i \in Slots : BeingDeleted(i)' <=> BeingDeleted(i)
      BY <2>1, OpensOwn, StartDeletes
    <2>3. ASSUME NEW j \in InUse
          PROVE  j \in InUse' /\ ctx'[table'[j]].fd = ctx[table[j]].fd
      <3>1. table'[j] = table[j] /\ ctx'[table[j]] = ctx[table[j]]
        <4>1. CASE table' = table
          BY <1>1, <2>1, <4>1, OpensOwn DEF InUse
        <4>2. CASE OpenConnected(c) /\ ctx' = ctx
          <5>1. open[c].slot # j
            BY <2>1, <4>2, OpensOwn DEF InUse, OpenConnected, Held, FInv, SlotKept
          <5> QED  BY <1>1, <2>1, <4>2, <5>1 DEF OpenConnected
        <4> QED  BY <2>1, <4>1, <4>2, OpensOwn
      <3> QED  BY <1>1, <2>2, <3>1 DEF InUse
    <2> QED  BY <2>2, <2>3, HomeKeeps
  <1>5. CASE \E r \in Receivers : Receive(r)
    BY <1>5, ReceiveHome
  <1>6. CASE Resume \/ RestoreEnd
    <2>1. UNCHANGED <<table, ctx>> /\ (rcv' = rcv \/ StartRcv)
      BY <1>6 DEF Resume, RestoreEnd
    <2>2. \A i \in Slots : BeingDeleted(i)' <=> BeingDeleted(i)
      BY <2>1, StartDeletes
    <2>3. \A j \in InUse : j \in InUse' /\ ctx'[table'[j]].fd = ctx[table[j]].fd
      BY <1>1, <2>1, <2>2 DEF InUse
    <2> QED  BY <2>1, <2>3, HomeKeeps
  <1>7. CASE RestoreSlot
    <2>1. rcv' = rcv /\ at.pc = "restore"
      BY <1>7 DEF RestoreSlot, Breaks
    <2>2. \A r \in Receivers : rcv[r].pc = "none"
      BY <2>1, SockAssumption DEF Held, Base, RInv, RestoredFirst, Owned
    <2> QED  BY <2>1, <2>2 DEF FdsHome
  <1>8. CASE DeepSleep \/ ChipReset
    BY <1>8 DEF DeepSleep, ChipReset, NoRcv, FdsHome
  <1> QED
    BY <1>2, <1>3, <1>4, <1>5, <1>6, <1>7, <1>8 DEF Next, Traffic, Restore

\* What is sent on is in the table: the pointer is taken from a slot.
LEMMA AtHomeStep ==
    ASSUME Held, AtHome, Sequential, [Next]_vars
    PROVE  AtHome'
  <1>1. /\ table \in [Slots -> Ctxs \cup {NoCtx}] /\ ctx \in [Ctxs -> CtxT]
        /\ rcv \in [Receivers -> RcvT] /\ open \in [Ctxs -> OpenT] /\ at \in AtT
        /\ at.pc \in {"wait", "send", "add", "mark"} => at.ctx \in Ctxs
    BY HeldTypes DEF Held, TInv, Indices
  <1>2. ASSUME Quiet, at'.ctx = at.ctx, at.pc \in {"wait", "send", "add", "mark"}  PROVE AtHome'
    BY <1>1, <1>2 DEF Quiet, CtxSame, AtHome
  <1>3. ASSUME UNCHANGED <<table, ctx>>, at' = at  PROVE AtHome'
    BY <1>3 DEF AtHome
  <1>4. ASSUME at'.pc \in {"idle", "restore"}  PROVE AtHome'
    BY <1>4 DEF AtHome
  <1>5. CASE \E id \in Ids, pass \in BOOLEAN : QISEND(id, pass)
    <2>1. PICK id \in Ids, pass \in BOOLEAN : QISEND(id, pass)
      BY <1>5
    <2>2. SlotsOf(id) # {} /\ table' = table /\ at'.ctx = table[Least(SlotsOf(id))]
      BY <2>1 DEF QISEND, AtIdle
    <2>3. Least(SlotsOf(id)) \in Slots
      BY <2>2, LeastSlot DEF SlotsOf
    <2> QED  BY <2>2, <2>3 DEF AtHome
  <1>6. CASE UNCHANGED <<table, at>> /\ Quiet
    BY <1>1, <1>6 DEF Quiet, CtxSame, AtHome
  <1>7. CASE PassData \/ Sending
    <2>1. Quiet
      BY <1>7, TrafficQuiet DEF Traffic, Held, Base
    <2>2. at.pc \in {"wait", "send", "add", "mark"}
      BY <1>7 DEF PassData, Sending, Send, SendAdd, SendMark
    <2>3. at'.ctx = at.ctx \/ at'.pc = "idle"
      <3>1. CASE PassData
        BY <1>1, <3>1 DEF PassData, AtIdle, AtT
      <3>2. CASE Send
        <4>1. \/ at' = at \/ at' = AtIdle
              \/ \E seq, sn : at' = [at EXCEPT !.pc = "add", !.seq = seq, !.sn = sn]
          <5>1. CASE Breaks("wild")
            BY <5>1 DEF Breaks
          <5>2. CASE SendEnds
            BY <5>2 DEF SendEnds
          <5>3. CASE ~ Breaks("wild") /\ ~ SendEnds
            BY <3>2, <5>3, Zenon DEF Send
          <5> QED  BY <5>1, <5>2, <5>3, Zenon
        <4>2. CASE \E seq, sn : at' = [at EXCEPT !.pc = "add", !.seq = seq, !.sn = sn]
          BY <1>1, <4>2 DEF AtT
        <4>3. AtIdle.pc = "idle"
          BY DEF AtIdle
        <4> QED  BY <4>1, <4>2, <4>3, Zenon
      <3>3. CASE SendAdd \/ SendMark
        BY <1>1, <3>3 DEF SendAdd, SendMark, Breaks, AtIdle, AtT
      <3> QED  BY <1>7, <3>1, <3>2, <3>3 DEF Sending
    <2> QED  BY <1>2, <1>4, <2>1, <2>2, <2>3
  <1>8. CASE UNCHANGED vars \/ (Traffic /\ at' = at)
    <2>1. Quiet
      BY <1>8, TrafficQuiet, StutterQuiet DEF Held, Base
    <2> QED  BY <1>6, <1>8, <2>1 DEF Quiet, vars
  <1>9. CASE \E id \in Ids, type \in Types : QIOPEN(id, type)
    <2>1. at'.pc = "idle"
      BY <1>9 DEF QIOPEN
    <2> QED  BY <1>4, <2>1
  <1>10. CASE \E c \in Ctxs : Open(c)
    <2>1. PICK c \in Ctxs : Open(c)
      BY <1>10
    <2>2. ASSUME NEW i \in Slots, table[i] # NoCtx
          PROVE  table'[i] = table[i] /\ ctx'[table[i]].live = ctx[table[i]].live
      <3>1. CASE table' = table
        BY <1>1, <2>1, <2>2, <3>1, OpensOwn
      <3>2. CASE OpenConnected(c) /\ ctx' = ctx
        <4>1. open[c].slot # i
          BY <2>1, <2>2, <3>2 DEF OpenConnected, Held, FInv, SlotKept
        <4> QED  BY <1>1, <2>1, <3>2, <4>1 DEF OpenConnected
      <3> QED  BY <2>1, <3>1, <3>2, OpensOwn
    <2>3. at' = at
      BY <2>1, OpensOwn
    <2>4. ASSUME at.pc \in {"wait", "send", "add", "mark"}, ctx'[at.ctx].live
          PROVE  \E i \in Slots : table'[i] = at.ctx
      <3>1. at.ctx \in Ctxs /\ at.ctx # NoCtx
        BY <1>1, <2>4, SockAssumption
      <3>2. CASE ctx[at.ctx].live
        BY <2>2, <2>4, <3>1, <3>2 DEF AtHome
      <3>3. CASE ~ ctx[at.ctx].live
        <4>1. ctx'[at.ctx] # ctx[at.ctx]
          BY <2>4, <3>3
        <4>2. at.ctx = c /\ ctx'[c] = Dead
          BY <2>1, <2>4, <3>1, <3>3, <4>1, OpensOwn
        <4> QED  BY <2>4, <4>2 DEF Dead
      <3> QED  BY <3>2, <3>3
    <2> QED  BY <2>3, <2>4 DEF AtHome
  <1>11. CASE \E r \in Receivers : Receive(r)
    <2>1. PICK r \in Receivers : Receive(r)
      BY <1>11
    <2>2. at' = at
      BY <2>1, ServeSays DEF Receive, RcvStart, RcvScan, RcvDrops, RcvDelete, RcvScanned, RcvSelect,
         RcvServed, RcvExit
    <2>3. CASE RcvDelete(r)
      <3>1. /\ ctx' = [ctx EXCEPT ![table[rcv[r].i]] = Dead]
            /\ table' = [table EXCEPT ![rcv[r].i] = NoCtx]
        BY <2>3 DEF RcvDelete
      <3>2. ASSUME at.pc \in {"wait", "send", "add", "mark"}, ctx'[at.ctx].live
            PROVE  \E i \in Slots : table'[i] = at.ctx
        <4>1. at.ctx \in Ctxs /\ at.ctx # NoCtx
          BY <1>1, <3>2, SockAssumption
        <4>2. ctx[at.ctx].live /\ at.ctx # table[rcv[r].i]
          BY <1>1, <3>1, <3>2, <4>1 DEF Dead
        <4>3. PICK i \in Slots : table[i] = at.ctx
          BY <3>2, <4>2 DEF AtHome
        <4> QED  BY <1>1, <3>1, <4>2, <4>3
      <3> QED  BY <2>2, <3>2 DEF AtHome
    <2>4. CASE ~ RcvDelete(r)
      <3>1. table' = table
        BY <2>1, <2>4, ServeSays DEF Receive, RcvStart, RcvScan, RcvDrops, RcvScanned, RcvSelect,
           RcvServed, RcvExit
      <3>2. \A d \in Ctxs : ctx'[d].live = ctx[d].live
        <4>1. CASE ctx' = ctx
          BY <4>1
        <4>2. CASE RcvDrops(r)
          <5>1. \A d \in Ctxs : \A mine : Failed(d, mine).live = ctx[d].live
            BY <1>1 DEF Failed, CtxT
          <5>2. PICK other, mine :
                  ctx' = [d \in Ctxs |-> IF d = other THEN Failed(d, mine) ELSE ctx[d]]
            BY <4>2, Zenon DEF RcvDrops
          <5> QED  BY <5>1, <5>2
        <4> QED
          BY <2>1, <2>4, <4>1, <4>2, ServeSays DEF Receive, RcvStart, RcvScan, RcvScanned, RcvSelect,
             RcvServed, RcvExit
      <3> QED  BY <1>1, <2>2, <3>1, <3>2 DEF AtHome
    <2> QED  BY <2>3, <2>4
  <1>12. CASE Restore \/ DeepSleep \/ ChipReset
    <2>1. CASE RestoreSlot
      <3>1. at.pc = "restore"
        BY <2>1 DEF RestoreSlot
      <3>2. at'.pc = "restore"
        BY <1>1, <2>1, <3>1 DEF RestoreSlot, Breaks, AtT
      <3> QED  BY <1>4, <3>2
    <2>2. CASE Resume
      BY <1>3, <1>4, <2>2 DEF Resume, AtIdle
    <2>3. CASE RestoreEnd \/ DeepSleep \/ ChipReset
      BY <1>4, <2>3 DEF RestoreEnd, DeepSleep, ChipReset, AtIdle
    <2> QED  BY <1>12, <2>1, <2>2, <2>3 DEF Restore
  <1>13. Traffic => at' = at \/ (\E id \in Ids, pass \in BOOLEAN : QISEND(id, pass)) \/ PassData \/ Sending
    BY Zenon DEF Traffic, QICLOSE, AckTcp, ConfirmUdp, AckMark, Breaks, Arrives, Reset, NetDown
  <1> QED
    BY <1>5, <1>7, <1>8, <1>9, <1>10, <1>11, <1>12, <1>13 DEF Next, Traffic

\* Ids stay distinct as long as no slot gets another socket, and none is restored.
LEMMA IdsKeep ==
    ASSUME IdsInv, UNCHANGED saved, recover' => recover,
           at'.pc = "restore" => at' = at, at.pc = "restore" /\ recover' => at' = at,
           \A i \in Slots : \/ table'[i] = NoCtx
                            \/ table'[i] = table[i] /\ ctx'[table[i]].id = ctx[table[i]].id,
           \A c \in Ctxs : open'[c].pc \in {"slot", "socket", "connect"} =>
                               open[c].pc \in {"slot", "socket", "connect"} /\ ctx'[c].id = ctx[c].id
    PROVE  IdsInv'
  <1>1. IdsDistinct' /\ SavedDistinct'
    BY DEF IdsInv, IdsDistinct, SavedDistinct
  <1>2. FreshId'
    BY DEF IdsInv, FreshId, SlotsOf
  <1>3. Emptied'
    BY DEF IdsInv, Emptied
  <1>4. Restored'
    BY DEF IdsInv, Restored
  <1> QED  BY <1>1, <1>2, <1>3, <1>4 DEF IdsInv

\* The commands that send, the network and the outcomes leave ids alone.
LEMMA TrafficIds ==
    ASSUME Held, IdsInv, Traffic \/ UNCHANGED vars
    PROVE  IdsInv'
  <1>1. Quiet
    BY TrafficQuiet, StutterQuiet DEF Held, Base
  <1>2. at' = at \/ at.pc # "restore"
    <2>1. Traffic => \/ at' = at \/ PassData \/ Sending
                     \/ \E id \in Ids, pass \in BOOLEAN : QISEND(id, pass)
      BY Zenon DEF Traffic, QICLOSE, AckTcp, ConfirmUdp, AckMark, Breaks, Arrives, Reset, NetDown
    <2>2. PassData \/ Sending \/ (\E id \in Ids, pass \in BOOLEAN : QISEND(id, pass)) =>
              at.pc # "restore"
      BY DEF PassData, Sending, Send, SendAdd, SendMark, QISEND
    <2> QED  BY <2>1, <2>2 DEF vars
  <1>3. \A c \in Ctxs : ctx'[c].id = ctx[c].id
    BY <1>1 DEF Quiet, CtxSame
  <1>5. UNCHANGED <<saved, recover, open>> /\ (at'.pc = "restore" <=> at.pc = "restore")
    BY <1>1 DEF Quiet, AtSame
  <1>4. \A i \in Slots : \/ table'[i] = NoCtx
                         \/ table'[i] = table[i] /\ ctx'[table[i]].id = ctx[table[i]].id
    BY <1>1, <1>3, HeldTypes DEF Quiet
  <1>6. /\ UNCHANGED saved /\ (recover' => recover)
        /\ at'.pc = "restore" => at' = at
        /\ at.pc = "restore" /\ recover' => at' = at
        /\ \A c \in Ctxs : open'[c].pc \in {"slot", "socket", "connect"} =>
                               open[c].pc \in {"slot", "socket", "connect"} /\ ctx'[c].id = ctx[c].id
    BY <1>2, <1>3, <1>5
  <1> QED  BY <1>4, <1>6, IdsKeep

\* AT+QIOPEN and sck_open use an id that no socket has.
LEMMA OpenIds ==
    ASSUME Held, Sequential, IdsInv,
           (\E id \in Ids, type \in Types : QIOPEN(id, type)) \/ \E c \in Ctxs : Open(c)
    PROVE  IdsInv'
  <1>1. /\ table \in [Slots -> Ctxs \cup {NoCtx}] /\ ctx \in [Ctxs -> CtxT]
        /\ open \in [Ctxs -> OpenT]
    BY HeldTypes
  <1>2. CASE \E id \in Ids, type \in Types : QIOPEN(id, type)
    <2>1. PICK id \in Ids, type \in Types : QIOPEN(id, type)
      BY <1>2
    <2> DEFINE n == NewCtx
    <2>2. /\ n \in Ctxs /\ \A i \in Slots : table[i] # n
          /\ UNCHANGED <<table, rcv, at, saved, recover, broken>>
          /\ ctx' = [ctx EXCEPT ![n] = Fresh(id, type)] /\ ctx'[n].id = id
          /\ open' = [open EXCEPT ![n].pc = "slot"] /\ at.pc = "idle" /\ SlotsOf(id) = {}
      BY <2>1, NewOutside
    <2>3. ~recover /\ \A d \in Ctxs : open[d].pc = "none"
      BY <2>1 DEF QIOPEN, Sequential
    <2> HIDE DEF n
    <2>4. \A i \in Slots : table[i] # NoCtx => ctx'[table[i]] = ctx[table[i]]
      BY <1>1, <2>2
    <2>5. IdsDistinct' /\ SavedDistinct' /\ Emptied' /\ Restored'
      BY <2>2, <2>3, <2>4 DEF IdsInv, IdsDistinct, SavedDistinct, Emptied, Restored
    <2>6. FreshId'
      <3>1. \A d \in Ctxs \ {n} : open'[d].pc = "none"
        BY <1>1, <2>2, <2>3
      <3>2. \A i \in Slots : table[i] # NoCtx => ctx[table[i]].id # id
        BY <2>2 DEF SlotsOf
      <3> QED  BY <2>2, <2>4, <3>1, <3>2 DEF FreshId, SlotsOf
    <2> QED  BY <2>5, <2>6 DEF IdsInv
  <1>3. CASE \E c \in Ctxs : Open(c)
    <2>1. PICK c \in Ctxs : Open(c)
      BY <1>3
    <2>2. UNCHANGED <<at, saved, recover>> /\ ~recover
      BY <2>1, OpensOwn
    <2>3. CASE table' = table
      <3>1. \A i \in Slots : table[i] # NoCtx => ctx'[table[i]].id = ctx[table[i]].id
        BY <1>1, <2>1, <2>3, OpensOwn
      <3>2. ASSUME NEW d \in Ctxs, open'[d].pc \in {"slot", "socket", "connect"}
            PROVE  open[d].pc \in {"slot", "socket", "connect"} /\ ctx'[d].id = ctx[d].id
        <4>1. d = c
          BY <2>1, <3>2, OpensOwn
        <4> QED  BY <2>1, <2>3, <3>2, <4>1, OpensOwn DEF OpenConnected
      <3> QED  BY <2>2, <2>3, <3>1, <3>2, IdsKeep
    <2>4. CASE OpenConnected(c) /\ ctx' = ctx
      <3>1. /\ table' = [table EXCEPT ![open[c].slot] = c] /\ open[c].pc = "connect"
            /\ open[c].slot \in Slots
        BY <2>1, <2>4 DEF OpenConnected, Held, FInv, SlotKept
      <3>2. \A i \in Slots : table[i] # NoCtx => ctx[table[i]].id # ctx[c].id
        BY <3>1 DEF IdsInv, FreshId, SlotsOf
      <3>3. IdsDistinct'
        BY <1>1, <2>4, <3>1, <3>2 DEF IdsInv, IdsDistinct
      <3>4. FreshId'
        <4>1. open'[c].pc = "thread"
          BY <1>1, <2>4 DEF OpenConnected
        <4>2. \A d \in Ctxs \ {c} : open'[d].pc = "none"
          BY <2>1, OpensOwn
        <4> QED  BY <4>1, <4>2 DEF FreshId
      <3>5. SavedDistinct' /\ Emptied'
        BY <2>2 DEF IdsInv, SavedDistinct, Emptied
      <3>6. Restored'
        BY <2>2 DEF Restored, Held, Base, RInv, RestoredFirst
      <3> QED  BY <3>3, <3>4, <3>5, <3>6 DEF IdsInv
    <2> QED  BY <2>1, <2>3, <2>4, OpensOwn
  <1> QED  BY <1>2, <1>3

\* The receive thread only takes sockets out.
LEMMA ReceiveIds ==
    ASSUME Held, IdsInv, NEW r \in Receivers, Receive(r)
    PROVE  IdsInv'
  <1>1. table \in [Slots -> Ctxs \cup {NoCtx}] /\ ctx \in [Ctxs -> CtxT]
    BY HeldTypes
  <1>2. UNCHANGED <<at, saved, recover, open>>
    BY Zenon DEF Receive, RcvStart, RcvScan, RcvDrops, RcvDelete, RcvScanned, RcvSelect, RcvServe,
       RcvServed, RcvExit
  <1>3. CASE RcvDelete(r)
    <2>1. /\ ctx' = [ctx EXCEPT ![table[rcv[r].i]] = Dead]
          /\ table' = [table EXCEPT ![rcv[r].i] = NoCtx]
          /\ rcv[r].i \in Slots /\ table[rcv[r].i] # NoCtx
      BY <1>3 DEF RcvDelete, Held, FInv, Deleting
    <2>2. \A i \in Slots : \/ table'[i] = NoCtx
                           \/ table'[i] = table[i] /\ ctx'[table[i]].id = ctx[table[i]].id
      BY <1>1, <2>1 DEF Held, FInv, Distinct
    <2>3. \A c \in Ctxs : open[c].pc \in {"slot", "socket", "connect"} => ctx'[c].id = ctx[c].id
      BY <1>1, <2>1 DEF Held, FInv, Outside, Preparing
    <2> QED  BY <1>2, <2>2, <2>3, IdsKeep
  <1>4. CASE ~ RcvDelete(r)
    <2>1. table' = table
      BY <1>4, ServeSays DEF Receive, RcvStart, RcvScan, RcvDrops, RcvScanned, RcvSelect,
         RcvServed, RcvExit
    <2>2. \A c \in Ctxs : ctx'[c].id = ctx[c].id
      <3>1. CASE ctx' = ctx
        BY <3>1
      <3>2. CASE RcvDrops(r)
        <4>1. \A d \in Ctxs : \A mine : Failed(d, mine).id = ctx[d].id
          BY <1>1 DEF Failed, CtxT
        <4>2. PICK other, mine :
                ctx' = [d \in Ctxs |-> IF d = other THEN Failed(d, mine) ELSE ctx[d]]
          BY <3>2, Zenon DEF RcvDrops
        <4> QED  BY <4>1, <4>2
      <3> QED
        BY <1>4, <3>1, <3>2, ServeSays DEF Receive, RcvStart, RcvScan, RcvScanned, RcvSelect,
           RcvServed, RcvExit
    <2>3. \A i \in Slots : \/ table'[i] = NoCtx
                           \/ table'[i] = table[i] /\ ctx'[table[i]].id = ctx[table[i]].id
      BY <1>1, <2>1, <2>2
    <2> QED  BY <1>2, <2>2, <2>3, IdsKeep
  <1> QED  BY <1>3, <1>4

\* Sockets are saved with their ids and restored to the slots of these ids.
LEMMA PowerIds ==
    ASSUME Held, IdsInv, Restore \/ DeepSleep \/ ChipReset
    PROVE  IdsInv'
  <1>1. /\ table \in [Slots -> Ctxs \cup {NoCtx}] /\ ctx \in [Ctxs -> CtxT]
        /\ open \in [Ctxs -> OpenT] /\ at \in AtT /\ saved \in [Slots -> Ids \cup {NoId}]
        /\ Ids = Slots /\ NoId \notin Ids
    BY HeldTypes, Numbers DEF NoId, Ids, Slots
  <1>2. CASE Resume
    <2>1. UNCHANGED <<table, ctx, open>> /\ recover /\ at.pc = "idle"
      BY <1>2 DEF Resume
    <2>2. \A k \in Slots : table[k] = NoCtx
      BY <2>1 DEF IdsInv, Emptied
    <2>3. SavedDistinct'
      BY <1>1, <1>2 DEF Resume, NothingSaved, IdsInv, SavedDistinct
    <2> QED  BY <2>1, <2>2, <2>3 DEF IdsInv, IdsDistinct, FreshId, SlotsOf, Emptied, Restored
  <1>3. CASE RestoreEnd
    <2>1. UNCHANGED <<table, ctx, open>> /\ ~recover' /\ at' = AtIdle /\ saved' = NothingSaved
      BY <1>3 DEF RestoreEnd
    <2>2. SavedDistinct' /\ Emptied' /\ Restored'
      BY <2>1 DEF SavedDistinct, Emptied, Restored, NothingSaved, AtIdle
    <2> QED  BY <2>1, <2>2 DEF IdsInv, IdsDistinct, FreshId, SlotsOf
  <1>4. CASE DeepSleep
    <2>1. /\ \A k \in Slots : table'[k] = NoCtx
          /\ open' = open /\ at' = at /\ at.pc = "idle"
      BY <1>4 DEF DeepSleep
    <2>2. SavedDistinct'
      <3>1. CASE saved' = saved
        BY <3>1 DEF IdsInv, SavedDistinct
      <3>2. CASE saved' = [i \in Slots |-> IF table[i] # NoCtx /\ ctx[table[i]].type = "udp"
                                             THEN ctx[table[i]].id ELSE NoId]
        BY <3>2 DEF IdsInv, IdsDistinct, SavedDistinct
      <3> QED  BY <1>4, <3>1, <3>2 DEF DeepSleep
    <2> QED  BY <2>1, <2>2 DEF IdsInv, IdsDistinct, FreshId, SlotsOf, Emptied, Restored
  <1>5. CASE ChipReset
    <2>1. /\ \A k \in Slots : table'[k] = NoCtx
          /\ saved' = saved
      BY <1>5 DEF ChipReset
    <2> QED  BY <2>1 DEF IdsInv, IdsDistinct, FreshId, SlotsOf, SavedDistinct, Emptied, Restored
  <1>6. CASE RestoreSlot
    <2>1. /\ at.pc = "restore" /\ at.slot \in Slots /\ at.slot \in Nat
          /\ UNCHANGED <<open, saved, recover>>
      BY <1>6, Numbers DEF RestoreSlot, Breaks
    <2>2. \A c \in Ctxs : open[c].pc = "none"
      BY <2>1 DEF Held, Base, RInv, RestoredFirst
    <2>3. /\ SavedDistinct'
          /\ \A k \in Slots : table[k] # NoCtx =>
                /\ ctx[table[k]].id = k
                /\ \E j \in Slots : j < at.slot /\ saved[j] = k
      BY <2>1 DEF IdsInv, SavedDistinct, Restored
    <2>4. \A j \in Slots : j \in Nat
      BY Numbers
    <2>5. at'.pc = "restore" /\ (at' = at \/ at'.slot = at.slot + 1)
      BY <1>1, <1>6 DEF RestoreSlot, Breaks, AtT
    <2>6. ASSUME NEW k \in Slots, table'[k] # NoCtx
          PROVE  ctx'[table'[k]].id = k /\ \E j \in Slots : j < at'.slot /\ saved[j] = k
      <3>1. CASE UNCHANGED <<table, ctx>>
        BY <2>1, <2>3, <2>4, <2>5, <2>6, <3>1
      <3>2. CASE ~ UNCHANGED <<table, ctx>>
        <4> DEFINE n == NewCtx
        <4>1. /\ saved[at.slot] # NoId /\ FreeCtxs # {} /\ at'.slot = at.slot + 1
              /\ ctx' = [ctx EXCEPT ![n] = [Fresh(saved[at.slot], "udp") EXCEPT
                               !.fd = Least(FreeFds), !.state = [s \in Seqs |-> "unused"]]]
              /\ table' = [table EXCEPT ![saved[at.slot]] = n]
          BY <1>1, <1>6, <3>2 DEF RestoreSlot, Breaks, AtT
        <4>2. n \in Ctxs /\ \A i \in Slots : table[i] # n
          BY <4>1, SockAssumption DEF NewCtx, FreeCtxs, Held, FInv, Live
        <4> HIDE DEF n
        <4>3. ctx'[n].id = saved[at.slot]
          BY <1>1, <4>1, <4>2 DEF Fresh, Dead
        <4>4. CASE k = saved[at.slot]
          BY <1>1, <2>1, <4>1, <4>2, <4>3, <4>4
        <4>5. CASE k # saved[at.slot]
          <5>1. table'[k] = table[k] /\ ctx'[table[k]] = ctx[table[k]]
            BY <1>1, <2>6, <4>1, <4>2, <4>5
          <5>2. PICK j \in Slots : j < at.slot /\ saved[j] = k
            BY <2>3, <2>6, <5>1
          <5>3. j < at'.slot
            BY <2>1, <2>4, <4>1, <5>2
          <5> QED  BY <2>3, <2>6, <5>1, <5>2, <5>3
        <4> QED  BY <4>4, <4>5
      <3> QED  BY <3>1, <3>2
    <2>7. Restored' /\ IdsDistinct' /\ Emptied' /\ FreshId'
      BY <2>1, <2>2, <2>5, <2>6 DEF Restored, IdsDistinct, Emptied, FreshId
    <2> QED  BY <2>3, <2>7 DEF IdsInv
  <1> QED  BY <1>2, <1>3, <1>4, <1>5, <1>6 DEF Restore

\* No assertion of these files fails in a step.
LEMMA NoAssertStep ==
    ASSUME Held, FdsHome, IdsInv, AtHome, NoAssertFails, [Next]_vars
    PROVE  NoAssertFails'
  <1>1. CASE RestoreSlot
    <2>1. at.pc = "restore" /\ at.slot \in Slots /\ saved[at.slot] \in Ids \cup {NoId} /\ Ids = Slots
      BY <1>1, HeldTypes, Numbers DEF RestoreSlot
    <2>2. saved[at.slot] # NoId => table[saved[at.slot]] = NoCtx
      <3>1. SUFFICES ASSUME saved[at.slot] # NoId, table[saved[at.slot]] # NoCtx  PROVE FALSE
        OBVIOUS
      <3>2. PICK j \in Slots : j < at.slot /\ saved[j] = saved[at.slot]
        BY <2>1, <3>1 DEF IdsInv, Restored
      <3>3. j = at.slot
        BY <2>1, <3>1, <3>2 DEF IdsInv, SavedDistinct
      <3> QED  BY <2>1, <3>2, <3>3, Numbers
    <2>3. broken' = broken
      BY <1>1, <2>2 DEF RestoreSlot
    <2> QED  BY <2>3 DEF NoAssertFails
  <1>2. CASE \E r \in Receivers : RcvSelect(r)
    <2>1. PICK r \in Receivers : RcvSelect(r)
      BY <1>2
    <2>2. \A f \in rcv[r].fds : conn[f].open
      BY DEF FdsHome, Held, FInv, FdsOwned
    <2> QED  BY <2>1, <2>2 DEF RcvSelect, NoAssertFails
  <1>3. CASE SendAdd
    <2>1. ctx[at.ctx].live => SlotsOf(ctx[at.ctx].id) # {}
      <3>1. at.pc = "add" /\ at.ctx \in Ctxs /\ at.ctx # NoCtx
        BY <1>3, SockAssumption DEF SendAdd, Held, TInv, Indices
      <3>2. ASSUME ctx[at.ctx].live  PROVE \E i \in Slots : i \in SlotsOf(ctx[at.ctx].id)
        BY <3>1, <3>2 DEF AtHome, SlotsOf
      <3> QED  BY <3>2
    <2> QED  BY <1>3, <2>1 DEF SendAdd, Breaks, NoAssertFails
  <1>4. CASE ~ (RestoreSlot \/ SendAdd \/ \E r \in Receivers : RcvSelect(r))
    <2>1. broken' \in {broken, "wild", "no"}
      <3>1. CASE Traffic
        BY <1>4, <3>1, Zenon DEF Traffic, Sending, QICLOSE, QISEND, PassData, Send, SendEnds, SendMark,
           AckTcp, ConfirmUdp, AckMark, Arrives, Reset, NetDown, Breaks
      <3>2. CASE \E r \in Receivers : Receive(r)
        BY <1>4, <3>2, Zenon DEF Receive, RcvStart, RcvScan, RcvDrops, RcvDelete, RcvScanned, RcvServe,
           RcvServed, RcvExit
      <3>3. CASE \E c \in Ctxs : Open(c)
        BY <3>3, Zenon DEF Open, OpenSlot, OpenSocket, OpenConnected, OpenRefused, OpenThread, OpenCreate,
           OpenReport
      <3>4. CASE UNCHANGED vars \/ (\E id \in Ids, type \in Types : QIOPEN(id, type))
                 \/ Resume \/ RestoreEnd \/ DeepSleep \/ ChipReset
        BY <3>4, Zenon DEF vars, QIOPEN, Resume, RestoreEnd, DeepSleep, ChipReset
      <3> QED  BY <1>4, <3>1, <3>2, <3>3, <3>4 DEF Next, Traffic, Restore
    <2> QED  BY <2>1 DEF NoAssertFails
  <1> QED  BY <1>1, <1>2, <1>3, <1>4

\* The assertions of at_socket hold (the EBADF of select, xy_assert of restore_udp_context
\* and of add_sninfo_node), if the MCU opens one socket at a time, resumes the saved ones
\* first and a saved host is an address; whatever the network does.
THEOREM NoAssertionFails == Sequential /\ "host_is_ip" \in Env => (Spec => []NoAssertFails)
PROOF
  <1> SUFFICES ASSUME Sequential, "host_is_ip" \in Env  PROVE Spec => []NoAssertFails
    OBVIOUS
  <1> DEFINE I == Held /\ FdsHome /\ IdsInv /\ AtHome /\ NoAssertFails
  <1>1. Init => I
    <2> SUFFICES ASSUME Init  PROVE I
      OBVIOUS
    <2>1. Held
      BY BaseInit, OwnedInit, TypeInit DEF Held
    <2>2. FdsHome /\ AtHome
      BY DEF Init, NoRcv, AtIdle, FdsHome, AtHome
    <2>3. IdsInv
      BY DEF Init, AtIdle, NothingSaved, IdsInv, IdsDistinct, FreshId, SlotsOf, SavedDistinct,
         Emptied, Restored
    <2> QED  BY <2>1, <2>2, <2>3 DEF Init, NoAssertFails
  <1>2. I /\ [Next]_vars => I'
    <2> SUFFICES ASSUME I, [Next]_vars  PROVE I'
      OBVIOUS
    <2>1. Held'
      BY BaseStep, OwnedStep, TypeStep DEF Held
    <2>2. IdsInv'
      BY TrafficIds, OpenIds, ReceiveIds, PowerIds DEF Next, Traffic
    <2> QED  BY <2>1, <2>2, FdsHomeStep, AtHomeStep, NoAssertStep
  <1> QED  BY <1>1, <1>2, PTL DEF Spec

============================================================================
