------------------------------ MODULE CoreMsg ------------------------------
(***************************************************************************)
(* The messages between the cores above the rings (SYSAPP/shm_msg): who    *)
(* owns the buffers that are passed by address, and who waits for whom.    *)
(*   - the thread inter_core_msg is the only reader of rx; it gives the    *)
(*     buffers of the DSP back (ICM_FREE) and may not wait for tx, so it   *)
(*     leaves that to xy_proxy when tx is full;                            *)
(*   - at_ctl and xy_proxy exchange messages through two bounded queues,   *)
(*     and both write to tx, as do the threads of the applications;        *)
(*   - send_shm_msg_sync sends a request and waits for the answer that     *)
(*     the reader recognises by g_sync_shm_msg_id.                         *)
(* A ring is a bounded sequence here (IpcMsgWrite, IpcMsgRead).  A writer  *)
(* that finds tx full tries again every 50 ms: it waits.  That it asserts  *)
(* after 200 tries is left out, and so are logs.  The DSP is loaded, each  *)
(* answer has content, and the id of a pending request comes only with its *)
(* answer: rcv_shm_msg_process looks at nothing else.  A packet goes to    *)
(* lwIP once (g_double_trance of ps_netif_api.c, a test setting, is 0).    *)
(***************************************************************************)
EXTENDS Naturals, Sequences, FiniteSets

CONSTANTS
    Pool, Dram,      \* buffers of the DSP, in shared SRAM and in its own memory
    ArmBufs,         \* aligned buffers of this core
    Apps,            \* threads that call send_shm_msg_sync, and their message ids
    None,
    TxCap, RxCap,    \* messages that fit into the rings
    Flow,            \* messages that fit into g_flow_control_below_size
    ProxyCap, AtCap, \* the lengths of xy_proxy_msg_q and at_msg_q
    Cmds,            \* AT commands that the MCU has under way at most
    Burst            \* lines of the stack that at_ctl is behind with at most

ASSUME CoreAssumption ==
    /\ Pool \cap Dram = {} /\ (Pool \cup Dram) \cap ArmBufs = {}
    /\ None \notin Pool \cup Dram \cup ArmBufs \cup Apps
    /\ IsFiniteSet(Pool) /\ IsFiniteSet(Dram)
    /\ {TxCap, RxCap, Flow, ProxyCap, AtCap, Cmds, Burst} \subseteq Nat

VARIABLES
    tx, rx,            \* the rings IpcMsg_Normal to and from the DSP
    dspFree, armFree,  \* the free buffers of the two heaps
    reader,            \* the thread inter_core_msg, with the message it works on
    proxyQ, atQ,       \* xy_proxy_msg_q and at_msg_q
    proxy, atctl,      \* what xy_proxy and at_ctl are about to do
    cmds,              \* AT commands under way
    held,              \* buffers of the DSP that the stacks still use
    mux, syncId,       \* g_shmmsg_mux, g_sync_shm_msg_id
    sem, answer,       \* g_shmmsg_sem; g_shmmsg_buf with the request it answers
    app,               \* the threads in send_shm_msg_sync
    dsp, owed          \* the reader of tx, and the requests without an answer yet

vars == <<tx, rx, dspFree, armFree, reader, proxyQ, atQ, proxy, atctl, cmds, held,
          mux, syncId, sem, answer, app, dsp, owed>>
m3 == <<reader, proxyQ, atQ, proxy, atctl, cmds, held>>
sync == <<mux, syncId, sem, answer, app>>
heaps == <<dspFree, armFree>>
remote == <<dsp, owed>>

DspBufs == Pool \cup Dram
Downlink == {"at", "ip", "msg", "ans"}
Msg(k, b, of) == [k |-> k, b |-> b, of |-> of]
FreeMsg(b) == Msg("free", b, None)
NoAnswer == [b |-> None, of |-> None]
Idle == [pc |-> "get", b |-> None]

TxRoom == TxCap - Len(tx)
RxRoom == RxCap - Len(rx)
Send(m) == TxRoom > 0 /\ tx' = Append(tx, m)
ArmBuf == CHOOSE b \in armFree : TRUE  \* xy_zalloc_Align: buffers are alike

Init ==
    /\ tx = <<>> /\ rx = <<>>
    /\ dspFree = DspBufs /\ armFree = ArmBufs
    /\ reader = [pc |-> "read", m |-> FreeMsg(None)]
    /\ proxyQ = <<>> /\ atQ = <<>>
    /\ proxy = Idle /\ atctl = Idle
    /\ cmds = 0 /\ held = {}
    /\ mux = None /\ syncId = None /\ sem = 0 /\ answer = NoAnswer
    /\ app = [u \in Apps |-> [pc |-> "idle", b |-> None]]
    /\ dsp = Idle /\ owed = {}

-----------------------------------------------------------------------------
(* The thread inter_core_msg. *)

At(pc) == reader' = [reader EXCEPT !.pc = pc]
(* The reader's buffer is now a copy on this core's heap, or another's.     *)
Without(pc) == reader' = [pc |-> pc, m |-> [reader.m EXCEPT !.b = None]]

(* All that the reader ever waits for: a message, a place in tx or in       *)
(* xy_proxy_msg_q, a place in at_msg_q.                                     *)
CanRead == reader.pc = "read" /\ rx # <<>>
CanGive == reader.pc = "give" /\ TxRoom > 0
CanHand_Never == FALSE  \* Mutant: the reader waits for tx
CanHand == reader.pc = "give" /\ TxRoom = 0 /\ Len(proxyQ) < ProxyCap
CanDeliver == reader.pc = "deliver" /\ (reader.m.k = "at" => Len(atQ) < AtCap)

(* IpcMsg_Read.  zero_cp_transfer copies what lies in the memory of the DSP *)
(* and frees it first; what lies in the pool is used where it is.           *)
Read ==
    /\ CanRead
    /\ LET m == Head(rx) IN
         IF m.k = "free"
           THEN armFree' = armFree \cup {m.b} /\ UNCHANGED reader
           ELSE /\ reader' = [pc |-> IF m.b \in Dram THEN "give" ELSE "deliver", m |-> m]
                /\ UNCHANGED armFree
    /\ rx' = Tail(rx)
    /\ UNCHANGED <<tx, dspFree, proxyQ, atQ, proxy, atctl, cmds, held, sync, remote>>

(* Whoever frees a buffer of the pool after the delivery does so as "give". *)
AfterGive == IF reader.m.b \in Dram THEN "deliver" ELSE "read"
Delivered == IF reader.m.b = None THEN Without("read") ELSE At("give")

(* xy_MemFree of a buffer of the DSP, in the reader: it goes into tx, *)
Give ==
    /\ CanGive
    /\ Send(FreeMsg(reader.m.b))
    /\ Without(AfterGive)
    /\ UNCHANGED <<rx, heaps, proxyQ, atQ, proxy, atctl, cmds, held, sync, remote>>

(* or, when tx is full, to xy_proxy. *)
Hand_Retries ==  \* Mutant: and then tries tx again
    /\ CanHand
    /\ proxyQ' = Append(proxyQ, FreeMsg(reader.m.b))
    /\ UNCHANGED <<tx, rx, heaps, reader, atQ, proxy, atctl, cmds, held, sync, remote>>

Hand ==
    /\ CanHand
    /\ proxyQ' = Append(proxyQ, FreeMsg(reader.m.b))
    /\ Without(AfterGive)
    /\ UNCHANGED <<tx, rx, heaps, atQ, proxy, atctl, cmds, held, sync, remote>>

(* at_rcv_from_nearps: at_ctl gets a copy, then the buffer is freed. *)
DeliverAt ==
    /\ CanDeliver /\ reader.m.k = "at"
    /\ atQ' = Append(atQ, "rsp")
    /\ Delivered
    /\ UNCHANGED <<tx, rx, heaps, proxyQ, proxy, atctl, cmds, held, sync, remote>>

(* lwIP and the stack's thread keep the buffer and free it when they have     *)
(* done; or the reader does so itself: no interface for the packet, an error  *)
(* of its input, a packet dropped for a test or for a non-IP user.            *)
DeliverData ==
    /\ CanDeliver /\ reader.m.k = "ip"
    /\ \/ held' = held \cup ({reader.m.b} \ {None}) /\ Without("read")
       \/ Delivered /\ UNCHANGED held
    /\ UNCHANGED <<tx, rx, heaps, proxyQ, atQ, proxy, atctl, cmds, sync, remote>>

(* rcv_shm_msg_process: the answer that is waited for, or a callback. *)
DeliverMsg ==
    /\ CanDeliver /\ reader.m.k \in {"msg", "ans"}
    /\ IF reader.m.k = "ans" /\ reader.m.of = syncId
         THEN /\ answer' = [b |-> reader.m.b, of |-> reader.m.of]
              /\ sem' = sem + 1
              /\ Without("read")
         ELSE Delivered /\ UNCHANGED <<answer, sem>>
    /\ UNCHANGED <<tx, rx, heaps, proxyQ, atQ, proxy, atctl, cmds, held, mux, syncId, app, remote>>

-----------------------------------------------------------------------------
(* at_ctl, xy_proxy and the threads of the stacks. *)

(* The UART thread passes a command of the MCU on. *)
McuCmd ==
    /\ cmds < Cmds /\ Len(atQ) < AtCap
    /\ atQ' = Append(atQ, "cmd")
    /\ cmds' = cmds + 1
    /\ UNCHANGED <<tx, rx, heaps, reader, proxyQ, proxy, atctl, held, sync, remote>>

(* at_ctl: a line goes to the UART, and a change of the PDN to xy_proxy as   *)
(* well; a command goes to the stack, to xy_proxy, or, the stack being busy, *)
(* back into its own queue.                                                  *)
AtGet ==
    /\ atctl.pc = "get" /\ atQ # <<>>
    /\ atQ' = Tail(atQ)
    /\ IF Head(atQ) = "rsp"
       THEN atctl' \in {Idle, [Idle EXCEPT !.pc = "pdp"]} /\ UNCHANGED armFree
       ELSE \/ /\ armFree # {}
               /\ atctl' = [pc |-> "tx", b |-> ArmBuf] /\ armFree' = armFree \ {ArmBuf}
            \/ \E pc \in {"proxy", "again"} :
                 atctl' = [Idle EXCEPT !.pc = pc] /\ UNCHANGED armFree
    /\ UNCHANGED <<tx, rx, dspFree, reader, proxyQ, proxy, cmds, held, sync, remote>>

AtForward ==
    /\ atctl.pc = "tx"
    /\ Send(Msg("at", atctl.b, None))
    /\ atctl' = Idle /\ cmds' = cmds - 1
    /\ UNCHANGED <<rx, heaps, reader, proxyQ, atQ, proxy, held, sync, remote>>

AtToProxy ==
    /\ atctl.pc \in {"proxy", "pdp"} /\ Len(proxyQ) < ProxyCap
    /\ proxyQ' = Append(proxyQ, Msg(IF atctl.pc = "pdp" THEN "pdp" ELSE "cmd", None, None))
    /\ atctl' = Idle
    /\ UNCHANGED <<tx, rx, heaps, reader, atQ, proxy, cmds, held, sync, remote>>

AtAgain ==
    /\ atctl.pc = "again" /\ Len(atQ) < AtCap
    /\ atQ' = Append(atQ, "cmd")
    /\ atctl' = Idle
    /\ UNCHANGED <<tx, rx, heaps, reader, proxyQ, proxy, cmds, held, sync, remote>>

(* xy_proxy_ctl: a buffer to give back, a PDN that came or went, or a        *)
(* command, which it answers, or sends on to the stack, or, the stack being  *)
(* busy, back to at_ctl.                                                     *)
ProxyGet ==
    /\ proxy.pc = "get" /\ proxyQ # <<>>
    /\ proxyQ' = Tail(proxyQ)
    /\ LET m == Head(proxyQ) IN
         \/ m.k = "free" /\ proxy' = [pc |-> "free", b |-> m.b] /\ UNCHANGED <<armFree, cmds>>
         \/ m.k = "pdp" /\ UNCHANGED <<proxy, armFree, cmds>>
         \/ m.k = "cmd" /\ cmds' = cmds - 1 /\ UNCHANGED <<proxy, armFree>>
         \/ m.k = "cmd" /\ proxy' = [Idle EXCEPT !.pc = "again"] /\ UNCHANGED <<armFree, cmds>>
         \/ /\ m.k = "cmd" /\ armFree # {}
            /\ proxy' = [pc |-> "at", b |-> ArmBuf] /\ armFree' = armFree \ {ArmBuf}
            /\ UNCHANGED cmds
    /\ UNCHANGED <<tx, rx, dspFree, reader, atQ, atctl, held, sync, remote>>

ProxyWrite ==
    /\ proxy.pc \in {"free", "at"}
    /\ Send(Msg(proxy.pc, proxy.b, None))
    /\ cmds' = IF proxy.pc = "at" THEN cmds - 1 ELSE cmds
    /\ proxy' = Idle
    /\ UNCHANGED <<rx, heaps, reader, proxyQ, atQ, atctl, held, sync, remote>>

ProxyAgain ==
    /\ proxy.pc = "again" /\ Len(atQ) < AtCap
    /\ atQ' = Append(atQ, "cmd")
    /\ proxy' = Idle
    /\ UNCHANGED <<tx, rx, heaps, reader, proxyQ, atctl, cmds, held, sync, remote>>

(* A stack has done with a buffer; its thread waits for tx. *)
StackFrees(b) ==
    /\ b \in held
    /\ Send(FreeMsg(b))
    /\ held' = held \ {b}
    /\ UNCHANGED <<rx, heaps, reader, proxyQ, atQ, proxy, atctl, cmds, sync, remote>>

(* An IP packet, which is dropped when tx is nearly full. *)
IpOut ==
    /\ armFree # {} /\ TxRoom > Flow
    /\ Send(Msg("ip", ArmBuf, None))
    /\ armFree' = armFree \ {ArmBuf}
    /\ UNCHANGED <<rx, dspFree, m3, sync, remote>>

-----------------------------------------------------------------------------
(* send_shm_msg_sync. *)

Moves(u, pc, b) == app' = [app EXCEPT ![u] = [pc |-> pc, b |-> b]]

SyncBegin_NoMutex(u) ==  \* Mutant: g_shmmsg_mux is not taken
    /\ app[u].pc = "idle" /\ armFree # {}
    /\ mux' = u /\ syncId' = u
    /\ armFree' = armFree \ {ArmBuf}
    /\ Moves(u, "write", ArmBuf)
    /\ UNCHANGED <<tx, rx, dspFree, m3, sem, answer, remote>>

SyncBegin(u) ==
    /\ app[u].pc = "idle" /\ mux = None /\ armFree # {}
    /\ mux' = u /\ syncId' = u
    /\ armFree' = armFree \ {ArmBuf}
    /\ Moves(u, "write", ArmBuf)
    /\ UNCHANGED <<tx, rx, dspFree, m3, sem, answer, remote>>

SyncWrite(u) ==
    /\ app[u].pc = "write"
    /\ Send(Msg("req", app[u].b, u))
    /\ Moves(u, "wait", None)
    /\ UNCHANGED <<rx, heaps, m3, mux, syncId, sem, answer, remote>>

(* The answer is there: the id is reset and the content copied, *)
SyncTake(u) ==
    /\ app[u].pc = "wait" /\ sem > 0
    /\ sem' = sem - 1 /\ syncId' = None
    /\ Moves(u, "take", None)
    /\ UNCHANGED <<tx, rx, heaps, m3, mux, answer, remote>>

(* and its buffer freed before the next request may begin. *)
SyncEnd(u) ==
    /\ app[u].pc = "take"
    /\ IF answer.b \in DspBufs THEN Send(FreeMsg(answer.b)) ELSE UNCHANGED tx
    /\ answer' = NoAnswer /\ mux' = None
    /\ Moves(u, "idle", None)
    /\ UNCHANGED <<rx, heaps, m3, syncId, sem, remote>>

-----------------------------------------------------------------------------
(* The DSP.  Its reader gives this core's buffers back itself and waits for *)
(* rx, the worst case, which the comment at inter_core_msg.c:87 is about.   *)

DspRead ==
    /\ dsp.pc = "get" /\ tx # <<>>
    /\ tx' = Tail(tx)
    /\ LET m == Head(tx) IN
         IF m.k = "free" THEN dspFree' = dspFree \cup {m.b} /\ UNCHANGED remote
         ELSE /\ dsp' = [pc |-> "reply", b |-> m.b]
              /\ owed' = owed \cup ({m.of} \ {None})
              /\ UNCHANGED dspFree
    /\ UNCHANGED <<rx, armFree, m3, sync>>

DspGives ==
    /\ dsp.pc = "reply" /\ RxRoom > 0
    /\ rx' = Append(rx, FreeMsg(dsp.b))
    /\ dsp' = Idle
    /\ UNCHANGED <<tx, heaps, m3, sync, owed>>

Lines == Cardinality({i \in DOMAIN atQ : atQ[i] = "rsp"}) + Cardinality({i \in DOMAIN rx : rx[i].k = "at"})
         + (IF reader.pc # "read" /\ reader.m.k = "at" THEN 1 ELSE 0)

DspSends(k, b) ==
    /\ b \in dspFree /\ RxRoom > 0
    /\ k = "at" => Lines < Burst
    /\ rx' = Append(rx, Msg(k, b, None))
    /\ dspFree' = dspFree \ {b}
    /\ UNCHANGED <<tx, armFree, m3, sync, remote>>

DspAnswers(u, b) ==
    /\ u \in owed /\ b \in dspFree /\ RxRoom > 0
    /\ rx' = Append(rx, Msg("ans", b, u))
    /\ dspFree' = dspFree \ {b} /\ owed' = owed \ {u}
    /\ UNCHANGED <<tx, armFree, m3, sync, dsp>>

-----------------------------------------------------------------------------
Reader == Read \/ Give \/ Hand \/ DeliverAt \/ DeliverData \/ DeliverMsg
AtCtl == AtGet \/ AtForward \/ AtToProxy \/ AtAgain
Proxy == ProxyGet \/ ProxyWrite \/ ProxyAgain
Sync(u) == SyncWrite(u) \/ SyncTake(u) \/ SyncEnd(u)

Next ==
    \/ Reader \/ AtCtl \/ Proxy \/ McuCmd \/ IpOut
    \/ \E b \in Pool : StackFrees(b)
    \/ \E u \in Apps : SyncBegin(u) \/ Sync(u)
    \/ DspRead \/ DspGives
    \/ \E k \in Downlink \ {"ans"}, b \in DspBufs : DspSends(k, b)
    \/ \E u \in Apps, b \in DspBufs : DspAnswers(u, b)

Spec == Init /\ [][Next]_vars

(* Every thread runs, and one that waits for a place in a ring gets it in   *)
(* the end if there is one time and again.  Nothing is assumed of at_ctl.   *)
Fairness ==
    /\ WF_vars(Reader) /\ SF_vars(Proxy)
    /\ \A b \in Pool : SF_vars(StackFrees(b))
    /\ SF_vars(\E u \in Apps : Sync(u))
    /\ WF_vars(DspRead) /\ SF_vars(DspGives)
FairSpec == Spec /\ Fairness

-----------------------------------------------------------------------------
(* Properties *)

In(q, b) == {i \in DOMAIN q : q[i].b = b}

(* Where a buffer is: free, on its way in a message, or with a thread. *)
Places(b) ==
    ({"tx"} \X In(tx, b)) \cup ({"rx"} \X In(rx, b)) \cup ({"proxyQ"} \X In(proxyQ, b))
    \cup ({"app"} \X {u \in Apps : app[u].b = b})
    \cup {<<p, 0>> : p \in
            (IF b \in dspFree \cup armFree THEN {"free"} ELSE {})
            \cup (IF b \in held THEN {"held"} ELSE {})
            \cup (IF reader.m.b = b THEN {"reader"} ELSE {})
            \cup (IF proxy.b = b THEN {"proxy"} ELSE {})
            \cup (IF atctl.b = b THEN {"atctl"} ELSE {})
            \cup (IF answer.b = b THEN {"answer"} ELSE {})
            \cup (IF dsp.b = b THEN {"dsp"} ELSE {})}

(* Every buffer of either core has one owner at any time: it is given back  *)
(* once and not used after that (zero_cp_transfer, xy_MemFree, the handover *)
(* to xy_proxy, g_shmmsg_buf).                                              *)
OnePlace == \A b \in DspBufs \cup ArmBufs : Cardinality(Places(b)) = 1

(* Who wakes up in send_shm_msg_sync has the answer to its own request.     *)
AnswerMatches == \A u \in Apps : app[u].pc = "take" => answer.of = u /\ mux = u

(* The changes of the PDN that xy_proxy has not seen yet. *)
Changes == Cardinality({i \in DOMAIN proxyQ : proxyQ[i].k = "pdp"})

(* The comment at inter_core_msg.c:87 wants the reader never to wait, so    *)
(* that a DSP that waits for rx goes on.  It waits only in a flood, not     *)
(* because tx is full: to give a buffer back only when the buffers          *)
(* that the DSP misses, the commands under way and the changes of the PDN   *)
(* are more than xy_proxy_msg_q holds, and to deliver a line only when the  *)
(* lines that at_ctl is behind with and the commands are more than at_msg_q *)
(* holds (xy_proxy.c:130, at_ctl.c:402).                                    *)
ReaderWaitsInFlood ==
    /\ reader.pc = "give" =>
         CanGive \/ CanHand \/ ProxyCap < Cardinality(DspBufs \ dspFree) + cmds + Changes
    /\ reader.pc = "deliver" => CanDeliver \/ AtCap < Lines + cmds

(* The DSP gets every buffer back: the two cores never wait for each other, *)
(* although both rings and both queues may be full.                         *)
Freed == \A b \in DspBufs : b \notin dspFree ~> b \in dspFree
=============================================================================
