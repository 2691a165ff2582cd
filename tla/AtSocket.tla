------------------------------ MODULE AtSocket ------------------------------
(***************************************************************************)
(* The sockets of the AT commands AT+QIOPEN, QISEND, QICLOSE and QISTATE   *)
(* (APPLIB/at_socket).  The table sock_ctx of SOCK_NUM pointers is shared, *)
(* without a common lock, by                                               *)
(*   - the AT handlers, which run in the thread xy_proxy,                  *)
(*   - one thread sck_open per AT+QIOPEN,                                  *)
(*   - the receive thread sck_rcv, the only one that deletes a socket,     *)
(*   - the thread sck_pthr, which sends the data of pass-through mode,     *)
(*   - at_ctl, which handles the +TCPACK notices of the TCP/IP stack, and  *)
(*     the protocol stack, which confirms datagrams (urc_UDPSN_Callback).  *)
(* Deep sleep saves the UDP sockets; a later command makes them again.     *)
(*                                                                         *)
(* The code is correct only in an environment that it does not enforce.    *)
(* Env names the assumptions a run makes:                                  *)
(*   one_open      the MCU waits for +QIOPEN before it opens or closes     *)
(*   resume_first  it resumes the saved sockets before it opens another    *)
(*   one_send      it waits for SEND OK or SEND FAIL before it sends or    *)
(*                 closes, and for CLOSE OK before it sends or opens       *)
(*   slow_net      a connection is made, data acknowledged, only when the  *)
(*                 threads above have come to rest                         *)
(*   calm_net      no reset and no loss of the PDP context while the MCU   *)
(*                 opens a socket or sends, or just before, until noticed; *)
(*                 nothing is acknowledged after such a loss               *)
(*   host_is_ip    a saved host is an address and lwIP has a descriptor    *)
(*                 for it: restoring it does not fail before socket()      *)
(***************************************************************************)
EXTENDS Naturals

CONSTANTS SockNum, Ctxs, NoCtx, FdNum, Seqs, MaxSn, MaxData, Types, Receivers, NoThread, Env

Assumptions == {"one_open", "resume_first", "one_send", "slow_net", "calm_net", "host_is_ip"}

ASSUME SockAssumption ==
    /\ SockNum \in Nat \ {0} /\ FdNum \in Nat \ {0} /\ MaxSn \in Nat /\ MaxData \in Nat
    /\ Seqs \subseteq Nat /\ Types \subseteq {"tcp", "udp"}
    /\ NoCtx \notin Ctxs /\ NoThread \notin Receivers
    /\ Env \subseteq Assumptions

VARIABLES
    table,    \* sock_ctx: the context in each slot, or NoCtx
    ctx,      \* the contexts of the heap
    conn,     \* lwIP: what is behind each descriptor
    nodes,    \* sn_info: what was sent and has no outcome yet
    air,      \* UDP data whose transmission is not confirmed yet
    open,     \* the thread sck_open that works on a context, with its ctx_id
    rcvId,    \* at_rcv_thread_id
    rcv,      \* the receive threads
    at,       \* what the AT handler, or pass-through mode for it, is doing
    ack,      \* the handler of +TCPACK and the one of the UDP confirmations
    saved,    \* the connect id saved in flash for each slot, or NoId; read while recover holds
    recover,  \* bit SOCKET_TASK of app_recovery_flag
    broken    \* "assert": xy_assert failed; "wild": an access through NULL or freed memory

vars == <<table, ctx, conn, nodes, air, open, rcvId, rcv, at, ack, saved, recover, broken>>

Slots == 0 .. SockNum - 1
Ids == Slots                       \* <connectID> is 0 .. SOCK_NUM - 1
NoId == SockNum
Fds == 0 .. FdNum - 1
NoFd == FdNum
Kinds == {"tcp", "udp"}
Statuses == {"unused", "failed", "success", "sending"}

Least(S) == CHOOSE x \in S : \A y \in S : x <= y
FreeSlots == {i \in Slots : table[i] = NoCtx}
SlotsOf(id) == {i \in Slots : table[i] # NoCtx /\ ctx[table[i]].id = id}
SlotsOfFd(f) == {i \in Slots : table[i] # NoCtx /\ ctx[table[i]].fd = f}
(* xy_zalloc: contexts are alike, so one choice stands for all. *)
FreeCtxs == {c \in Ctxs : ~ctx[c].live /\ open[c].pc = "none"}
NewCtx == CHOOSE c \in FreeCtxs : TRUE
FreeFds == {f \in Fds : ~conn[f].open}

Closed == [open |-> FALSE, type |-> "udp", up |-> FALSE, sent |-> 0, acked |-> 0,
           reset |-> FALSE, data |-> 0]
Dead == [live |-> FALSE, id |-> 0, type |-> "udp", fd |-> NoFd, quit |-> FALSE,
         deact |-> FALSE, state |-> [s \in Seqs |-> "failed"]]
Fresh_FromOne(id, type) == [Dead EXCEPT !.live = TRUE, !.id = id + 1, !.type = type]  \* Mutant
Fresh(id, type) == [Dead EXCEPT !.live = TRUE, !.id = id, !.type = type]
AtIdle == [pc |-> "idle", pass |-> FALSE, ctx |-> NoCtx, seq |-> 0, sn |-> 0, slot |-> 0, fd |-> NoFd]
NoAck == [pc |-> "idle", slot |-> 0, seq |-> 0, status |-> "success"]
NothingSaved == [i \in Slots |-> NoId]
NoRcv == [pc |-> "none", i |-> 0, fds |-> {}, rd |-> {}, ex |-> {}, back |-> "scan"]

(* Environment: the threads have come to rest. *)
RcvAtRest == \A r \in Receivers : rcv[r].pc \in {"none", "select"}
AcksAtRest == \A t \in Kinds : ack[t].pc = "idle"
Slow(A) == "slow_net" \in Env => A
Closing == \E i \in Slots : table[i] # NoCtx /\ ctx[table[i]].quit
Lost == \/ \E i \in Slots : table[i] # NoCtx /\ (ctx[table[i]].deact \/ conn[ctx[table[i]].fd].reset)
        \/ \E r \in Receivers : rcv[r].pc \in {"delete", "free"}
Calm == "calm_net" \in Env => at.pc = "idle" /\ AcksAtRest /\ \A c \in Ctxs : open[c].pc # "slot"

Init ==
    /\ table = [i \in Slots |-> NoCtx]
    /\ ctx = [c \in Ctxs |-> Dead]
    /\ conn = [f \in Fds |-> Closed]
    /\ nodes = {} /\ air = {}
    /\ open = [c \in Ctxs |-> [pc |-> "none", slot |-> 0]]
    /\ rcvId = NoThread
    /\ rcv = [r \in Receivers |-> NoRcv]
    /\ at = AtIdle
    /\ ack = [t \in Kinds |-> NoAck]
    /\ saved = NothingSaved
    /\ recover = FALSE
    /\ broken = "no"

-----------------------------------------------------------------------------
(* AT+QIOPEN and the thread sck_open. *)

(* at_QIOPEN_req: the command checks that a slot is free and the id unused, *)
(* and leaves everything else to a new thread.                              *)
QIOPEN(id, type) ==
    /\ at.pc = "idle"
    /\ "one_open" \in Env => \A d \in Ctxs : open[d].pc = "none"
    /\ "resume_first" \in Env => ~recover
    /\ "one_send" \in Env => ~Closing
    /\ "calm_net" \in Env => ~Lost
    /\ FreeSlots # {} /\ SlotsOf(id) = {}
    /\ FreeCtxs # {}
    /\ ctx' = [ctx EXCEPT ![NewCtx] = Fresh(id, type)]
    /\ open' = [open EXCEPT ![NewCtx].pc = "slot"]
    /\ UNCHANGED <<table, conn, nodes, air, rcvId, rcv, at, ack, saved, recover, broken>>

(* The thread gives up. *)
OpenFails(c) ==
    /\ open' = [open EXCEPT ![c] = [pc |-> "fails", slot |-> 0]]
    /\ UNCHANGED <<table, ctx>>

(* get_free_sock_id: the slot is chosen now and filled much later. *)
OpenSlot(c) ==
    /\ open[c].pc = "slot"
    /\ IF FreeSlots = {} THEN OpenFails(c)
       ELSE /\ open' = [open EXCEPT ![c] = [pc |-> "socket", slot |-> Least(FreeSlots)]]
            /\ UNCHANGED <<table, ctx>>
    /\ UNCHANGED <<conn, nodes, air, rcvId, rcv, at, ack, saved, recover, broken>>

(* getaddrinfo, socket and bind; lwIP hands out the lowest free descriptor. *)
OpenSocket(c) ==
    /\ open[c].pc = "socket"
    /\ \/ /\ FreeFds # {}
          /\ LET f == Least(FreeFds) IN
               /\ conn' = [conn EXCEPT ![f] = [Closed EXCEPT !.open = TRUE, !.type = ctx[c].type]]
               /\ ctx' = [ctx EXCEPT ![c].fd = f]
          /\ open' = [open EXCEPT ![c].pc = "connect"]
          /\ UNCHANGED table
       \/ OpenFails(c) /\ UNCHANGED conn
    /\ UNCHANGED <<nodes, air, rcvId, rcv, at, ack, saved, recover, broken>>

(* connect returns: the context goes into the table, whatever is there now. *)
OpenConnected(c) ==
    /\ open[c].pc = "connect"
    /\ Slow(RcvAtRest)
    /\ conn' = [conn EXCEPT ![ctx[c].fd].up = TRUE]
    /\ table' = [table EXCEPT ![open[c].slot] = c]
    /\ open' = [open EXCEPT ![c] = [pc |-> "thread", slot |-> 0]]
    /\ UNCHANGED <<ctx, nodes, air, rcvId, rcv, at, ack, saved, recover, broken>>

\* Mutant: the descriptor is not closed.
OpenRefused_NoClose(c) ==
    /\ open[c].pc = "connect"
    /\ OpenFails(c)
    /\ UNCHANGED <<conn, nodes, air, rcvId, rcv, at, ack, saved, recover, broken>>

OpenRefused(c) ==
    /\ open[c].pc = "connect"
    /\ conn' = [conn EXCEPT ![ctx[c].fd] = Closed]
    /\ OpenFails(c)
    /\ UNCHANGED <<nodes, air, rcvId, rcv, at, ack, saved, recover, broken>>

(* The receive thread is created if there is none. *)
OpenThread_Always(c) ==  \* Mutant: without the check
    /\ open[c].pc = "thread"
    /\ open' = [open EXCEPT ![c].pc = "create"]
    /\ UNCHANGED <<table, ctx, conn, nodes, air, rcvId, rcv, at, ack, saved, recover, broken>>

OpenThread(c) ==
    /\ open[c].pc = "thread"
    /\ open' = [open EXCEPT ![c].pc = IF rcvId = NoThread THEN "create" ELSE "report"]
    /\ UNCHANGED <<table, ctx, conn, nodes, air, rcvId, rcv, at, ack, saved, recover, broken>>

(* Threads are alike, so one choice stands for all. *)
StartRcv ==
    LET idle == {r \in Receivers : rcv[r].pc = "none"}
        r == CHOOSE r \in idle : TRUE
    IN /\ idle # {}
       /\ rcv' = [rcv EXCEPT ![r] = [NoRcv EXCEPT !.pc = "start"]]
       /\ rcvId' = r

OpenCreate(c) ==
    /\ open[c].pc = "create"
    /\ StartRcv
    /\ open' = [open EXCEPT ![c].pc = "report"]
    /\ UNCHANGED <<table, ctx, conn, nodes, air, at, ack, saved, recover, broken>>

(* +QIOPEN is reported, then a context that is not in the table is freed,   *)
(* of which nobody else has the address; the thread ends.                   *)
OpenReport(c) ==
    /\ open[c].pc \in {"report", "fails"}
    /\ ctx' = IF open[c].pc = "fails" THEN [ctx EXCEPT ![c] = Dead] ELSE ctx
    /\ open' = [open EXCEPT ![c] = [pc |-> "none", slot |-> 0]]
    /\ UNCHANGED <<table, conn, nodes, air, rcvId, rcv, at, ack, saved, recover, broken>>

-----------------------------------------------------------------------------
(* The receive thread. *)

(* It looks twice at quit of a socket, when it deletes and when it adds to  *)
(* the set for select (at_socket_rcv.c:33, 49).  A flag raised between      *)
(* would leave the socket out.  The field is not volatile and nothing is    *)
(* called in between, so that a compiler with -O2 -Os (config.mk:32) loads  *)
(* it once; the model relies on that.                                       *)

(* It registers netif_down_close_socket and enters its loop. *)
RcvStart(r) ==
    /\ rcv[r].pc = "start"
    /\ rcv' = [rcv EXCEPT ![r].pc = "scan"]
    /\ UNCHANGED <<table, ctx, conn, nodes, air, open, rcvId, at, ack, saved, recover, broken>>

(* del_socket_ctx_by_index, first half: with g_socket_mux taken, close(fd). *)
DeleteBegins(r, back) ==
    LET f == ctx[table[rcv[r].i]].fd IN
    /\ conn' = [conn EXCEPT ![f] = Closed]
    /\ rcv' = [rcv EXCEPT ![r].pc = "delete", ![r].back = back]

\* Mutant: the flag that QICLOSE raises is not looked at.
RcvScan_DeactOnly(r) ==
    /\ rcv[r].pc = "scan" /\ rcv[r].i \in Slots
    /\ LET c == table[rcv[r].i] IN
       IF c # NoCtx /\ ctx[c].deact
         THEN DeleteBegins(r, "scan")
         ELSE /\ rcv' = [rcv EXCEPT ![r].i = @ + 1,
                                    ![r].fds = IF c = NoCtx THEN @ ELSE @ \cup {ctx[c].fd}]
              /\ UNCHANGED conn
    /\ UNCHANGED <<table, ctx, nodes, air, open, rcvId, at, ack, saved, recover, broken>>

RcvScan(r) ==
    /\ rcv[r].pc = "scan" /\ rcv[r].i \in Slots
    /\ LET c == table[rcv[r].i] IN
       IF c # NoCtx /\ (ctx[c].quit \/ ctx[c].deact)
         THEN DeleteBegins(r, "scan")
         ELSE /\ rcv' = [rcv EXCEPT ![r].i = @ + 1,
                                    ![r].fds = IF c = NoCtx THEN @ ELSE @ \cup {ctx[c].fd}]
              /\ UNCHANGED conn
    /\ UNCHANGED <<table, ctx, nodes, air, open, rcvId, at, ack, saved, recover, broken>>

(* del_allsnnode_by_socketid records that the nodes failed in the context   *)
(* that sits in the slot with the NUMBER of the connect id.                 *)
Failed(d, mine) ==
    [ctx[d] EXCEPT !.state = [s \in Seqs |-> IF \E n \in mine : n.seq = s THEN "failed" ELSE @[s]]]

(* Then the nodes of the socket's id are taken off sn_info. *)
RcvDrops(r) ==
    /\ rcv[r].pc = "delete"
    /\ LET c == table[rcv[r].i]
           mine == {n \in nodes : n.id = ctx[c].id}
           other == table[ctx[c].id]
       IN
       /\ nodes' = nodes \ mine
       /\ broken' = IF mine # {} /\ other = NoCtx THEN "wild" ELSE broken
       /\ ctx' = [d \in Ctxs |-> IF d = other THEN Failed(d, mine) ELSE ctx[d]]
       /\ rcv' = [rcv EXCEPT ![r].pc = "free"]
    /\ UNCHANGED <<table, conn, air, open, rcvId, at, ack, saved, recover>>

(* Last, the context is freed and the slot becomes NULL, in one step: the   *)
(* block keeps its content until the heap hands it out again.               *)
RcvDelete(r) ==
    /\ rcv[r].pc = "free"
    /\ ctx' = [ctx EXCEPT ![table[rcv[r].i]] = Dead]
    /\ table' = [table EXCEPT ![rcv[r].i] = NoCtx]
    /\ rcv' = [rcv EXCEPT ![r].pc = rcv[r].back, ![r].back = "scan", ![r].i = @ + 1]
    /\ UNCHANGED <<conn, nodes, air, open, rcvId, at, ack, saved, recover, broken>>

(* The scan is over: without a socket the thread leaves its loop. *)
RcvScanned(r) ==
    /\ rcv[r].pc = "scan" /\ rcv[r].i = SockNum
    /\ rcv' = [rcv EXCEPT ![r].pc = IF rcv[r].fds = {} THEN "exit" ELSE "select", ![r].i = 0]
    /\ UNCHANGED <<table, ctx, conn, nodes, air, open, rcvId, at, ack, saved, recover, broken>>

Rescan(r) == rcv' = [rcv EXCEPT ![r] = [NoRcv EXCEPT !.pc = "scan"]]

Readable == {f \in Fds : conn[f].data > 0 \/ conn[f].reset}

(* select: a closed descriptor is an assertion; otherwise the sets, or a timeout.*)
RcvSelect(r) ==
    /\ rcv[r].pc = "select"
    /\ IF \E f \in rcv[r].fds : ~conn[f].open
         THEN broken' = "assert" /\ UNCHANGED rcv
         ELSE /\ \/ rcv[r].fds \cap Readable = {} /\ Rescan(r)
                 \/ /\ rcv[r].fds \cap Readable # {}
                    /\ rcv' = [rcv EXCEPT ![r] = [NoRcv EXCEPT !.pc = "serve",
                                 !.rd = rcv[r].fds \cap Readable,
                                 !.ex = {f \in rcv[r].fds : conn[f].reset}]]
              /\ UNCHANGED broken
    /\ UNCHANGED <<table, ctx, conn, nodes, air, open, rcvId, at, ack, saved, recover>>

(* One slot is served.  The sets are those select returned, the table is    *)
(* the present one.  recvfrom delivers the data as +QIURC, would block, or  *)
(* fails.                                                                   *)
RcvServe_AnyEx(r) ==  \* Mutant: an exception of any socket closes this one
    /\ rcv[r].pc = "serve" /\ rcv[r].i \in Slots
    /\ LET c == table[rcv[r].i] IN
       IF c # NoCtx /\ rcv[r].ex # {} THEN DeleteBegins(r, "serve")
       ELSE rcv' = [rcv EXCEPT ![r].i = @ + 1] /\ UNCHANGED conn
    /\ UNCHANGED <<table, ctx, nodes, air, open, rcvId, at, ack, saved, recover, broken>>

RcvServe(r) ==
    /\ rcv[r].pc = "serve" /\ rcv[r].i \in Slots
    /\ LET c == table[rcv[r].i]
           f == ctx[c].fd
           next == rcv' = [rcv EXCEPT ![r].i = @ + 1]
       IN
       IF c = NoCtx THEN next /\ UNCHANGED conn
       ELSE IF f \in rcv[r].ex \/ (f \in rcv[r].rd /\ (~conn[f].open \/ conn[f].reset))
              THEN DeleteBegins(r, "serve")
              ELSE /\ next
                   /\ conn' = IF f \in rcv[r].rd THEN [conn EXCEPT ![f].data = 0] ELSE conn
    /\ UNCHANGED <<table, ctx, nodes, air, open, rcvId, at, ack, saved, recover, broken>>

RcvServed(r) ==
    /\ rcv[r].pc = "serve" /\ rcv[r].i = SockNum
    /\ Rescan(r)
    /\ UNCHANGED <<table, ctx, conn, nodes, air, open, rcvId, at, ack, saved, recover, broken>>

(* The callback is taken back, at_rcv_thread_id is cleared, the thread ends. *)
RcvExit_KeepsId(r) ==  \* Mutant: at_rcv_thread_id stays
    /\ rcv[r].pc = "exit"
    /\ rcv' = [rcv EXCEPT ![r] = NoRcv]
    /\ UNCHANGED <<table, ctx, conn, nodes, air, open, rcvId, at, ack, saved, recover, broken>>

RcvExit(r) ==
    /\ rcv[r].pc = "exit"
    /\ rcv' = [rcv EXCEPT ![r] = NoRcv]
    /\ rcvId' = NoThread
    /\ UNCHANGED <<table, ctx, conn, nodes, air, open, at, ack, saved, recover, broken>>

-----------------------------------------------------------------------------
(* AT+QICLOSE and AT+QISEND. *)

(* at_QICLOSE_req raises the flag; the receive thread closes the socket. *)
\* Mutant: the handler closes the socket itself.
QICLOSE_Closes(id) ==
    /\ at.pc = "idle" /\ ~recover
    /\ "one_open" \in Env => \A d \in Ctxs : open[d].pc = "none"
    /\ "one_send" \in Env => nodes = {} /\ AcksAtRest
    /\ SlotsOf(id) # {}
    /\ conn' = [conn EXCEPT ![ctx[table[Least(SlotsOf(id))]].fd] = Closed]
    /\ ctx' = [ctx EXCEPT ![table[Least(SlotsOf(id))]].quit = TRUE]
    /\ UNCHANGED <<table, nodes, air, open, rcvId, rcv, at, ack, saved, recover, broken>>

QICLOSE(id) ==
    /\ at.pc = "idle" /\ ~recover
    /\ "one_open" \in Env => \A d \in Ctxs : open[d].pc = "none"
    /\ "one_send" \in Env => nodes = {} /\ AcksAtRest
    /\ SlotsOf(id) # {}
    /\ ctx' = [ctx EXCEPT ![table[Least(SlotsOf(id))]].quit = TRUE]
    /\ UNCHANGED <<table, conn, nodes, air, open, rcvId, rcv, at, ack, saved, recover, broken>>

(* at_QISEND_req takes the POINTER to the context: it sends at once, or     *)
(* leaves it to pass-through mode, which waits for the data.                *)
QISEND(id, pass) ==
    /\ at.pc = "idle" /\ ~recover
    /\ "one_send" \in Env => nodes = {} /\ ~Closing
    /\ "calm_net" \in Env => ~Lost
    /\ SlotsOf(id) # {}
    /\ at' = [AtIdle EXCEPT !.pc = IF pass THEN "wait" ELSE "send", !.pass = pass,
                            !.ctx = table[Least(SlotsOf(id))]]
    /\ UNCHANGED <<table, ctx, conn, nodes, air, open, rcvId, rcv, ack, saved, recover, broken>>

(* Pass-through mode: the data is complete, or the MCU or the timer ends it. *)
PassData ==
    /\ at.pc = "wait"
    /\ \/ at' = [at EXCEPT !.pc = "send"]
       \/ at' = AtIdle
    /\ UNCHANGED <<table, ctx, conn, nodes, air, open, rcvId, rcv, ack, saved, recover, broken>>

Breaks(how) == /\ broken' = how
               /\ UNCHANGED <<table, ctx, conn, nodes, air, open, rcvId, rcv, at, ack, saved, recover>>

SendEnds == at' = AtIdle /\ UNCHANGED broken

(* bc26_socket_send_data up to send2: the state of the free sequence is     *)
(* looked up in the table's context, everything else uses the pointer.      *)
Send ==
    /\ at.pc = "send"
    /\ LET c == at.ctx
           slots == SlotsOf(ctx[c].id)
           free == {s \in Seqs : ctx[table[Least(slots)]].state[s] # "sending"}
           f == ctx[c].fd
       IN
       IF ~ctx[c].live THEN Breaks("wild")
       ELSE /\ IF slots = {} \/ free = {}
                 THEN SendEnds /\ UNCHANGED <<ctx, conn, air>>
                 ELSE \/ /\ f \in Fds /\ conn[f].open /\ ~conn[f].reset /\ conn[f].sent < MaxSn
                         /\ conn' = [conn EXCEPT ![f].sent = @ + 1]
                         /\ air' = IF conn[f].type = "udp" THEN air \cup {[fd |-> f, seq |-> Least(free)]} ELSE air
                         /\ at' = [at EXCEPT !.pc = "add", !.seq = Least(free), !.sn = conn[f].sent]
                         /\ UNCHANGED <<ctx, broken>>
                      \/ /\ ctx' = [ctx EXCEPT ![c].state[Least(free)] = "failed"]
                         /\ SendEnds
                         /\ UNCHANGED <<conn, air>>
            /\ UNCHANGED <<table, nodes, open, rcvId, rcv, ack, saved, recover>>

(* add_sninfo_node asserts that the socket is still in the table. *)
SendAdd ==
    /\ at.pc = "add"
    /\ IF ~ctx[at.ctx].live THEN Breaks("wild")
       ELSE IF SlotsOf(ctx[at.ctx].id) = {} THEN Breaks("assert")
       ELSE /\ nodes' = nodes \cup {[id |-> ctx[at.ctx].id, seq |-> at.seq, sn |-> at.sn,
                                     type |-> ctx[table[Least(SlotsOf(ctx[at.ctx].id))]].type]}
            /\ at' = [at EXCEPT !.pc = "mark"]
            /\ UNCHANGED <<table, ctx, conn, air, open, rcvId, rcv, ack, saved, recover, broken>>

(* Only now is the sequence marked as being sent. *)
SendMark ==
    /\ at.pc = "mark"
    /\ IF ~ctx[at.ctx].live THEN Breaks("wild")
       ELSE /\ ctx' = [ctx EXCEPT ![at.ctx].state[at.seq] = "sending"]
            /\ at' = AtIdle
            /\ UNCHANGED <<table, conn, nodes, air, open, rcvId, rcv, ack, saved, recover, broken>>

-----------------------------------------------------------------------------
(* The outcome of what was sent. *)

(* A TCP segment acknowledges everything up to n; at_TCPACK_info looks for  *)
(* the node whose data ends exactly there.                                  *)
AckTcp(f, n) ==
    /\ ack["tcp"].pc = "idle"
    /\ conn[f].open /\ conn[f].type = "tcp" /\ ~conn[f].reset /\ conn[f].acked < n /\ n <= conn[f].sent
    /\ Slow(RcvAtRest /\ at.pc \in {"idle", "wait"})
    /\ "calm_net" \in Env => ~Lost
    /\ conn' = [conn EXCEPT ![f].acked = n]
    /\ IF SlotsOfFd(f) = {} THEN UNCHANGED ack
       ELSE LET i == Least(SlotsOfFd(f))
                match == {m \in nodes : m.type = "tcp" /\ m.id = ctx[table[i]].id /\ n = m.sn + 1}
            IN IF match = {} THEN UNCHANGED ack
               ELSE \E m \in match :
                      ack' = [ack EXCEPT !["tcp"] = [pc |-> "mark", slot |-> i, seq |-> m.seq, status |-> "success"]]
    /\ UNCHANGED <<table, ctx, nodes, air, open, rcvId, rcv, at, saved, recover, broken>>

(* urc_UDPSN_Callback: the datagram d was transmitted, or was not. *)
ConfirmUdp(d, status) ==
    /\ ack["udp"].pc = "idle" /\ d \in air
    /\ Slow(RcvAtRest /\ at.pc \in {"idle", "wait"})
    /\ "calm_net" \in Env => ~Lost
    /\ air' = air \ {d}
    /\ IF SlotsOfFd(d.fd) = {} THEN UNCHANGED ack
       ELSE LET i == Least(SlotsOfFd(d.fd)) IN
            IF \E m \in nodes : m.type = "udp" /\ m.id = ctx[table[i]].id /\ m.seq = d.seq
              THEN ack' = [ack EXCEPT !["udp"] = [pc |-> "mark", slot |-> i, seq |-> d.seq, status |-> status]]
              ELSE UNCHANGED ack
    /\ UNCHANGED <<table, ctx, conn, nodes, open, rcvId, rcv, at, saved, recover, broken>>

(* Both handlers then go through the slot again, without a lock: they       *)
(* record the outcome, take the node off and report SEND OK or SEND FAIL.   *)
AckMark_KeepsNode(t) ==  \* Mutant: the node stays in sn_info
    /\ ack[t].pc = "mark"
    /\ LET c == table[ack[t].slot] IN
       IF c = NoCtx THEN Breaks("wild")
       ELSE /\ ctx' = [ctx EXCEPT ![c].state[ack[t].seq] = ack[t].status]
            /\ ack' = [ack EXCEPT ![t] = NoAck]
            /\ UNCHANGED <<table, conn, nodes, air, open, rcvId, rcv, at, saved, recover, broken>>

AckMark(t) ==
    /\ ack[t].pc = "mark"
    /\ LET c == table[ack[t].slot] IN
       IF c = NoCtx THEN Breaks("wild")
       ELSE /\ ctx' = [ctx EXCEPT ![c].state[ack[t].seq] = ack[t].status]
            /\ nodes' = {m \in nodes : m.id # ctx[c].id \/ m.seq # ack[t].seq}
            /\ ack' = [ack EXCEPT ![t] = NoAck]
            /\ UNCHANGED <<table, conn, air, open, rcvId, rcv, at, saved, recover, broken>>

-----------------------------------------------------------------------------
(* The network, and the loss of the PDP context. *)

Arrives(f) ==
    /\ conn[f].up /\ ~conn[f].reset /\ conn[f].data < MaxData
    /\ conn' = [conn EXCEPT ![f].data = @ + 1]
    /\ UNCHANGED <<table, ctx, nodes, air, open, rcvId, rcv, at, ack, saved, recover, broken>>

Reset(f) ==
    /\ conn[f].up /\ conn[f].type = "tcp" /\ ~conn[f].reset
    /\ Calm
    /\ conn' = [conn EXCEPT ![f].reset = TRUE]
    /\ UNCHANGED <<table, ctx, nodes, air, open, rcvId, rcv, at, ack, saved, recover, broken>>

(* netif_down_close_socket: called in xy_proxy while a receive thread has   *)
(* it registered; g_socket_mux keeps it out of a deletion.                  *)
NetDown ==
    /\ at.pc = "idle" \/ at.pass
    /\ Calm
    /\ \E r \in Receivers : rcv[r].pc \notin {"none", "start"}
    /\ \A r \in Receivers : rcv[r].pc \notin {"delete", "free"}
    /\ ctx' = [c \in Ctxs |-> [ctx[c] EXCEPT !.deact = @ \/ \E i \in Slots : table[i] = c]]
    /\ UNCHANGED <<table, conn, nodes, air, open, rcvId, rcv, at, ack, saved, recover, broken>>

-----------------------------------------------------------------------------
(* Deep sleep: RAM is lost; the UDP sockets are in flash. *)

(* save_udp_context_deepsleep, then off, then Init of the RAM.  Nothing is  *)
(* written when no socket is open.                                          *)
DeepSleep ==
    /\ at.pc = "idle" /\ AcksAtRest /\ RcvAtRest
    /\ \A c \in Ctxs : open[c].pc = "none"
    /\ IF FreeSlots = Slots THEN UNCHANGED <<saved, recover>>
       ELSE /\ saved' = [i \in Slots |-> IF table[i] # NoCtx /\ ctx[table[i]].type = "udp"
                                           THEN ctx[table[i]].id ELSE NoId]
            /\ recover' = TRUE
    /\ table' = [i \in Slots |-> NoCtx]
    /\ ctx' = [c \in Ctxs |-> Dead]
    /\ conn' = [f \in Fds |-> Closed]
    /\ nodes' = {} /\ air' = {} /\ rcvId' = NoThread
    /\ rcv' = [r \in Receivers |-> NoRcv]
    /\ UNCHANGED <<open, at, ack, broken>>

(* resume_net_app(SOCKET_TASK), from AT+QISEND, QICLOSE or QISTATE: with a  *)
(* receive thread at work nothing is restored, and the flag is cleared.     *)
Resume ==
    /\ at.pc = "idle" /\ recover
    /\ IF rcvId # NoThread
         THEN recover' = FALSE /\ saved' = NothingSaved /\ UNCHANGED at
         ELSE at' = [AtIdle EXCEPT !.pc = "restore"] /\ UNCHANGED <<recover, saved>>
    /\ UNCHANGED <<table, ctx, conn, nodes, air, open, rcvId, rcv, ack, broken>>

(* One socket of restore_udp_context_thread.  When at_socket_create fails   *)
(* before it has a descriptor of its own, the loop closes the one it still  *)
(* holds of the socket before; when it fails later, it closes its own twice.*)
RestoreSlot ==
    /\ at.pc = "restore" /\ at.slot \in Slots
    /\ LET id == saved[at.slot]
           next == at' = [at EXCEPT !.slot = @ + 1]
       IN
       IF id = NoId
         THEN next /\ UNCHANGED <<table, ctx, conn, nodes, air, open, rcvId, rcv, ack, saved, recover, broken>>
       ELSE IF table[id] # NoCtx THEN Breaks("assert")
       ELSE /\ \/ /\ FreeFds # {}
                  /\ FreeCtxs # {}
                  /\ ctx' = [ctx EXCEPT ![NewCtx] = [Fresh(id, "udp") EXCEPT
                               !.fd = Least(FreeFds), !.state = [s \in Seqs |-> "unused"]]]
                  /\ table' = [table EXCEPT ![id] = NewCtx]
                  /\ conn' = [conn EXCEPT ![Least(FreeFds)] = [Closed EXCEPT !.open = TRUE, !.up = TRUE]]
                  /\ at' = [at EXCEPT !.slot = @ + 1, !.fd = Least(FreeFds)]
               \/ /\ FreeFds # {}
                  /\ at' = [at EXCEPT !.slot = @ + 1, !.fd = Least(FreeFds)]
                  /\ UNCHANGED <<table, ctx, conn>>
               \/ /\ "host_is_ip" \notin Env
                  /\ conn' = IF at.fd = NoFd THEN conn ELSE [conn EXCEPT ![at.fd] = Closed]
                  /\ next
                  /\ UNCHANGED <<table, ctx>>
            /\ UNCHANGED <<nodes, air, open, rcvId, rcv, ack, saved, recover, broken>>

(* The receive thread is created if a socket is there and no thread. *)
RestoreEnd ==
    /\ at.pc = "restore" /\ at.slot = SockNum
    /\ IF FreeSlots # Slots /\ rcvId = NoThread
         THEN StartRcv
         ELSE UNCHANGED <<rcv, rcvId>>
    /\ at' = AtIdle /\ recover' = FALSE /\ saved' = NothingSaved
    /\ UNCHANGED <<table, ctx, conn, nodes, air, open, ack, broken>>

(* A failed assertion, or an access that faults, resets the chip. *)
ChipReset ==
    /\ broken # "no"
    /\ table' = [i \in Slots |-> NoCtx]
    /\ ctx' = [c \in Ctxs |-> Dead]
    /\ conn' = [f \in Fds |-> Closed]
    /\ nodes' = {} /\ air' = {}
    /\ open' = [c \in Ctxs |-> [pc |-> "none", slot |-> 0]]
    /\ rcvId' = NoThread
    /\ rcv' = [r \in Receivers |-> NoRcv]
    /\ at' = AtIdle
    /\ ack' = [t \in Kinds |-> NoAck]
    /\ broken' = "no"
    /\ UNCHANGED <<saved, recover>>

-----------------------------------------------------------------------------
Open(c) == \/ OpenSlot(c) \/ OpenSocket(c) \/ OpenConnected(c) \/ OpenRefused(c)
           \/ OpenThread(c) \/ OpenCreate(c) \/ OpenReport(c)
Receive(r) == \/ RcvStart(r) \/ RcvScan(r) \/ RcvDrops(r) \/ RcvDelete(r) \/ RcvScanned(r)
              \/ RcvSelect(r) \/ RcvServe(r) \/ RcvServed(r) \/ RcvExit(r)
Sending == Send \/ SendAdd \/ SendMark
Restore == Resume \/ RestoreSlot \/ RestoreEnd

Next ==
    \/ /\ broken = "no"
       /\ \/ \E id \in Ids, t \in Types : QIOPEN(id, t)
          \/ \E c \in Ctxs : Open(c)
          \/ \E r \in Receivers : Receive(r)
          \/ \E id \in Ids : QICLOSE(id) \/ \E pass \in BOOLEAN : QISEND(id, pass)
          \/ PassData \/ Sending
          \/ \E f \in Fds, n \in 1 .. MaxSn : AckTcp(f, n)
          \/ \E d \in air, status \in {"success", "failed"} : ConfirmUdp(d, status)
          \/ \E t \in Kinds : AckMark(t)
          \/ \E f \in Fds : Arrives(f) \/ Reset(f)
          \/ NetDown \/ DeepSleep \/ Restore
    \/ ChipReset

Spec == Init /\ [][Next]_vars

(* The threads of the module run; select times out and so ends.  Nothing is *)
(* assumed of the MCU, the network or the power.                            *)
Fairness == /\ \A r \in Receivers : WF_vars(broken = "no" /\ Receive(r))
            /\ \A c \in Ctxs : WF_vars(broken = "no" /\ Open(c))
            /\ WF_vars(broken = "no" /\ (RestoreSlot \/ RestoreEnd))
FairSpec == Spec /\ Fairness

-----------------------------------------------------------------------------
(* Properties *)

TypeOK ==
    /\ table \in [Slots -> Ctxs \cup {NoCtx}]
    /\ ctx \in [Ctxs -> [live : BOOLEAN, id : Ids, type : Kinds, fd : Fds \cup {NoFd},
                         quit : BOOLEAN, deact : BOOLEAN, state : [Seqs -> Statuses]]]
    /\ conn \in [Fds -> [open : BOOLEAN, type : Kinds, up : BOOLEAN, sent : 0 .. MaxSn,
                         acked : 0 .. MaxSn, reset : BOOLEAN, data : 0 .. MaxData]]
    /\ nodes \subseteq [id : Ids, seq : Seqs, sn : 0 .. MaxSn, type : Kinds]
    /\ air \subseteq [fd : Fds, seq : Seqs]
    /\ open \in [Ctxs -> [pc : {"none", "slot", "socket", "connect", "thread", "create", "report", "fails"},
                          slot : Slots]]
    /\ rcvId \in Receivers \cup {NoThread}
    /\ rcv \in [Receivers -> [pc : {"none", "start", "scan", "delete", "free", "select",
                                    "serve", "exit"},
                              i : 0 .. SockNum, fds : SUBSET (Fds \cup {NoFd}), rd : SUBSET Fds,
                              ex : SUBSET (Fds \cup {NoFd}), back : {"scan", "serve"}]]
    /\ at \in [pc : {"idle", "wait", "send", "add", "mark", "restore"}, pass : BOOLEAN,
               ctx : Ctxs \cup {NoCtx}, seq : Seqs \cup {0}, sn : 0 .. MaxSn, slot : 0 .. SockNum,
               fd : Fds \cup {NoFd}]
    /\ ack \in [Kinds -> [pc : {"idle", "mark"}, slot : Slots, seq : Seqs \cup {0}, status : Statuses]]
    /\ saved \in [Slots -> Ids \cup {NoId}]
    /\ recover \in BOOLEAN
    /\ broken \in {"no", "assert", "wild"}

(* No assertion of these files fails: select never meets a descriptor that  *)
(* was closed behind it (EBADF), a saved socket finds its slot free, and    *)
(* add_sninfo_node finds the socket of a context in use.  An access to a    *)
(* context that the receive thread has freed is "wild" instead.             *)
NoAssertFails == broken # "assert"

BeingDeleted(i) == \E r \in Receivers : rcv[r].pc \in {"delete", "free"} /\ rcv[r].i = i
InUse == {i \in Slots : table[i] # NoCtx /\ ~BeingDeleted(i)}
Connecting == {c \in Ctxs : open[c].pc = "connect"}

(* Descriptors are neither leaked nor shared: what is open belongs to one   *)
(* socket of the table or to one thread that is connecting it, and a socket *)
(* of the table has its descriptor until its deletion begins.               *)
FdsOwned ==
    /\ \A i \in InUse : ctx[table[i]].live /\ ctx[table[i]].fd \in Fds /\ conn[ctx[table[i]].fd].open
    /\ \A f \in Fds : conn[f].open => \/ \E i \in InUse : ctx[table[i]].fd = f
                                     \/ \E c \in Connecting : ctx[c].fd = f
    /\ \A i, j \in InUse : ctx[table[i]].fd = ctx[table[j]].fd => i = j
    /\ \A c, d \in Connecting : ctx[c].fd = ctx[d].fd => c = d
    /\ \A i \in InUse, c \in Connecting : ctx[table[i]].fd # ctx[c].fd

(* As long as the table holds a socket there is a receive thread that will  *)
(* look at it, or one is about to be made: no socket goes deaf.             *)
Watched ==
    FreeSlots # Slots =>
        \/ rcvId # NoThread /\ rcv[rcvId].pc \notin {"none", "exit"}
        \/ at.pc = "restore"
        \/ \E c \in Ctxs : open[c].pc = "create" \/ (open[c].pc = "thread" /\ rcvId = NoThread)

(* The sockets of the table lose their thread in one way only: it saw no    *)
(* socket in a whole round and ends, while a connection has just been made  *)
(* or is completed before at_rcv_thread_id is cleared (at_socket_rcv.c:60,  *)
(* at_socket_bc26.c:314).                                                   *)
DeafOnlyByRace ==
    [][Watched /\ ~Watched' =>
         \E r \in Receivers :
            /\ rcv'[r].pc = "exit" /\ rcv'[r].fds = {}
            /\ rcv[r].pc = "scan" \/ \E c \in Connecting : open'[c].pc = "thread"]_vars

(* There is never a second receive thread, which would select on sockets    *)
(* that the first one closes.                                               *)
OneReceiver == \A q, r \in Receivers : rcv[q].pc # "none" /\ rcv[r].pc # "none" => q = r

(* A sequence is SENDING exactly as long as sn_info holds a node for it, so *)
(* that an outcome will still be reported and the sequence be free again.   *)
SendingTracked ==
    \A i \in InUse, s \in Seqs :
        LET c == table[i] IN
        (at.pc = "mark" /\ at.ctx = c /\ at.seq = s)
        \/ (ctx[c].state[s] = "sending" <=> \E n \in nodes : n.id = ctx[c].id /\ n.seq = s)

(* A connected socket is only closed because the MCU asked for it, the PDP  *)
(* context was lost or the peer reset it; or the power went.                *)
OnlyOnRequest ==
    [][\A f \in Fds : conn[f].up /\ ~conn'[f].open =>
         \/ conn[f].reset
         \/ \E i \in SlotsOfFd(f) : ctx[table[i]].quit \/ ctx[table[i]].deact
         \/ \A c \in Ctxs : ~ctx'[c].live]_vars

(* A socket that the MCU closes is removed, unless the chip resets first. *)
Removed == \A i \in Slots : (table[i] # NoCtx /\ ctx[table[i]].quit) ~> (table[i] = NoCtx \/ broken # "no")
=============================================================================
