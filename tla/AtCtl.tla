-------------------------------- MODULE AtCtl --------------------------------
(* The way of an AT command of the external MCU: received by the UART thread, *)
(* dispatched by the thread at_ctl, executed by the thread xy_proxy or        *)
(* forwarded to the protocol stack, and answered by at_ctl or by xy_proxy.    *)
(* Both threads have the same priority and share the contexts uart_ctx and    *)
(* nearps_ctx without a lock: an action is what a thread does between two     *)
(* accesses that another thread can disturb.                                  *)
(* Only result codes are messages here: information lines and URCs pass the   *)
(* same way but change no context.                                            *)
EXTENDS Naturals, Sequences

CONSTANTS
  Cmd,             \* commands of the MCU; one is not sent again while it is owed
  Kind,            \* what becomes of each command
  Critical,        \* is_critical_req: commands the busy checks let through
  Menus,           \* the sets of commands an MCU may use
  Req, Junk,       \* the request of at_ReqAndRsp_to_ps; a text that is no command
  RETRANS_MAX_NUM, \* a command that finds nearps_ctx busy is put back so often
  MayBeOff,        \* the DSP may be found not loaded
  PsInTime         \* the stack answers a request before the 30 s are over

ASSUME CommandAssumption ==
  /\ Kind \in [Cmd -> {"ps", "basic", "fwd", "asyn", "nv", "bad"}]
  /\ Critical \subseteq Cmd /\ Menus \subseteq SUBSET Cmd
  /\ Req \notin Cmd /\ Junk \notin Cmd /\ Req # Junk
ASSUME BoundAssumption == RETRANS_MAX_NUM \in Nat
ASSUME SwitchAssumption == MayBeOff \in BOOLEAN /\ PsInTime \in BOOLEAN

VARIABLES
  menu,     \* what the MCU of this behaviour sends
  owed,     \* commands accepted from the MCU and not answered
  uart,     \* uart_ctx
  nearps,   \* nearps_ctx: SEND_REQ_NOW, and where its answer goes
  rx,       \* the UART thread in single_atcmd_proc
  at_q,     \* at_msg_q
  proxy_q,  \* xy_proxy_msg_q: commands, with the copy of uart_ctx
  pc,       \* the next step of at_ctl and of xy_proxy
  msg,      \* the message each of them handles
  copy,     \* the copy of uart_ctx that xy_proxy works with
  call,     \* at_ReqAndRsp_to_ps in xy_proxy: its context, timer and queue
  ps,       \* commands at the protocol stack, which answers in order
  passthr,  \* g_at_passthr_hook, and the command that set it
  asserted  \* an assertion has stopped the system

channel == << menu, owed, uart, rx >>
vars == << channel, nearps, at_q, proxy_q, pc, msg, copy, call, ps, passthr, asserted >>

Task == {"at_ctl", "proxy"}
Text == Cmd \cup {Req, Junk}

\* src: AT_MSG_RCV_STR_FROM_FARPS or _NEARPS; ctx: the context the message names.
Msg == [src : {"far", "near"}, text : Text, ctx : {"uart", "proxy", "dsp"},
        res : {"none", "ok", "dsp_off"}]
Far(c, ctx) == [src |-> "far", text |-> c, ctx |-> ctx, res |-> "none"]
Near(c, ctx, res) == [src |-> "near", text |-> c, ctx |-> ctx, res |-> res]

Copy == [proc : BOOLEAN, retrans : 0 .. RETRANS_MAX_NUM]
NoCopy == [proc |-> FALSE, retrans |-> 0]
NoCall == [reg |-> FALSE, timer |-> FALSE, retrans |-> 0, answers |-> << >>]
NearpsIdle == [send |-> FALSE, fwd |-> "none"]

TypeOK ==
  /\ menu \in Menus /\ owed \subseteq menu
  /\ uart \in [rcv : BOOLEAN, processing : BOOLEAN, fwd : BOOLEAN, proc : BOOLEAN,
               retrans : 0 .. RETRANS_MAX_NUM]
  /\ nearps \in [send : BOOLEAN, fwd : {"none", "uart", "proxy"}]
  /\ rx \in [pc : {"idle", "mark", "send"}, text : Text]
  /\ at_q \in Seq(Msg)
  /\ proxy_q \in Seq([text : Cmd, copy : Copy])
  /\ pc \in [Task -> {"get", "farps", "copy", "proc", "check", "delay", "mark", "write",
                      "near", "deliver", "reset", "wait", "answer"}]
  /\ msg \in [Task -> Msg] /\ copy \in Copy
  /\ call \in [reg : BOOLEAN, timer : BOOLEAN, retrans : 0 .. RETRANS_MAX_NUM,
               answers : Seq({"ok", "dsp_off", "timeout"})]
  /\ ps \in Seq(Text)
  /\ passthr \in [pc : {"off", "on", "end"}, text : Text]
  /\ asserted \in BOOLEAN

Init ==
  /\ menu \in Menus /\ owed = {}
  /\ uart = [rcv |-> FALSE, processing |-> FALSE, fwd |-> FALSE, proc |-> FALSE, retrans |-> 0]
  /\ nearps = NearpsIdle
  /\ rx = [pc |-> "idle", text |-> Junk]
  /\ at_q = << >> /\ proxy_q = << >> /\ ps = << >>
  /\ pc = [t \in Task |-> "get"] /\ msg = [t \in Task |-> Far(Junk, "uart")]
  /\ copy = NoCopy /\ call = NoCall
  /\ passthr = [pc |-> "off", text |-> Junk]
  /\ asserted = FALSE

-----------------------------------------------------------------------------
(* Contexts                                                                   *)

\* Mutant: process_state is left as it is.
Answered_StillProcessing(u) == [u EXCEPT !.rcv = FALSE, !.fwd = FALSE, !.proc = FALSE, !.retrans = 0]

\* Mutant: the state, which it does not clear any more.
reset_ctx_Rcv(u) == [u EXCEPT !.fwd = FALSE, !.proc = FALSE, !.retrans = 0]

reset_ctx(u) == [u EXCEPT !.rcv = FALSE, !.fwd = FALSE, !.proc = FALSE, !.retrans = 0]
Answered(u) == [reset_ctx(u) EXCEPT !.processing = FALSE]

\* at_farps_fd_write of a result: the context is free again, the MCU has its answer.
AnswerUart(c) == uart' = Answered(uart) /\ owed' = owed \ {c} /\ UNCHANGED << menu, rx >>

Go(t, next) == pc' = [pc EXCEPT ![t] = next]
Off == IF MayBeOff THEN BOOLEAN ELSE {FALSE}

-----------------------------------------------------------------------------
(* The UART thread: single_atcmd_proc                                         *)

\* A command that is refused (8007 and the others) is answered at once and
\* changes nothing; in pass-through mode what arrives is no command.
Accepts(c) == ~ uart.rcv \/ c \in Critical

AcceptCmd(c) ==
  /\ rx.pc = "idle" /\ passthr.pc # "on" /\ c \in menu \ owed
  /\ Accepts(c)
  /\ uart' = [uart EXCEPT !.rcv = TRUE]
  /\ owed' = owed \cup {c}
  /\ rx' = [pc |-> "mark", text |-> c]
  /\ UNCHANGED << menu, nearps, at_q, proxy_q, pc, msg, copy, call, ps, passthr, asserted >>

MarkProcessing ==
  /\ rx.pc = "mark"
  /\ uart' = [uart EXCEPT !.processing = TRUE]
  /\ rx' = [rx EXCEPT !.pc = "send"]
  /\ UNCHANGED << menu, owed, nearps, at_q, proxy_q, pc, msg, copy, call, ps, passthr, asserted >>

SendToCtl ==
  /\ rx.pc = "send"
  /\ at_q' = Append(at_q, Far(rx.text, "uart"))
  /\ rx' = [rx EXCEPT !.pc = "idle"]
  /\ UNCHANGED << menu, owed, uart, nearps, proxy_q, pc, msg, copy, call, ps, passthr, asserted >>

-----------------------------------------------------------------------------
(* The thread at_ctl: requests                                                *)

AtGet ==
  /\ pc["at_ctl"] = "get" /\ at_q # << >>
  /\ msg' = [msg EXCEPT !["at_ctl"] = Head(at_q)]
  /\ at_q' = Tail(at_q)
  /\ Go("at_ctl", IF Head(at_q).src = "far" THEN "farps" ELSE "near")
  /\ UNCHANGED << channel, nearps, proxy_q, copy, call, ps, passthr, asserted >>

\* proc_from_farps: an invalid prefix is answered here, a command of the tables
\* goes to xy_proxy, all others and the requests of xy_proxy itself to the stack.
ProcFromFarps ==
  LET m == msg["at_ctl"]
  IN  /\ pc["at_ctl"] = "farps"
      /\ IF m.text = Req \/ Kind[m.text] = "ps"
         THEN Go("at_ctl", "check") /\ UNCHANGED channel
         ELSE IF Kind[m.text] = "bad"
         THEN Go("at_ctl", "get") /\ AnswerUart(m.text)
         ELSE Go("at_ctl", "copy") /\ uart' = [uart EXCEPT !.proc = TRUE] /\ UNCHANGED << menu, owed, rx >>
      /\ UNCHANGED << nearps, at_q, proxy_q, msg, copy, call, ps, passthr, asserted >>

CopyToProxy ==
  /\ pc["at_ctl"] = "copy"
  /\ proxy_q' = Append(proxy_q, [text |-> msg["at_ctl"].text,
                                 copy |-> [proc |-> uart.proc, retrans |-> uart.retrans]])
  /\ Go("at_ctl", "get")
  /\ UNCHANGED << channel, nearps, at_q, msg, copy, call, ps, passthr, asserted >>

-----------------------------------------------------------------------------
(* forward_req_at_proc, run by at_ctl and by xy_proxy                         *)

\* The context whose retransmissions are counted: xy_proxy works with its copy.
Retrans(t) == IF t = "proxy" THEN copy.retrans
              ELSE IF msg[t].ctx = "uart" THEN uart.retrans ELSE call.retrans

\* Mutant: SEND_REQ_NOW is not looked at.
Busy_Never(t) == FALSE

Busy(t) == nearps.send /\ msg[t].text \notin Critical

CheckFree(t) ==
  /\ pc[t] = "check" /\ ~ Busy(t)
  /\ Go(t, "mark")
  /\ UNCHANGED << channel, nearps, at_q, proxy_q, msg, copy, call, ps, passthr, asserted >>

Exhausted(t) == Retrans(t) >= RETRANS_MAX_NUM

\* osDelay(50): the other threads run.
WaitBeforeRetry(t) ==
  /\ pc[t] = "check" /\ Busy(t) /\ ~ Exhausted(t)
  /\ Go(t, "delay")
  /\ UNCHANGED << channel, nearps, at_q, proxy_q, msg, copy, call, ps, passthr, asserted >>

\* The command is put back into at_msg_q; what xy_proxy counted is lost with its copy.
Retransmit(t) ==
  /\ pc[t] = "delay"
  /\ at_q' = Append(at_q, Far(msg[t].text, msg[t].ctx))
  /\ IF t = "proxy" THEN copy' = NoCopy /\ UNCHANGED << uart, call >>
     ELSE /\ UNCHANGED copy
          /\ IF msg[t].ctx = "uart"
             THEN uart' = [uart EXCEPT !.retrans = @ + 1] /\ UNCHANGED call
             ELSE call' = [call EXCEPT !.retrans = @ + 1] /\ UNCHANGED uart
  /\ Go(t, "get")
  /\ UNCHANGED << menu, owed, rx, nearps, proxy_q, msg, ps, passthr, asserted >>

\* The MCU is told 8007 directly; the context of a thread is told nothing.
GiveUp(t) ==
  /\ pc[t] = "check" /\ Busy(t) /\ Exhausted(t)
  /\ IF msg[t].ctx = "uart" THEN owed' = owed \ {msg[t].text} ELSE UNCHANGED owed
  /\ IF t = "proxy" THEN copy' = NoCopy /\ UNCHANGED << uart, call >>
     ELSE /\ UNCHANGED copy
          /\ IF msg[t].ctx = "uart" THEN uart' = reset_ctx(uart) /\ UNCHANGED call
             ELSE call' = [call EXCEPT !.retrans = 0] /\ UNCHANGED uart
  /\ Go(t, "get")
  /\ UNCHANGED << menu, rx, nearps, at_q, proxy_q, msg, ps, passthr, asserted >>

\* Mutant: the answer is linked with nobody.
Linked_Nobody(t) == [send |-> TRUE, fwd |-> "none"]

\* Mutant: whoever asked, the answer is linked with the UART.
Linked_Uart(t) == [send |-> TRUE, fwd |-> "uart"]

Linked(t) == [send |-> TRUE, fwd |-> msg[t].ctx]

MarkSend(t) ==
  /\ pc[t] = "mark"
  /\ nearps' = Linked(t)
  /\ IF msg[t].ctx = "uart" THEN uart' = [uart EXCEPT !.fwd = TRUE] ELSE UNCHANGED uart
  /\ Go(t, "write")
  /\ UNCHANGED << menu, owed, rx, at_q, proxy_q, msg, copy, call, ps, passthr, asserted >>

\* at_write_by_ctx(nearps_ctx): without the DSP, an error comes back through at_msg_q.
WriteToPs(t) ==
  /\ pc[t] = "write"
  /\ \E off \in Off :
       IF off THEN at_q' = Append(at_q, Near(msg[t].text, "dsp", "dsp_off")) /\ UNCHANGED ps
       ELSE ps' = Append(ps, msg[t].text) /\ UNCHANGED at_q
  /\ copy' = IF t = "proxy" THEN NoCopy ELSE copy
  /\ Go(t, "get")
  /\ UNCHANGED << channel, nearps, proxy_q, msg, call, passthr, asserted >>

-----------------------------------------------------------------------------
(* The thread at_ctl: results, proc_from_nearps                               *)

\* fwd_ctx, where a result goes: a result of the stack to whom nearps_ctx is
\* linked with, a result of pass-through mode to the UART.
FwdCtx(m) == IF m.ctx = "dsp" THEN nearps.fwd ELSE IF uart.fwd THEN "nearps" ELSE "uart"

\* A result nobody waits for is dropped.
ProcFromNearps ==
  /\ pc["at_ctl"] = "near"
  /\ Go("at_ctl", IF FwdCtx(msg["at_ctl"]) = "none" THEN "reset" ELSE "deliver")
  /\ UNCHANGED << channel, nearps, at_q, proxy_q, msg, copy, call, ps, passthr, asserted >>

Deliver ==
  LET m == msg["at_ctl"]
      to == FwdCtx(m)
  IN  /\ pc["at_ctl"] = "deliver"
      /\ Go("at_ctl", "reset")
      /\ IF to = "uart" THEN AnswerUart(m.text) ELSE UNCHANGED channel
      /\ ps' = IF to = "nearps" THEN Append(ps, Junk) ELSE ps
      /\ call' = IF to = "proxy" THEN [call EXCEPT !.answers = Append(@, m.res)] ELSE call
      /\ asserted' = (to = "none" \/ (to = "proxy" /\ ~ call.reg))
      /\ UNCHANGED << nearps, at_q, proxy_q, msg, copy, passthr >>

Cleared(m) == IF m.ctx = "dsp" THEN NearpsIdle ELSE nearps

ClearNearps ==
  /\ pc["at_ctl"] = "reset"
  /\ nearps' = Cleared(msg["at_ctl"])
  /\ Go("at_ctl", "get")
  /\ UNCHANGED << channel, at_q, proxy_q, msg, copy, call, ps, passthr, asserted >>

-----------------------------------------------------------------------------
(* The thread xy_proxy: proc_at_proxy_req                                     *)

ProxyGet ==
  /\ pc["proxy"] = "get" /\ proxy_q # << >>
  /\ msg' = [msg EXCEPT !["proxy"] = Far(Head(proxy_q).text, "uart")]
  /\ copy' = Head(proxy_q).copy
  /\ proxy_q' = Tail(proxy_q)
  /\ Go("proxy", "proc")
  /\ UNCHANGED << channel, nearps, at_q, call, ps, passthr, asserted >>

\* The copy was made after another answer had reset uart_ctx: 8002, directly.
ProxyDrops ==
  /\ pc["proxy"] = "proc" /\ ~ copy.proc
  /\ owed' = owed \ {msg["proxy"].text}
  /\ Go("proxy", "get")
  /\ UNCHANGED << menu, uart, rx, nearps, at_q, proxy_q, msg, copy, call, ps, passthr, asserted >>

\* proc() makes an answer, wants the command forwarded, answers later from
\* pass-through mode, or (AT+NV=SET,LOG) sends a request to the DSP itself.
ProxyExecutes ==
  LET c == msg["proxy"].text
  IN  /\ pc["proxy"] = "proc" /\ copy.proc
      /\ \/ /\ Kind[c] = "basic" \/ (Kind[c] = "nv" /\ TRUE \in Off)
            /\ Go("proxy", "answer") /\ UNCHANGED << at_q, call, passthr >>
         \/ /\ Kind[c] = "fwd"
            /\ Go("proxy", "check") /\ UNCHANGED << at_q, call, passthr >>
         \/ /\ Kind[c] = "asyn" /\ passthr.pc = "off"
            /\ passthr' = [pc |-> "on", text |-> c]
            /\ Go("proxy", "get") /\ UNCHANGED << at_q, call >>
         \/ /\ Kind[c] = "nv"
            /\ call' = [NoCall EXCEPT !.reg = TRUE, !.timer = TRUE]
            /\ at_q' = Append(at_q, Far(Req, "proxy"))
            /\ Go("proxy", "wait") /\ UNCHANGED passthr
      /\ UNCHANGED << channel, nearps, proxy_q, msg, copy, ps, asserted >>

\* get_req_to_dsp asserts that a failure means that the DSP is not loaded.
CallReturns ==
  /\ pc["proxy"] = "wait" /\ call.answers # << >>
  /\ asserted' = (Head(call.answers) = "timeout")
  /\ call' = NoCall
  /\ Go("proxy", "answer")
  /\ UNCHANGED << channel, nearps, at_q, proxy_q, msg, copy, ps, passthr >>

ProxyAnswers ==
  /\ pc["proxy"] = "answer"
  /\ AnswerUart(msg["proxy"].text)
  /\ copy' = NoCopy
  /\ Go("proxy", "get")
  /\ UNCHANGED << nearps, at_q, proxy_q, msg, call, ps, passthr, asserted >>

\* The request is in at_msg_q or with at_ctl; at the stack, or its answer is on the way.
Queue(q) == {q[i] : i \in DOMAIN q}
ReqAtCtl ==
  \/ Far(Req, "proxy") \in Queue(at_q)
  \/ pc["at_ctl"] # "get" /\ msg["at_ctl"] = Far(Req, "proxy")
ReqAtPs ==
  \/ Req \in Queue(ps)
  \/ \E m \in Queue(at_q) : m.src = "near" /\ m.text = Req
  \/ pc["at_ctl"] # "get" /\ msg["at_ctl"].src = "near" /\ msg["at_ctl"].text = Req

\* wait_nearps_rsp_timeout_proc, in the timer task, which nothing preempts.
\* All retransmissions together take 2 of its 30 s.
wait_nearps_rsp_timeout_proc ==
  /\ call.timer /\ ~ ReqAtCtl /\ (PsInTime => ~ ReqAtPs)
  /\ nearps' = IF nearps.fwd # "none" THEN NearpsIdle ELSE nearps
  /\ call' = [call EXCEPT !.timer = FALSE, !.answers = Append(@, "timeout")]
  /\ UNCHANGED << channel, at_q, proxy_q, pc, msg, copy, ps, passthr, asserted >>

-----------------------------------------------------------------------------
(* Outside: the protocol stack, the end of pass-through mode                  *)

PsAnswers ==
  /\ ps # << >>
  /\ at_q' = Append(at_q, Near(Head(ps), "dsp", "ok"))
  /\ ps' = Tail(ps)
  /\ UNCHANGED << channel, nearps, proxy_q, pc, msg, copy, call, passthr, asserted >>

\* xy_exitPassthroughMode: first the hook goes, then the result is sent.
PassthrEnds ==
  /\ passthr.pc = "on"
  /\ passthr' = [passthr EXCEPT !.pc = "end"]
  /\ UNCHANGED << channel, nearps, at_q, proxy_q, pc, msg, copy, call, ps, asserted >>

PassthrAnswers ==
  /\ passthr.pc = "end"
  /\ at_q' = Append(at_q, Near(passthr.text, "uart", "ok"))
  /\ passthr' = [passthr EXCEPT !.pc = "off"]
  /\ UNCHANGED << channel, nearps, proxy_q, pc, msg, copy, call, ps, asserted >>

-----------------------------------------------------------------------------

Forward(t) == CheckFree(t) \/ WaitBeforeRetry(t) \/ Retransmit(t) \/ GiveUp(t) \/ MarkSend(t) \/ WriteToPs(t)

RxStep == MarkProcessing \/ SendToCtl
AtCtlStep == AtGet \/ ProcFromFarps \/ CopyToProxy \/ Forward("at_ctl")
             \/ ProcFromNearps \/ Deliver \/ ClearNearps
ProxyStep == ProxyGet \/ ProxyDrops \/ ProxyExecutes \/ Forward("proxy")
             \/ CallReturns \/ ProxyAnswers

Step ==
  \/ \E c \in Cmd : AcceptCmd(c)
  \/ RxStep \/ AtCtlStep \/ ProxyStep
  \/ wait_nearps_rsp_timeout_proc
  \/ PsAnswers \/ PassthrEnds \/ PassthrAnswers

\* An assertion stops the system.
Next == ~ asserted /\ Step

Spec == Init /\ [][Next]_vars

\* FreeRTOS gives every ready thread its turn, the stack answers, the timer
\* expires, and the MCU sends the data it has announced.
Fairness ==
  /\ WF_vars(Next /\ RxStep) /\ WF_vars(Next /\ AtCtlStep) /\ WF_vars(Next /\ ProxyStep)
  /\ WF_vars(Next /\ wait_nearps_rsp_timeout_proc)
  /\ WF_vars(Next /\ PsAnswers)
  /\ WF_vars(Next /\ (PassthrEnds \/ PassthrAnswers))

FairSpec == Spec /\ Fairness

-----------------------------------------------------------------------------
(* Properties                                                                 *)

\* Where a command that was accepted can be.
OnItsWay ==
  {rx.text : i \in IF rx.pc = "idle" THEN {} ELSE {1}}
  \cup {m.text : m \in Queue(at_q)} \cup {m.text : m \in Queue(proxy_q)} \cup Queue(ps)
  \cup {msg[t].text : t \in {u \in Task : pc[u] \notin {"get", "reset"}}}
  \cup {passthr.text : i \in IF passthr.pc = "off" THEN {} ELSE {1}}

\* No accepted command gets lost: until its answer is written it is in a queue,
\* with a thread, at the protocol stack or in pass-through mode
\* (single_atcmd_proc to at_farps_fd_write).
NoneLost == owed \subseteq OnItsWay

\* RCV_REQ_NOW, which refuses every further command with 8007, and
\* process_state, which forbids deep sleep (at_deepsleep_Check), are set only
\* while an answer is owed that will clear them.
BusyMeansOwed == uart.rcv => owed # {}

\* The comment of process_state in at_context.h: it tells whether a request has
\* been handled, and until then there is no deep sleep.  The idle thread reads
\* it when the UART thread does not run.
SleepOnlyWhenDone ==
  rx.pc = "idle" /\ menu \cap Critical = {} => uart.processing = (owed # {})

\* The same whatever the MCU sends.
SleepPromise == rx.pc = "idle" /\ owed # {} => uart.processing

\* SEND_REQ_NOW keeps a second command from the protocol stack while the first
\* is not answered (forward_req_at_proc, step 2): so its answer is never taken
\* for that of another command.
AtPs ==
  {<< "ps", i >> : i \in DOMAIN ps}
  \cup {<< "q", i >> : i \in {j \in DOMAIN at_q : at_q[j].ctx = "dsp"}}
  \cup {<< "task", t >> : t \in {u \in Task : pc[u] \in {"mark", "write"}}}
  \cup {<< "near", 1 >> : i \in IF pc["at_ctl"] \in {"near", "deliver"} /\ msg["at_ctl"].ctx = "dsp"
                               THEN {1} ELSE {}}
OneAtPs == \A d, e \in AtPs : d = e

\* No result reaches another context than the one its command came from, even
\* if it comes after the timer has given up waiting (proc_from_nearps).
Origin(m) == IF m.text = Req THEN "proxy" ELSE "uart"
RightContext ==
  [][Deliver => FwdCtx(msg["at_ctl"]) \in {Origin(msg["at_ctl"]), "none"}]_vars

\* at_xy_cmd.c: a failed request of xy_proxy means that the DSP is not loaded;
\* at_ctl.c: a context is written to only while it exists.
NoAssert == ~ asserted

\* Every accepted command is answered, unless an assertion stops the system.
AllAnswered == \A c \in Cmd : c \in owed ~> (c \notin owed \/ asserted)
=============================================================================
