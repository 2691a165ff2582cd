---------------------------- MODULE AtCtl_proofs ----------------------------
(* Theorems about AtCtl: an MCU that sends no critical command has one command *)
(* at a time in the system, whatever the commands are and however late the    *)
(* stack answers; and the types, whatever it sends.                           *)
EXTENDS AtCtl, SequenceTheorems, TLAPS

Solo == menu \cap Critical = {}

(* Who has something to do.                                                   *)
Only(S) ==
  /\ rx.pc # "idle" => "rx" \in S
  /\ at_q # << >> => "queue" \in S
  /\ pc["at_ctl"] \notin {"get", "reset"} => "at_ctl" \in S
  /\ proxy_q # << >> => "proxy_q" \in S
  /\ pc["proxy"] # "get" => "proxy" \in S
  /\ ps # << >> => "ps" \in S
  /\ passthr.pc # "off" => "passthr" \in S

(* nearps_ctx is free, or at_ctl is just about to free it.                    *)
Clean == nearps = NearpsIdle \/ (pc["at_ctl"] = "reset" /\ msg["at_ctl"].ctx = "dsp")
LinkedWith(who) == nearps = [send |-> TRUE, fwd |-> who] /\ pc["at_ctl"] # "reset"
Ctl(m, S) == Only({"at_ctl"}) /\ msg["at_ctl"] = m /\ pc["at_ctl"] \in S
Prx(c, S) == Only({"proxy"}) /\ msg["proxy"] = Far(c, "uart") /\ pc["proxy"] \in S
Results == {"none", "ok", "dsp_off"}

(* A command on its way to the stack, to xy_proxy or back without the stack,  *)
Unlinked(c) ==
  /\ ~ uart.fwd /\ Clean
  /\ \/ Only({"rx"}) /\ rx.pc = "send" /\ rx.text = c
     \/ Only({"queue"}) /\ at_q = << Far(c, "uart") >>
     \/ Ctl(Far(c, "uart"), {"farps", "check", "mark"})
     \/ Ctl(Far(c, "uart"), {"copy"}) /\ uart.proc
     \/ \E k \in [proc : {TRUE}, retrans : Nat] :
          Only({"proxy_q"}) /\ proxy_q = << [text |-> c, copy |-> k] >> /\ pc["at_ctl"] = "get"
     \/ Prx(c, {"proc"}) /\ copy.proc /\ pc["at_ctl"] = "get"
     \/ Prx(c, {"check", "mark"}) /\ pc["at_ctl"] = "get"
     \/ Prx(c, {"answer"})
     \/ Only({"passthr"}) /\ passthr.pc \in {"on", "end"} /\ passthr.text = c
     \/ Only({"queue"}) /\ at_q = << Near(c, "uart", "ok") >>
     \/ Ctl(Near(c, "uart", "ok"), {"near", "deliver"})

(* and one that has nearps_ctx.                                               *)
AtStack(c) ==
  /\ LinkedWith("uart")
  /\ \/ Ctl(Far(c, "uart"), {"write"})
     \/ Prx(c, {"write"}) /\ pc["at_ctl"] = "get"
     \/ Only({"ps"}) /\ ps = << c >>
     \/ \E r \in Results : Only({"queue"}) /\ at_q = << Near(c, "dsp", r) >>
     \/ \E r \in Results : Ctl(Near(c, "dsp", r), {"near", "deliver"})

(* The request of xy_proxy: on its way with the timer running,                *)
ReqAsked ==
  /\ call.timer /\ call.answers = << >>
  /\ \/ Only({"proxy", "queue"}) /\ at_q = << Far(Req, "proxy") >> /\ Clean
     \/ /\ Only({"proxy", "at_ctl"}) /\ msg["at_ctl"] = Far(Req, "proxy")
        /\ \/ pc["at_ctl"] \in {"farps", "check", "mark"} /\ nearps = NearpsIdle
           \/ pc["at_ctl"] = "write" /\ LinkedWith("proxy")

(* at the stack or on its way back, when the timer may have expired,          *)
ReqAtStack ==
  \/ Only({"proxy", "ps"}) /\ ps = << Req >>
  \/ \E r \in Results : Only({"proxy", "queue"}) /\ at_q = << Near(Req, "dsp", r) >>
  \/ \E r \in Results : /\ Only({"proxy", "at_ctl"}) /\ msg["at_ctl"] = Near(Req, "dsp", r)
                         /\ pc["at_ctl"] \in {"near", "deliver"}
ReqServed ==
  /\ ReqAtStack
  /\ \/ call.timer /\ call.answers = << >> /\ LinkedWith("proxy")
     \/ ~ call.timer /\ call.answers = << "timeout" >> /\ nearps = NearpsIdle /\ pc["at_ctl"] # "reset"

(* or gone.                                                                   *)
ReqGone == Only({"proxy"}) /\ Clean

(* A call that failed returns into an assertion, wherever the request is.     *)
Calling(c) ==
  /\ ~ uart.fwd /\ msg["proxy"] = Far(c, "uart")
  /\ \/ pc["proxy"] = "wait" /\ call.reg /\ (ReqAsked \/ ReqServed \/ ReqGone)
     \/ pc["proxy"] = "answer" /\ asserted /\ ReqAtStack

Resting ==
  /\ owed = {} /\ ~ uart.rcv /\ ~ uart.processing /\ ~ uart.fwd
  /\ Only({}) /\ Clean /\ call = NoCall
Arriving(c) ==
  /\ Only({"rx"}) /\ rx.pc = "mark" /\ rx.text = c /\ ~ uart.fwd /\ Clean /\ call = NoCall
Working(c) ==
  /\ uart.processing
  /\ \/ call = NoCall /\ pc["proxy"] # "wait" /\ (Unlinked(c) \/ AtStack(c))
     \/ Calling(c)
One == Resting \/ \E c \in Cmd : owed = {c} /\ uart.rcv /\ (Arriving(c) \/ Working(c))

Shape ==
  /\ uart \in [rcv : BOOLEAN, processing : BOOLEAN, fwd : BOOLEAN, proc : BOOLEAN, retrans : Nat]
  /\ DOMAIN pc = Task /\ DOMAIN msg = Task
  /\ rx = [pc |-> rx.pc, text |-> rx.text] /\ passthr = [pc |-> passthr.pc, text |-> passthr.text]
  /\ call = [reg |-> call.reg, timer |-> call.timer, retrans |-> call.retrans, answers |-> call.answers]
Inv == Solo => Shape /\ One

\* A queue of one message.
LEMMA Single ==
  \A m : /\ Append(<< >>, m) = << m >> /\ << m >> # << >>
         /\ Head(<< m >>) = m /\ Tail(<< m >>) = << >>
  OBVIOUS

\* One thread goes on, the other stays.
LEMMA Goes ==
  ASSUME Shape, NEW t \in Task, NEW next, Go(t, next)
  PROVE  /\ pc'[t] = next /\ DOMAIN pc' = Task
         /\ \A u \in Task : u # t => pc'[u] = pc[u]
  BY DEF Shape, Go

\* Both tasks, and what the two kinds of messages are.
LEMMA Basics ==
  /\ "at_ctl" \in Task /\ "proxy" \in Task /\ Req \notin Cmd
  /\ \A c, ctx, r : /\ Far(c, ctx).src = "far" /\ Far(c, ctx).text = c /\ Far(c, ctx).ctx = ctx
                    /\ Near(c, ctx, r).src = "near" /\ Near(c, ctx, r).text = c
                    /\ Near(c, ctx, r).ctx = ctx /\ Near(c, ctx, r).res = r
  BY CommandAssumption DEF Task, Far, Near

\* Steps of the UART thread.
LEMMA UartStep ==
  ASSUME Solo, Shape, One, ~ asserted, (\E d \in Cmd : AcceptCmd(d)) \/ RxStep
  PROVE  Shape' /\ One'
PROOF
  <1> USE DEF channel
  <1>1. ASSUME NEW d \in Cmd, AcceptCmd(d)  PROVE Shape' /\ One'
    <2>1. d \notin Critical /\ ~ uart.rcv
      BY <1>1 DEF AcceptCmd, Accepts, Solo
    <2>2. Resting
      BY <2>1 DEF One
    <2>3. Shape' /\ uart'.rcv /\ ~ uart'.fwd /\ owed' = {d}
      BY <1>1, <2>2 DEF AcceptCmd, Shape, Resting
    <2>4. Arriving(d)'
      BY <1>1, <2>2, <2>3 DEF AcceptCmd, Arriving, Resting, Only, Clean
    <2> QED  BY <2>3, <2>4 DEF One
  <1>2. CASE MarkProcessing
    <2>1. PICK c \in Cmd : owed = {c} /\ uart.rcv /\ Arriving(c)
      BY <1>2 DEF MarkProcessing, One, Resting, Working, Unlinked, AtStack, Calling, ReqAsked,
         ReqServed, ReqAtStack, ReqGone, Ctl, Prx, Only
    <2>2. Shape' /\ uart'.processing /\ uart'.rcv /\ ~ uart'.fwd
      BY <1>2, <2>1 DEF MarkProcessing, Shape, Arriving
    <2>3. Working(c)'
      BY <1>2, <2>1, <2>2 DEF MarkProcessing, Working, Unlinked, Arriving, Only, Clean
    <2> QED  BY <1>2, <2>1, <2>2, <2>3 DEF One, MarkProcessing
  <1>3. CASE SendToCtl
    <2>1. PICK c \in Cmd : /\ owed = {c} /\ uart.rcv /\ uart.processing /\ call = NoCall
                           /\ pc["proxy"] # "wait" /\ ~ uart.fwd /\ Clean
                           /\ Only({"rx"}) /\ rx.text = c
      BY <1>3 DEF SendToCtl, One, Resting, Arriving, Working, Unlinked, AtStack, Calling, ReqAsked,
         ReqServed, ReqAtStack, ReqGone, Ctl, Prx, Only
    <2>2. Shape' /\ rx'.pc = "idle"
      BY <1>3 DEF SendToCtl, Shape
    <2>4. at_q' = << Far(c, "uart") >>
      BY <1>3, <2>1, Single DEF SendToCtl, Only
    <2>3. Working(c)'
      BY <1>3, <2>1, <2>2, <2>4 DEF SendToCtl, Working, Unlinked, Only, Clean
    <2> QED  BY <1>3, <2>1, <2>2, <2>3 DEF One, SendToCtl
  <1> QED  BY <1>1, <1>2, <1>3 DEF RxStep

\* What at_ctl may have in hand.
Hand(c) ==
  \/ call = NoCall /\ pc["proxy"] # "wait" /\ (Unlinked(c) \/ AtStack(c))
  \/ Calling(c)
Held(c) == owed = {c} /\ uart.rcv /\ uart.processing
\* One, told by where the one command is.
LEMMA HandIs == One <=> Resting \/ \E c \in Cmd : \/ owed = {c} /\ uart.rcv /\ Arriving(c)
                                                  \/ Held(c) /\ Hand(c)
  BY DEF One, Working, Held, Hand

\* at_ctl takes a message.
LEMMA GetStep ==
  ASSUME Solo, Shape, One, ~ asserted, AtGet
  PROVE  Shape' /\ One'
PROOF
  <1> USE DEF channel
  <1>0. /\ pc["at_ctl"] = "get" /\ at_q # << >> /\ at_q' = Tail(at_q)
        /\ msg'["at_ctl"] = Head(at_q) /\ msg'["proxy"] = msg["proxy"]
        /\ pc'["at_ctl"] = IF Head(at_q).src = "far" THEN "farps" ELSE "near"
        /\ pc'["proxy"] = pc["proxy"] /\ Shape'
    BY Goes, Basics DEF AtGet, Shape, Task
  <1>1. PICK c \in Cmd : Held(c) /\ Hand(c)
    BY <1>0, HandIs DEF Resting, Arriving, Only
  <1>2. Held(c)'
    BY <1>1 DEF AtGet, Held
  <1>3. CASE call = NoCall /\ pc["proxy"] # "wait" /\ Unlinked(c)
    <2>1. /\ Only({"queue"}) /\ nearps = NearpsIdle /\ ~ uart.fwd
          /\ at_q = << Far(c, "uart") >> \/ at_q = << Near(c, "uart", "ok") >>
      BY <1>0, <1>3 DEF Unlinked, Only, Ctl, Prx, Clean
    <2>2. ASSUME at_q = << Far(c, "uart") >>  PROVE Unlinked(c)'
      <3>1. Ctl(Far(c, "uart"), {"farps"})'
        BY <1>0, <2>1, <2>2, Single, Basics DEF AtGet, Only, Ctl
      <3>2. nearps' = NearpsIdle /\ ~ uart'.fwd
        BY <2>1 DEF AtGet
      <3> QED  BY <3>1, <3>2 DEF Unlinked, Clean, Ctl
    <2>3. ASSUME at_q = << Near(c, "uart", "ok") >>  PROVE Unlinked(c)'
      <3>1. Ctl(Near(c, "uart", "ok"), {"near"})'
        BY <1>0, <2>1, <2>3, Single, Basics DEF AtGet, Only, Ctl
      <3>2. nearps' = NearpsIdle /\ ~ uart'.fwd
        BY <2>1 DEF AtGet
      <3> QED  BY <3>1, <3>2 DEF Unlinked, Clean, Ctl
    <2>4. Unlinked(c)'
      BY <2>1, <2>2, <2>3
    <2> QED  BY <1>0, <1>2, <1>3, <2>4, HandIs DEF One, Working, Held, AtGet
  <1>4. CASE call = NoCall /\ pc["proxy"] # "wait" /\ AtStack(c)
    <2>1. PICK r \in Results : LinkedWith("uart") /\ Only({"queue"}) /\ at_q = << Near(c, "dsp", r) >>
      BY <1>0, <1>4 DEF AtStack, Only, Ctl, Prx
    <2>2. Ctl(Near(c, "dsp", r), {"near"})' /\ LinkedWith("uart")'
      BY <1>0, <2>1, Single, Basics DEF AtGet, Only, Ctl, LinkedWith
    <2>3. AtStack(c)'
      BY <2>2 DEF AtStack, Ctl
    <2> QED  BY <1>0, <1>2, <1>4, <2>3 DEF One, Working, Held, AtGet
  <1>5. CASE Calling(c)
    <2>0. /\ ~ uart.fwd /\ msg["proxy"] = Far(c, "uart") /\ pc["proxy"] = "wait" /\ call.reg
          /\ ReqAsked \/ ReqServed \/ ReqGone
      BY <1>5 DEF Calling
    <2>1. CASE ReqAsked
      <3>1. Only({"proxy", "queue"}) /\ at_q = << Far(Req, "proxy") >> /\ nearps = NearpsIdle
        BY <1>0, <2>1 DEF ReqAsked, Only, Clean
      <3>2. ReqAsked'
        BY <1>0, <2>1, <3>1, Single, Basics DEF AtGet, ReqAsked, Only
      <3> QED  BY <1>0, <1>2, <2>0, <3>2 DEF One, Working, Held, Calling, AtGet
    <2>2. CASE ReqServed
      <3>1. PICK r \in Results : Only({"proxy", "queue"}) /\ at_q = << Near(Req, "dsp", r) >>
        BY <1>0, <2>2 DEF ReqServed, ReqAtStack, Only
      <3>2. ReqAtStack'
        BY <1>0, <3>1, Single, Basics DEF AtGet, ReqAtStack, Only
      <3>3. ReqServed'
        BY <1>0, <2>2, <3>1, <3>2, Basics, Single DEF AtGet, ReqServed, LinkedWith
      <3> QED  BY <1>0, <1>2, <2>0, <3>3 DEF One, Working, Held, Calling, AtGet
    <2>3. CASE ReqGone
      BY <1>0, <2>3 DEF ReqGone, Only
    <2> QED  BY <2>0, <2>1, <2>2, <2>3
  <1> QED  BY <1>1, <1>3, <1>4, <1>5 DEF Hand

\* at_ctl sorts a request.
LEMMA FarpsStep ==
  ASSUME Solo, Shape, One, ~ asserted, ProcFromFarps \/ CopyToProxy
  PROVE  Shape' /\ One'
PROOF
  <1> USE DEF channel
  <1>0. PICK c \in Cmd : Held(c) /\ Hand(c)
    BY HandIs DEF Resting, Arriving, Only, ProcFromFarps, CopyToProxy
  <1>1. CASE ProcFromFarps
    <2>0. /\ pc["at_ctl"] = "farps" /\ pc'["proxy"] = pc["proxy"]
          /\ msg' = msg /\ DOMAIN pc' = Task
      BY <1>1, Goes, Basics DEF ProcFromFarps
    <2>1. CASE call = NoCall /\ pc["proxy"] # "wait" /\ (Unlinked(c) \/ AtStack(c))
      <3>1. /\ Only({"at_ctl"}) /\ msg["at_ctl"] = Far(c, "uart") /\ nearps = NearpsIdle /\ ~ uart.fwd
        BY <2>0, <2>1 DEF Unlinked, AtStack, Only, Ctl, Prx, Clean
      <3>2. CASE Kind[c] = "ps"
        <4>1. pc'["at_ctl"] = "check" /\ UNCHANGED channel
          BY <1>1, <3>1, <3>2, Goes, Basics DEF ProcFromFarps
        <4>2. Unlinked(c)'
          BY <1>1, <2>0, <3>1, <4>1 DEF ProcFromFarps, Unlinked, Ctl, Only, Clean
        <4> QED  BY <1>0, <1>1, <2>0, <2>1, <4>1, <4>2 DEF One, Working, Held, ProcFromFarps, Shape
      <3>3. CASE Kind[c] = "bad"
        <4>1. pc'["at_ctl"] = "get" /\ AnswerUart(c)
          BY <1>1, <3>1, <3>3, Goes, Basics DEF ProcFromFarps
        <4>2. Resting' /\ Shape'
          BY <1>0, <1>1, <2>0, <2>1, <3>1, <4>1
             DEF ProcFromFarps, Resting, Held, AnswerUart, Answered, reset_ctx, Shape, Only, Clean
        <4> QED  BY <4>2 DEF One
      <3>4. CASE Kind[c] \notin {"ps", "bad"}
        <4>1. pc'["at_ctl"] = "copy" /\ uart' = [uart EXCEPT !.proc = TRUE] /\ UNCHANGED << menu, owed, rx >>
          BY <1>1, <3>1, <3>4, Goes, Basics DEF ProcFromFarps
        <4>2. Shape' /\ uart'.proc /\ ~ uart'.fwd /\ uart'.rcv = uart.rcv /\ uart'.processing = uart.processing
          BY <1>1, <2>0, <3>1, <4>1 DEF ProcFromFarps, Shape
        <4>3. Unlinked(c)'
          BY <1>1, <2>0, <3>1, <4>1, <4>2 DEF ProcFromFarps, Unlinked, Ctl, Only, Clean
        <4> QED  BY <1>0, <1>1, <2>0, <2>1, <4>1, <4>2, <4>3 DEF One, Working, Held, ProcFromFarps
      <3> QED  BY <3>2, <3>3, <3>4
    <2>2. CASE Calling(c)
      <3>1. /\ pc["proxy"] = "wait" /\ call.reg /\ ReqAsked /\ nearps = NearpsIdle
            /\ ~ uart.fwd /\ msg["proxy"] = Far(c, "uart")
            /\ msg["at_ctl"] = Far(Req, "proxy") /\ Only({"proxy", "at_ctl"})
        BY <2>0, <2>2 DEF Calling, ReqAsked, ReqServed, ReqAtStack, ReqGone, Only
      <3>2. pc'["at_ctl"] = "check" /\ UNCHANGED channel
        BY <1>1, <3>1, Goes, Basics DEF ProcFromFarps
      <3>3. ReqAsked'
        BY <1>1, <2>0, <3>1, <3>2 DEF ProcFromFarps, ReqAsked, Only
      <3> QED  BY <1>0, <1>1, <2>0, <3>1, <3>2, <3>3 DEF One, Working, Held, ProcFromFarps, Calling, Shape
    <2> QED  BY <1>0, <2>1, <2>2 DEF Hand
  <1>2. CASE CopyToProxy
    <2>0. /\ pc["at_ctl"] = "copy" /\ pc'["proxy"] = pc["proxy"] /\ pc'["at_ctl"] = "get"
          /\ msg' = msg /\ Shape'
      BY <1>2, Goes, Basics DEF CopyToProxy, Shape
    <2>1. /\ call = NoCall /\ Only({"at_ctl"}) /\ msg["at_ctl"] = Far(c, "uart")
          /\ nearps = NearpsIdle /\ ~ uart.fwd /\ uart.proc
      BY <1>0, <2>0 DEF Hand, Calling, ReqAsked, ReqServed, ReqAtStack, ReqGone,
         Unlinked, AtStack, Only, Ctl, Prx, Clean
    <2>2. PICK k : k = [proc |-> uart.proc, retrans |-> uart.retrans]
      OBVIOUS
    <2>3. k \in [proc : {TRUE}, retrans : Nat]
      BY <2>1, <2>2 DEF Shape
    <2>6. proxy_q = << >> /\ msg["at_ctl"].text = c
      BY <2>1, Basics DEF Only
    <2>4. proxy_q' = << [text |-> c, copy |-> k] >>
      BY <1>2, <2>2, <2>6, Single DEF CopyToProxy
    <2>5. Unlinked(c)'
      BY <1>2, <2>0, <2>1, <2>3, <2>4 DEF CopyToProxy, Unlinked, Only, Clean
    <2> QED  BY <1>0, <1>2, <2>0, <2>1, <2>5 DEF One, Working, Held, CopyToProxy, Only
  <1> QED  BY <1>1, <1>2

\* forward_req_at_proc finds nearps_ctx free.
LEMMA ForwardFree ==
  ASSUME Solo, Shape, One, ~ asserted, NEW t \in Task, pc[t] \in {"check", "mark"}
  PROVE  nearps = NearpsIdle /\ ~ Busy(t)
PROOF
  <1>1. PICK c \in Cmd : Held(c) /\ Hand(c)
    BY HandIs DEF Resting, Arriving, Only, Task
  <1>2. t = "at_ctl" => nearps = NearpsIdle
    BY <1>1 DEF Hand, Calling, ReqAsked, ReqServed, ReqAtStack, ReqGone, Unlinked, AtStack,
       Only, Ctl, Prx, Clean
  <1>3. t = "proxy" => nearps = NearpsIdle
    BY <1>1 DEF Hand, Calling, Unlinked, AtStack, Only, Ctl, Prx, Clean
  <1> QED  BY <1>2, <1>3 DEF Task, NearpsIdle, Busy

\* It never waits.
LEMMA NoDelay ==
  ASSUME Shape, One, ~ asserted, NEW t \in Task
  PROVE  pc[t] # "delay"
PROOF
  <1>1. SUFFICES ASSUME pc[t] = "delay"  PROVE FALSE
    OBVIOUS
  <1>2. PICK c \in Cmd : Held(c) /\ Hand(c)
    BY <1>1, HandIs DEF Resting, Arriving, Only, Task
  <1>3. t # "at_ctl"
    BY <1>1, <1>2 DEF Hand, Calling, ReqAsked, ReqServed, ReqAtStack, ReqGone, Unlinked, AtStack,
       Only, Ctl, Prx
  <1>4. t # "proxy"
    BY <1>1, <1>2 DEF Hand, Calling, Unlinked, AtStack, Only, Ctl, Prx
  <1> QED  BY <1>3, <1>4 DEF Task

\* forward_req_at_proc, run by at_ctl.
LEMMA CtlForwards ==
  ASSUME Solo, Shape, One, ~ asserted, Forward("at_ctl")
  PROVE  Shape' /\ One'
PROOF
  <1> USE DEF channel
  <1>0. CheckFree("at_ctl") \/ MarkSend("at_ctl") \/ WriteToPs("at_ctl")
    BY ForwardFree, NoDelay, Basics DEF Forward, WaitBeforeRetry, Retransmit, GiveUp
  <1>1. PICK c \in Cmd : Held(c) /\ Hand(c)
    BY <1>0, HandIs DEF Resting, Arriving, Only, CheckFree, MarkSend, WriteToPs
  <1>2. CASE CheckFree("at_ctl")
    <2>0. /\ pc["at_ctl"] = "check" /\ pc'["at_ctl"] = "mark" /\ pc'["proxy"] = pc["proxy"]
          /\ msg' = msg /\ Shape'
      BY <1>2, Goes, Basics DEF CheckFree, Shape
    <2>1. ASSUME call = NoCall, pc["proxy"] # "wait", Unlinked(c) \/ AtStack(c)  PROVE One'
      <3>1. Ctl(Far(c, "uart"), {"check"}) /\ nearps = NearpsIdle /\ ~ uart.fwd
        BY <2>0, <2>1 DEF Unlinked, AtStack, Only, Ctl, Prx, Clean
      <3>2. Ctl(Far(c, "uart"), {"mark"})'
        BY <1>2, <2>0, <3>1 DEF CheckFree, Ctl, Only
      <3>3. Unlinked(c)'
        BY <1>2, <3>1, <3>2 DEF CheckFree, Unlinked, Ctl, Clean
      <3> QED  BY <1>1, <1>2, <2>0, <2>1, <3>3 DEF One, Working, Held, CheckFree
    <2>2. ASSUME Calling(c)  PROVE One'
      <3>1. /\ pc["proxy"] = "wait" /\ call.reg /\ ~ uart.fwd /\ msg["proxy"] = Far(c, "uart")
            /\ ReqAsked /\ nearps = NearpsIdle
            /\ msg["at_ctl"] = Far(Req, "proxy") /\ Only({"proxy", "at_ctl"})
        BY <2>0, <2>2 DEF Calling, ReqAsked, ReqServed, ReqAtStack, ReqGone, Only
      <3>2. ReqAsked'
        BY <1>2, <2>0, <3>1 DEF CheckFree, ReqAsked, Only
      <3> QED  BY <1>1, <1>2, <2>0, <3>1, <3>2 DEF One, Working, Held, Calling, CheckFree
    <2> QED  BY <1>1, <2>0, <2>1, <2>2 DEF Hand
  <1>3. CASE MarkSend("at_ctl")
    <2>0. /\ pc["at_ctl"] = "mark" /\ pc'["at_ctl"] = "write" /\ pc'["proxy"] = pc["proxy"]
          /\ msg' = msg /\ DOMAIN pc' = Task
      BY <1>3, Goes, Basics DEF MarkSend
    <2>1. ASSUME call = NoCall, pc["proxy"] # "wait", Unlinked(c) \/ AtStack(c)  PROVE Shape' /\ One'
      <3>1. Ctl(Far(c, "uart"), {"mark"})
        BY <2>0, <2>1 DEF Unlinked, AtStack, Only, Ctl, Prx
      <3>5. msg["at_ctl"].ctx = "uart"
        BY <3>1, Basics DEF Ctl
      <3>6. uart' = [uart EXCEPT !.fwd = TRUE] /\ nearps' = [send |-> TRUE, fwd |-> "uart"]
        BY <1>3, <3>5 DEF MarkSend, Linked
      <3>2. Shape' /\ uart'.rcv = uart.rcv /\ uart'.processing = uart.processing
        BY <1>3, <2>0, <3>6 DEF MarkSend, Shape
      <3>3. Ctl(Far(c, "uart"), {"write"})' /\ LinkedWith("uart")'
        BY <1>3, <2>0, <3>1, <3>6 DEF MarkSend, Ctl, Only, LinkedWith
      <3>4. AtStack(c)'
        BY <3>3 DEF AtStack
      <3> QED  BY <1>1, <1>3, <2>0, <2>1, <3>2, <3>4 DEF One, Working, Held, MarkSend
    <2>2. ASSUME Calling(c)  PROVE Shape' /\ One'
      <3>1. /\ pc["proxy"] = "wait" /\ call.reg /\ ~ uart.fwd /\ msg["proxy"] = Far(c, "uart")
            /\ ReqAsked /\ msg["at_ctl"] = Far(Req, "proxy") /\ Only({"proxy", "at_ctl"})
        BY <2>0, <2>2 DEF Calling, ReqAsked, ReqServed, ReqAtStack, ReqGone, Only
      <3>4. msg["at_ctl"].ctx = "proxy"
        BY <3>1, Basics
      <3>2. UNCHANGED uart /\ LinkedWith("proxy")'
        BY <1>3, <2>0, <3>4 DEF MarkSend, Linked, LinkedWith
      <3>3. ReqAsked'
        BY <1>3, <2>0, <3>1, <3>2 DEF MarkSend, ReqAsked, Only
      <3> QED  BY <1>1, <1>3, <2>0, <3>1, <3>2, <3>3 DEF One, Working, Held, Calling, MarkSend, Shape
    <2> QED  BY <1>1, <2>1, <2>2 DEF Hand
  <1>4. CASE WriteToPs("at_ctl")
    <2>0. /\ pc["at_ctl"] = "write" /\ pc'["at_ctl"] = "get" /\ pc'["proxy"] = pc["proxy"]
          /\ msg' = msg /\ Shape'
      BY <1>4, Goes, Basics DEF WriteToPs, Shape
    <2>1. ASSUME call = NoCall, pc["proxy"] # "wait", Unlinked(c) \/ AtStack(c)  PROVE One'
      <3>1. Ctl(Far(c, "uart"), {"write"}) /\ LinkedWith("uart")
        BY <2>0, <2>1 DEF Unlinked, AtStack, Only, Ctl, Prx
      <3>2. /\ at_q = << >> /\ ps = << >> /\ msg["at_ctl"].text = c /\ LinkedWith("uart")'
        BY <1>4, <2>0, <3>1, Basics DEF Ctl, Only, LinkedWith, WriteToPs
      <3>3. \/ at_q' = << Near(c, "dsp", "dsp_off") >> /\ ps' = << >>
            \/ ps' = << c >> /\ at_q' = << >>
        BY <1>4, <3>2, Single DEF WriteToPs
      <3>4. Only({"queue"})' \/ Only({"ps"})'
        BY <1>4, <2>0, <3>1, <3>3 DEF Ctl, Only, WriteToPs
      <3>5. AtStack(c)'
        BY <3>2, <3>3, <3>4 DEF AtStack, Only, Results
      <3> QED  BY <1>1, <1>4, <2>0, <2>1, <3>5 DEF One, Working, Held, WriteToPs
    <2>2. ASSUME Calling(c)  PROVE One'
      <3>1. /\ pc["proxy"] = "wait" /\ call.reg /\ ~ uart.fwd /\ msg["proxy"] = Far(c, "uart")
            /\ call.timer /\ call.answers = << >> /\ LinkedWith("proxy")
            /\ msg["at_ctl"] = Far(Req, "proxy") /\ Only({"proxy", "at_ctl"})
        BY <2>0, <2>2 DEF Calling, ReqAsked, ReqServed, ReqAtStack, ReqGone, Only
      <3>2. /\ at_q = << >> /\ ps = << >> /\ msg["at_ctl"].text = Req /\ LinkedWith("proxy")'
        BY <1>4, <2>0, <3>1, Basics DEF Only, LinkedWith, WriteToPs
      <3>3. \/ at_q' = << Near(Req, "dsp", "dsp_off") >> /\ ps' = << >>
            \/ ps' = << Req >> /\ at_q' = << >>
        BY <1>4, <3>2, Single DEF WriteToPs
      <3>4. Only({"proxy", "queue"})' \/ Only({"proxy", "ps"})'
        BY <1>4, <2>0, <3>1, <3>3 DEF Only, WriteToPs
      <3>5. ReqAtStack'
        BY <3>3, <3>4 DEF ReqAtStack, Only, Results
      <3>6. ReqServed'
        BY <1>4, <3>1, <3>2, <3>5 DEF ReqServed, WriteToPs
      <3> QED  BY <1>1, <1>4, <2>0, <3>1, <3>6 DEF One, Working, Held, Calling, WriteToPs
    <2> QED  BY <1>1, <2>0, <2>1, <2>2 DEF Hand
  <1> QED  BY <1>0, <1>2, <1>3, <1>4

\* forward_req_at_proc, run by xy_proxy.
LEMMA ProxyForwards ==
  ASSUME Solo, Shape, One, ~ asserted, Forward("proxy")
  PROVE  Shape' /\ One'
PROOF
  <1> USE DEF channel
  <1>0. CheckFree("proxy") \/ MarkSend("proxy") \/ WriteToPs("proxy")
    BY ForwardFree, NoDelay, Basics DEF Forward, WaitBeforeRetry, Retransmit, GiveUp
  <1>1. PICK c \in Cmd : Held(c) /\ Hand(c)
    BY <1>0, HandIs DEF Resting, Arriving, Only, CheckFree, MarkSend, WriteToPs
  <1>2. /\ pc["proxy"] \in {"check", "mark", "write"}
        /\ pc'["at_ctl"] = pc["at_ctl"] /\ msg' = msg /\ DOMAIN pc' = Task
    BY <1>0, Goes, Basics DEF CheckFree, MarkSend, WriteToPs
  <1>3. /\ call = NoCall /\ Only({"proxy"}) /\ msg["proxy"] = Far(c, "uart")
        /\ pc["at_ctl"] = "get"
        /\ pc["proxy"] # "write" => nearps = NearpsIdle /\ ~ uart.fwd
        /\ pc["proxy"] = "write" => LinkedWith("uart")
    BY <1>1, <1>2 DEF Hand, Calling, Unlinked, AtStack, Only, Ctl, Prx, Clean
  <1>4. CASE CheckFree("proxy")
    <2>0. /\ pc["proxy"] = "check" /\ pc'["proxy"] = "mark" /\ Shape'
      BY <1>4, <1>2, Goes, Basics DEF CheckFree, Shape
    <2>1. Prx(c, {"mark"})'
      BY <1>2, <1>3, <1>4, <2>0 DEF CheckFree, Prx, Only
    <2>2. Unlinked(c)'
      BY <1>2, <1>3, <1>4, <2>0, <2>1 DEF CheckFree, Unlinked, Prx, Clean
    <2> QED  BY <1>1, <1>3, <1>4, <2>0, <2>2 DEF One, Working, Held, CheckFree
  <1>5. CASE MarkSend("proxy")
    <2>0. pc["proxy"] = "mark" /\ pc'["proxy"] = "write"
      BY <1>5, Goes, Basics DEF MarkSend
    <2>4. msg["proxy"].ctx = "uart"
      BY <1>3, Basics
    <2>5. uart' = [uart EXCEPT !.fwd = TRUE] /\ nearps' = [send |-> TRUE, fwd |-> "uart"]
      BY <1>5, <2>4 DEF MarkSend, Linked
    <2>1. Shape' /\ uart'.rcv = uart.rcv /\ uart'.processing = uart.processing
      BY <1>2, <1>5, <2>5 DEF MarkSend, Shape
    <2>2. Prx(c, {"write"})' /\ LinkedWith("uart")'
      BY <1>2, <1>3, <1>5, <2>0, <2>5 DEF MarkSend, Prx, Only, LinkedWith
    <2>3. AtStack(c)'
      BY <1>2, <1>3, <2>2 DEF AtStack
    <2> QED  BY <1>1, <1>3, <1>5, <2>0, <2>1, <2>3 DEF One, Working, Held, MarkSend
  <1>6. CASE WriteToPs("proxy")
    <2>0. pc["proxy"] = "write" /\ pc'["proxy"] = "get" /\ Shape'
      BY <1>2, <1>6, Goes, Basics DEF WriteToPs, Shape
    <2>1. /\ at_q = << >> /\ ps = << >> /\ msg["proxy"].text = c /\ LinkedWith("uart")'
      BY <1>2, <1>3, <1>6, <2>0, Basics DEF Only, LinkedWith, WriteToPs
    <2>2. \/ at_q' = << Near(c, "dsp", "dsp_off") >> /\ ps' = << >>
          \/ ps' = << c >> /\ at_q' = << >>
      BY <1>6, <2>1, Single DEF WriteToPs
    <2>3. Only({"queue"})' \/ Only({"ps"})'
      BY <1>2, <1>3, <1>6, <2>0, <2>2 DEF Only, WriteToPs
    <2>4. AtStack(c)'
      BY <2>1, <2>2, <2>3 DEF AtStack, Only, Results
    <2> QED  BY <1>1, <1>3, <1>6, <2>0, <2>4 DEF One, Working, Held, WriteToPs
  <1> QED  BY <1>0, <1>4, <1>5, <1>6

\* at_ctl looks up whom a result is for.
LEMMA LooksUp ==
  ASSUME Solo, Shape, One, ~ asserted, ProcFromNearps
  PROVE  Shape' /\ One'
PROOF
  <1> USE DEF channel
  <1>0. /\ pc["at_ctl"] = "near" /\ pc'["proxy"] = pc["proxy"] /\ msg' = msg /\ Shape'
        /\ pc'["at_ctl"] = IF FwdCtx(msg["at_ctl"]) = "none" THEN "reset" ELSE "deliver"
    BY Goes, Basics DEF ProcFromNearps, Shape
  <1>1. PICK c \in Cmd : Held(c) /\ Hand(c)
    BY <1>0, HandIs DEF Resting, Arriving, Only
  <1>2. ASSUME call = NoCall, pc["proxy"] # "wait", Unlinked(c)  PROVE One'
    <2>1. Ctl(Near(c, "uart", "ok"), {"near"}) /\ nearps = NearpsIdle /\ ~ uart.fwd
      BY <1>0, <1>2 DEF Unlinked, Only, Ctl, Prx, Clean
    <2>2. pc'["at_ctl"] = "deliver"
      BY <1>0, <2>1, Basics DEF Ctl, FwdCtx
    <2>3. Ctl(Near(c, "uart", "ok"), {"deliver"})'
      BY <1>0, <2>1, <2>2 DEF ProcFromNearps, Ctl, Only
    <2>4. Unlinked(c)'
      BY <2>1, <2>3 DEF ProcFromNearps, Unlinked, Ctl, Clean
    <2> QED  BY <1>0, <1>1, <1>2, <2>4 DEF One, Working, Held, ProcFromNearps
  <1>3. ASSUME call = NoCall, pc["proxy"] # "wait", AtStack(c)  PROVE One'
    <2>1. PICK r \in Results : Ctl(Near(c, "dsp", r), {"near"}) /\ LinkedWith("uart")
      BY <1>0, <1>3 DEF AtStack, Only, Ctl, Prx
    <2>2. pc'["at_ctl"] = "deliver"
      BY <1>0, <2>1, Basics DEF Ctl, FwdCtx, LinkedWith
    <2>3. Ctl(Near(c, "dsp", r), {"deliver"})' /\ LinkedWith("uart")'
      BY <1>0, <2>1, <2>2 DEF ProcFromNearps, Ctl, Only, LinkedWith
    <2>4. AtStack(c)'
      BY <2>3 DEF AtStack, Ctl
    <2> QED  BY <1>0, <1>1, <1>3, <2>4 DEF One, Working, Held, ProcFromNearps
  <1>4. ASSUME Calling(c)  PROVE One'
    <2>1. /\ pc["proxy"] = "wait" /\ call.reg /\ ~ uart.fwd /\ msg["proxy"] = Far(c, "uart")
          /\ ReqServed /\ Only({"proxy", "at_ctl"})
      BY <1>0, <1>4 DEF Calling, ReqAsked, ReqServed, ReqAtStack, ReqGone, Only
    <2>2. PICK r \in Results : msg["at_ctl"] = Near(Req, "dsp", r)
      BY <1>0, <2>1 DEF ReqServed, ReqAtStack, Only
    <2>3. CASE nearps = NearpsIdle
      <3>1. pc'["at_ctl"] = "reset"
        BY <1>0, <2>2, <2>3, Basics DEF FwdCtx, NearpsIdle
      <3>2. ReqGone'
        BY <1>0, <2>1, <2>3, <3>1 DEF ProcFromNearps, ReqGone, Only, Clean
      <3> QED  BY <1>0, <1>1, <2>1, <3>2 DEF One, Working, Held, Calling, ProcFromNearps
    <2>4. CASE nearps # NearpsIdle
      <3>1. call.timer /\ call.answers = << >> /\ LinkedWith("proxy")
        BY <2>1, <2>4 DEF ReqServed
      <3>2. pc'["at_ctl"] = "deliver"
        BY <1>0, <2>2, <3>1, Basics DEF FwdCtx, LinkedWith
      <3>3. ReqAtStack' /\ LinkedWith("proxy")'
        BY <1>0, <2>1, <2>2, <3>1, <3>2 DEF ProcFromNearps, ReqAtStack, Only, LinkedWith
      <3>4. ReqServed'
        BY <3>1, <3>3 DEF ProcFromNearps, ReqServed
      <3> QED  BY <1>0, <1>1, <2>1, <3>4 DEF One, Working, Held, Calling, ProcFromNearps
    <2> QED  BY <2>3, <2>4
  <1> QED  BY <1>0, <1>1, <1>2, <1>3, <1>4 DEF Hand

\* The answer to a command of the MCU is written.
LEMMA AnswerRests ==
  ASSUME Shape, NEW c \in Cmd, owed = {c}, AnswerUart(c), DOMAIN pc' = Task, msg' = msg,
         UNCHANGED << passthr, call >>
  PROVE  Shape' /\ owed' = {} /\ ~ uart'.rcv /\ ~ uart'.processing /\ ~ uart'.fwd
  BY DEF Shape, AnswerUart, Answered, reset_ctx

\* at_ctl passes a result on.
LEMMA DeliverStep ==
  ASSUME Solo, Shape, One, ~ asserted, Deliver
  PROVE  Shape' /\ One'
PROOF
  <1> USE DEF channel
  <1>0. /\ pc["at_ctl"] = "deliver" /\ pc'["at_ctl"] = "reset" /\ pc'["proxy"] = pc["proxy"]
        /\ msg' = msg /\ DOMAIN pc' = Task
    BY Goes, Basics DEF Deliver
  <1>1. PICK c \in Cmd : Held(c) /\ Hand(c)
    BY <1>0, HandIs DEF Resting, Arriving, Only
  <1>2. ASSUME call = NoCall, pc["proxy"] # "wait", Unlinked(c) \/ AtStack(c)  PROVE Shape' /\ One'
    <2>1. /\ Only({"at_ctl"}) /\ msg["at_ctl"].text = c /\ FwdCtx(msg["at_ctl"]) = "uart"
          /\ nearps = NearpsIdle \/ msg["at_ctl"].ctx = "dsp"
      <3>1. CASE Unlinked(c)
        <4>1. Ctl(Near(c, "uart", "ok"), {"deliver"}) /\ nearps = NearpsIdle /\ ~ uart.fwd
          BY <1>0, <3>1 DEF Unlinked, Only, Ctl, Prx, Clean
        <4> QED  BY <4>1, Basics DEF Ctl, FwdCtx
      <3>2. CASE AtStack(c)
        <4>1. PICK r \in Results : Ctl(Near(c, "dsp", r), {"deliver"}) /\ LinkedWith("uart")
          BY <1>0, <3>2 DEF AtStack, Only, Ctl, Prx
        <4> QED  BY <4>1, Basics DEF Ctl, FwdCtx, LinkedWith
      <3> QED  BY <1>2, <3>1, <3>2
    <2>2. AnswerUart(c) /\ UNCHANGED << passthr, call, ps, rx, at_q, proxy_q, nearps >>
      BY <2>1 DEF Deliver, AnswerUart
    <2>3. Shape' /\ owed' = {} /\ ~ uart'.rcv /\ ~ uart'.processing /\ ~ uart'.fwd
      BY <1>0, <1>1, <2>2, AnswerRests DEF Held
    <2>4. Only({})' /\ Clean'
      BY <1>0, <2>1, <2>2 DEF Only, Clean
    <2> QED  BY <1>2, <2>2, <2>3, <2>4 DEF One, Resting
  <1>3. ASSUME Calling(c)  PROVE Shape' /\ One'
    <2>1. /\ pc["proxy"] = "wait" /\ call.reg /\ ~ uart.fwd /\ msg["proxy"] = Far(c, "uart")
          /\ ReqServed /\ Only({"proxy", "at_ctl"})
      BY <1>0, <1>3 DEF Calling, ReqAsked, ReqServed, ReqAtStack, ReqGone, Only
    <2>2. PICK r \in Results : msg["at_ctl"] = Near(Req, "dsp", r)
      BY <1>0, <2>1 DEF ReqServed, ReqAtStack, Only
    <2>3. FwdCtx(msg["at_ctl"]) \in {"none", "proxy"}
      BY <2>1, <2>2, Basics DEF FwdCtx, ReqServed, LinkedWith, NearpsIdle
    <2>4. /\ UNCHANGED << channel, ps, nearps, at_q, proxy_q, passthr >>
          /\ call' = call \/ call' = [call EXCEPT !.answers = Append(@, r)]
      BY <2>2, <2>3, Basics DEF Deliver
    <2>5. Shape' /\ call'.reg
      BY <1>0, <2>1, <2>4 DEF Shape
    <2>6. ReqGone'
      BY <1>0, <2>1, <2>2, <2>4, Basics DEF ReqGone, Only, Clean
    <2> QED  BY <1>0, <1>1, <2>1, <2>4, <2>5, <2>6 DEF One, Working, Held, Calling
  <1> QED  BY <1>1, <1>2, <1>3 DEF Hand

\* at_ctl frees nearps_ctx.
LEMMA ClearStep ==
  ASSUME Solo, Shape, One, ~ asserted, ClearNearps
  PROVE  Shape' /\ One'
PROOF
  <1> USE DEF channel
  <1>0. /\ pc["at_ctl"] = "reset" /\ pc'["at_ctl"] = "get" /\ pc'["proxy"] = pc["proxy"]
        /\ msg' = msg /\ Shape'
    BY Goes, Basics DEF ClearNearps, Shape
  <1>1. Clean => nearps' = NearpsIdle
    BY DEF ClearNearps, Cleared, Clean
  <1>2. ASSUME NEW S, Only(S)  PROVE Only(S)'
    BY <1>0, <1>2 DEF ClearNearps, Only
  <1>3. CASE Resting
    BY <1>0, <1>1, <1>2, <1>3 DEF One, Resting, Clean, ClearNearps
  <1>4. ASSUME NEW c \in Cmd, owed = {c}, uart.rcv, Arriving(c)  PROVE One'
    BY <1>0, <1>1, <1>2, <1>4 DEF One, Arriving, Clean, ClearNearps
  <1>5. ASSUME NEW c \in Cmd, Held(c), Hand(c)  PROVE One'
    <2>1. CASE call = NoCall /\ pc["proxy"] # "wait" /\ Unlinked(c)
      <3>1. ~ uart.fwd /\ Clean
        BY <2>1 DEF Unlinked
      <3>2. \/ Only({"rx"}) /\ rx.pc = "send" /\ rx.text = c
            \/ Only({"queue"}) /\ at_q = << Far(c, "uart") >>
            \/ Prx(c, {"answer"})
            \/ Only({"passthr"}) /\ passthr.pc \in {"on", "end"} /\ passthr.text = c
            \/ Only({"queue"}) /\ at_q = << Near(c, "uart", "ok") >>
        BY <1>0, <2>1 DEF Unlinked, Ctl
      <3>3. Unlinked(c)'
        BY <1>0, <1>1, <1>2, <3>1, <3>2 DEF Unlinked, Clean, Prx, ClearNearps
      <3> QED  BY <1>0, <1>5, <2>1, <3>3 DEF One, Working, Held, ClearNearps
    <2>2. CASE Calling(c)
      <3>1. /\ pc["proxy"] = "wait" /\ call.reg /\ ~ uart.fwd /\ msg["proxy"] = Far(c, "uart")
            /\ \/ ReqGone
               \/ /\ call.timer /\ call.answers = << >>
                  /\ Only({"proxy", "queue"}) /\ at_q = << Far(Req, "proxy") >> /\ Clean
        BY <1>0, <2>2 DEF Calling, ReqAsked, ReqServed, LinkedWith
      <3>2. (ReqGone \/ ReqAsked)'
        BY <1>0, <1>1, <1>2, <3>1 DEF ReqGone, ReqAsked, Clean, ClearNearps
      <3> QED  BY <1>0, <1>5, <3>1, <3>2 DEF One, Working, Held, Calling, ClearNearps
    <2> QED  BY <1>0, <1>5, <2>1, <2>2 DEF Hand, AtStack, LinkedWith
  <1> QED  BY <1>0, <1>3, <1>4, <1>5, HandIs

\* Steps of xy_proxy.
LEMMA ProxyOnly ==
  ASSUME Solo, Shape, One, ~ asserted, ProxyGet \/ ProxyDrops \/ ProxyExecutes
  PROVE  Shape' /\ One'
PROOF
  <1> USE DEF channel
  <1>0. PICK c \in Cmd : Held(c) /\ Hand(c)
    BY HandIs DEF Resting, Arriving, Only, ProxyGet, ProxyDrops, ProxyExecutes
  <1>1. CASE ProxyGet
    <2>0. /\ pc["proxy"] = "get" /\ proxy_q # << >> /\ pc'["proxy"] = "proc"
          /\ pc'["at_ctl"] = pc["at_ctl"] /\ Shape'
          /\ msg'["proxy"] = Far(Head(proxy_q).text, "uart")
      BY <1>1, Goes, Basics DEF ProxyGet, Shape
    <2>1. PICK k \in [proc : {TRUE}, retrans : Nat] :
            /\ Only({"proxy_q"}) /\ proxy_q = << [text |-> c, copy |-> k] >> /\ pc["at_ctl"] = "get"
            /\ call = NoCall /\ nearps = NearpsIdle /\ ~ uart.fwd
      BY <1>0, <2>0 DEF Hand, Calling, ReqAsked, ReqServed, ReqAtStack, ReqGone, Unlinked, AtStack,
         Only, Ctl, Prx, Clean
    <2>2. Head(proxy_q) = [text |-> c, copy |-> k] /\ proxy_q' = << >>
      BY <1>1, <2>1, Single DEF ProxyGet
    <2>6. Head(proxy_q).text = c /\ Head(proxy_q).copy = k
      BY <2>2
    <2>3. msg'["proxy"] = Far(c, "uart") /\ copy' = k /\ k.proc
      BY <1>1, <2>0, <2>6 DEF ProxyGet
    <2>4. Prx(c, {"proc"})'
      BY <1>1, <2>0, <2>1, <2>2, <2>3 DEF ProxyGet, Prx, Only
    <2>5. Unlinked(c)'
      BY <1>1, <2>0, <2>1, <2>3, <2>4 DEF ProxyGet, Unlinked, Clean
    <2> QED  BY <1>0, <1>1, <2>0, <2>1, <2>5 DEF One, Working, Held, ProxyGet
  <1>2. CASE ProxyDrops
    BY <1>0, <1>2 DEF ProxyDrops, Hand, Calling, Unlinked, AtStack, Only, Ctl, Prx
  <1>3. CASE ProxyExecutes
    <2>0. pc["proxy"] = "proc" /\ copy.proc
      BY <1>3 DEF ProxyExecutes
    <2>1. /\ Only({"proxy"}) /\ msg["proxy"] = Far(c, "uart") /\ pc["at_ctl"] = "get"
          /\ call = NoCall /\ nearps = NearpsIdle /\ ~ uart.fwd
      BY <1>0, <2>0 DEF Hand, Calling, Unlinked, AtStack, Only, Ctl, Prx, Clean
    <2>2. UNCHANGED << channel, nearps, proxy_q, msg, copy, ps, asserted >>
      BY <1>3 DEF ProxyExecutes
    <2>3. ASSUME Go("proxy", "answer") \/ Go("proxy", "check"), UNCHANGED << at_q, call, passthr >>
          PROVE  Shape' /\ One'
      <3>1. pc'["proxy"] \in {"answer", "check"} /\ pc'["at_ctl"] = "get" /\ Shape'
        BY <2>1, <2>2, <2>3, Goes, Basics DEF Shape
      <3>2. Unlinked(c)'
        BY <2>1, <2>2, <2>3, <3>1 DEF Unlinked, Prx, Only, Clean
      <3> QED  BY <1>0, <2>1, <2>2, <2>3, <3>1, <3>2 DEF One, Working, Held
    <2>4. ASSUME passthr' = [pc |-> "on", text |-> c], Go("proxy", "get"), UNCHANGED << at_q, call >>
          PROVE  Shape' /\ One'
      <3>1. pc'["proxy"] = "get" /\ pc'["at_ctl"] = "get" /\ Shape'
        BY <2>1, <2>2, <2>4, Goes, Basics DEF Shape
      <3>2. Only({"passthr"})'
        BY <2>1, <2>2, <2>4, <3>1 DEF Only
      <3>3. Unlinked(c)'
        BY <2>1, <2>2, <2>4, <3>2 DEF Unlinked, Clean
      <3> QED  BY <1>0, <2>1, <2>2, <2>4, <3>1, <3>3 DEF One, Working, Held
    <2>5. ASSUME call' = [NoCall EXCEPT !.reg = TRUE, !.timer = TRUE],
                 at_q' = Append(at_q, Far(Req, "proxy")), Go("proxy", "wait"), UNCHANGED passthr
          PROVE  Shape' /\ One'
      <3>4. call' = [reg |-> TRUE, timer |-> TRUE, retrans |-> 0, answers |-> << >>]
        BY <2>5 DEF NoCall
      <3>6. /\ call'.reg /\ call'.timer /\ call'.answers = << >>
            /\ call' = [reg |-> call'.reg, timer |-> call'.timer, retrans |-> call'.retrans,
                        answers |-> call'.answers]
        BY <3>4
      <3>5. pc'["proxy"] = "wait" /\ pc'["at_ctl"] = "get" /\ DOMAIN pc' = Task
        BY <2>1, <2>5, Goes, Basics
      <3>1. /\ pc'["proxy"] = "wait" /\ pc'["at_ctl"] = "get" /\ Shape'
            /\ call'.reg /\ call'.timer /\ call'.answers = << >>
        BY <2>2, <2>5, <3>5, <3>6 DEF Shape
      <3>2. at_q' = << Far(Req, "proxy") >>
        BY <2>1, <2>5, Single DEF Only
      <3>3. ReqAsked'
        BY <2>1, <2>2, <2>5, <3>1, <3>2 DEF ReqAsked, Only, Clean
      <3> QED  BY <1>0, <2>1, <2>2, <3>1, <3>3 DEF One, Working, Held, Calling
    <2>6. \/ (Go("proxy", "answer") \/ Go("proxy", "check")) /\ UNCHANGED << at_q, call, passthr >>
          \/ passthr' = [pc |-> "on", text |-> msg["proxy"].text] /\ Go("proxy", "get") /\ UNCHANGED << at_q, call >>
          \/ /\ call' = [NoCall EXCEPT !.reg = TRUE, !.timer = TRUE]
             /\ at_q' = Append(at_q, Far(Req, "proxy")) /\ Go("proxy", "wait") /\ UNCHANGED passthr
      BY <1>3, Zenon DEF ProxyExecutes
    <2>7. msg["proxy"].text = c
      BY <2>1, Basics
    <2> QED  BY <2>3, <2>4, <2>5, <2>6, <2>7
  <1> QED  BY <1>1, <1>2, <1>3

\* The call of xy_proxy comes back, and xy_proxy answers.
LEMMA ProxyEnds ==
  ASSUME Solo, Shape, One, ~ asserted, CallReturns \/ ProxyAnswers
  PROVE  Shape' /\ One'
PROOF
  <1> USE DEF channel
  <1>0. PICK c \in Cmd : Held(c) /\ Hand(c)
    BY HandIs DEF Resting, Arriving, Only, CallReturns, ProxyAnswers
  <1>1. CASE CallReturns
    <2>0. /\ pc["proxy"] = "wait" /\ call.answers # << >> /\ call' = NoCall
          /\ pc'["proxy"] = "answer" /\ pc'["at_ctl"] = pc["at_ctl"] /\ Shape'
      BY <1>1, Goes, Basics DEF CallReturns, Shape, NoCall
    <2>1. ~ uart.fwd /\ msg["proxy"] = Far(c, "uart")
      BY <1>0, <2>0 DEF Hand, Calling
    <2>2. CASE ReqGone
      <3>1. Unlinked(c)'
        BY <1>1, <2>0, <2>1, <2>2 DEF CallReturns, ReqGone, Unlinked, Prx, Only, Clean
      <3> QED  BY <1>0, <1>1, <2>0, <3>1 DEF CallReturns, One, Working, Held
    <2>3. CASE ReqServed
      <3>1. ReqAtStack /\ call.answers = << "timeout" >>
        BY <2>0, <2>3 DEF ReqServed
      <3>2. asserted'
        BY <1>1, <3>1, Single DEF CallReturns
      <3>3. ReqAtStack'
        BY <1>1, <2>0, <3>1 DEF CallReturns, ReqAtStack, Only
      <3> QED  BY <1>0, <1>1, <2>0, <2>1, <3>2, <3>3 DEF CallReturns, One, Working, Held, Calling
    <2> QED  BY <1>0, <2>0, <2>2, <2>3 DEF Hand, Calling, ReqAsked
  <1>2. CASE ProxyAnswers
    <2>0. /\ pc["proxy"] = "answer" /\ pc'["proxy"] = "get" /\ pc'["at_ctl"] = pc["at_ctl"]
          /\ DOMAIN pc' = Task /\ msg' = msg
      BY <1>2, Goes, Basics DEF ProxyAnswers
    <2>1. /\ call = NoCall /\ Only({"proxy"}) /\ msg["proxy"] = Far(c, "uart") /\ Clean
      BY <1>0, <2>0 DEF Hand, Calling, Unlinked, AtStack, Only, Ctl, Prx
    <2>2. AnswerUart(c) /\ UNCHANGED << rx, nearps, at_q, proxy_q, msg, call, ps, passthr >>
      BY <1>2, <2>1, Basics DEF ProxyAnswers, AnswerUart
    <2>3. Shape' /\ owed' = {} /\ ~ uart'.rcv /\ ~ uart'.processing /\ ~ uart'.fwd
      BY <1>0, <2>0, <2>2, AnswerRests DEF Held
    <2>4. Only({})' /\ Clean'
      BY <2>0, <2>1, <2>2 DEF Only, Clean
    <2> QED  BY <2>1, <2>2, <2>3, <2>4 DEF One, Resting
  <1> QED  BY <1>1, <1>2

\* The 30 s of a request end.
LEMMA TimeoutStep ==
  ASSUME Solo, Shape, One, ~ asserted, wait_nearps_rsp_timeout_proc
  PROVE  Shape' /\ One'
PROOF
  <1> USE DEF channel
  <1>0. /\ call.timer /\ ~ ReqAtCtl /\ Shape' /\ call'.reg = call.reg /\ ~ call'.timer
        /\ call'.answers = Append(call.answers, "timeout")
    BY DEF wait_nearps_rsp_timeout_proc, Shape
  <1>1. PICK c \in Cmd : Held(c) /\ Calling(c) /\ pc["proxy"] = "wait"
    BY <1>0, HandIs DEF Resting, Arriving, Hand, Calling, NoCall
  <1>2. ~ ReqAsked
    <2>1. ASSUME at_q = << Far(Req, "proxy") >>  PROVE FALSE
      <3>1. 1 \in DOMAIN at_q /\ at_q[1] = Far(Req, "proxy")
        BY <2>1
      <3> QED  BY <1>0, <3>1 DEF ReqAtCtl, Queue
    <2> QED  BY <1>0, <2>1 DEF ReqAsked, ReqAtCtl
  <1>3. CASE ReqGone
    <2>1. Clean'
      BY <1>3 DEF wait_nearps_rsp_timeout_proc, ReqGone, Clean
    <2>2. ReqGone'
      BY <1>3, <2>1 DEF wait_nearps_rsp_timeout_proc, ReqGone, Only
    <2> QED  BY <1>0, <1>1, <2>2 DEF wait_nearps_rsp_timeout_proc, One, Working, Held, Calling
  <1>4. CASE ReqServed
    <2>1. ReqAtStack /\ LinkedWith("proxy") /\ call.answers = << >>
      BY <1>0, <1>4 DEF ReqServed
    <2>2. nearps' = NearpsIdle /\ call'.answers = << "timeout" >>
      BY <1>0, <2>1, Single DEF wait_nearps_rsp_timeout_proc, LinkedWith
    <2>3. ReqServed'
      BY <1>0, <2>1, <2>2 DEF wait_nearps_rsp_timeout_proc, ReqServed, ReqAtStack, Only, LinkedWith
    <2> QED  BY <1>0, <1>1, <2>3 DEF wait_nearps_rsp_timeout_proc, One, Working, Held, Calling
  <1> QED  BY <1>1, <1>2, <1>3, <1>4 DEF Calling

\* The stack answers, pass-through mode ends.
LEMMA OutsideStep ==
  ASSUME Solo, Shape, One, ~ asserted, PsAnswers \/ PassthrEnds \/ PassthrAnswers
  PROVE  Shape' /\ One'
PROOF
  <1> USE DEF channel
  <1>0. PICK c \in Cmd : Held(c) /\ Hand(c)
    BY HandIs DEF Resting, Arriving, Only, PsAnswers, PassthrEnds, PassthrAnswers
  <1>1. CASE PsAnswers
    <2>0. ps # << >> /\ ps' = Tail(ps) /\ at_q' = Append(at_q, Near(Head(ps), "dsp", "ok")) /\ Shape'
      BY <1>1 DEF PsAnswers, Shape
    <2>1. CASE call = NoCall /\ pc["proxy"] # "wait" /\ (Unlinked(c) \/ AtStack(c))
      <3>1. Only({"ps"}) /\ ps = << c >> /\ LinkedWith("uart")
        BY <2>0, <2>1 DEF Unlinked, AtStack, Only, Ctl, Prx
      <3>2. at_q' = << Near(c, "dsp", "ok") >> /\ ps' = << >>
        BY <2>0, <3>1, Single DEF Only
      <3>3. AtStack(c)'
        BY <1>1, <3>1, <3>2 DEF PsAnswers, AtStack, Only, LinkedWith, Results
      <3> QED  BY <1>0, <1>1, <2>0, <2>1, <3>3 DEF One, Working, Held, PsAnswers
    <2>2. CASE Calling(c)
      <3>1. /\ pc["proxy"] = "wait" /\ call.reg /\ ~ uart.fwd /\ msg["proxy"] = Far(c, "uart")
            /\ ReqServed /\ Only({"proxy", "ps"}) /\ ps = << Req >>
        BY <2>0, <2>2 DEF Calling, ReqAsked, ReqServed, ReqAtStack, ReqGone, Only
      <3>2. at_q' = << Near(Req, "dsp", "ok") >> /\ ps' = << >>
        BY <2>0, <3>1, Single DEF Only
      <3>3. ReqAtStack'
        BY <1>1, <3>1, <3>2 DEF PsAnswers, ReqAtStack, Only, Results
      <3>4. ReqServed'
        BY <1>1, <3>1, <3>3 DEF PsAnswers, ReqServed, LinkedWith
      <3> QED  BY <1>0, <1>1, <2>0, <3>1, <3>4 DEF One, Working, Held, Calling, PsAnswers
    <2> QED  BY <1>0, <2>1, <2>2 DEF Hand
  <1>2. CASE PassthrEnds \/ PassthrAnswers
    <2>0. passthr.pc # "off" /\ Shape' /\ UNCHANGED << channel, nearps, proxy_q, pc, msg, copy, call, ps >>
      BY <1>2 DEF PassthrEnds, PassthrAnswers, Shape
    <2>1. /\ call = NoCall /\ pc["proxy"] = "get" /\ Only({"passthr"}) /\ passthr.text = c
          /\ ~ uart.fwd /\ Clean
      BY <1>0, <2>0 DEF Hand, Calling, ReqAsked, ReqServed, ReqAtStack, ReqGone, Unlinked, AtStack,
         Only, Ctl, Prx
    <2>2. CASE PassthrEnds
      <3>1. passthr'.pc = "end" /\ passthr'.text = c
        BY <2>1, <2>2 DEF PassthrEnds, Shape
      <3>2. Unlinked(c)'
        BY <2>0, <2>1, <2>2, <3>1 DEF PassthrEnds, Unlinked, Only, Clean
      <3> QED  BY <1>0, <2>0, <2>1, <3>2 DEF One, Working, Held
    <2>3. CASE PassthrAnswers
      <3>1. passthr'.pc = "off" /\ at_q' = << Near(c, "uart", "ok") >>
        BY <2>1, <2>3, Single DEF PassthrAnswers, Shape, Only
      <3>2. Unlinked(c)'
        BY <2>0, <2>1, <3>1 DEF Unlinked, Only, Clean
      <3> QED  BY <1>0, <2>0, <2>1, <3>2 DEF One, Working, Held
    <2> QED  BY <1>2, <2>2, <2>3
  <1> QED  BY <1>1, <1>2

-----------------------------------------------------------------------------
(* The invariant                                                              *)

\* It holds at first.
LEMMA InitInv == Init => Inv
PROOF
  <1> SUFFICES ASSUME Init  PROVE Shape /\ Resting
    BY DEF Inv, One
  <1>1. Shape
    BY DEF Init, Shape, NoCall
  <1>2. Resting
    BY Basics DEF Init, Resting, Only, Clean
  <1> QED  BY <1>1, <1>2

\* A stuttering step.
LEMMA StutterInv == Inv /\ UNCHANGED vars => Inv'
PROOF
  <1> SUFFICES ASSUME UNCHANGED vars, Solo, Shape, One  PROVE Shape' /\ One'
    BY DEF vars, channel, Inv, Solo
  <1>1. UNCHANGED << owed, uart, rx, nearps, at_q, proxy_q, pc, msg, copy, call, ps, passthr, asserted >>
    BY DEF vars, channel
  <1>2. Shape' /\ (Clean => Clean') /\ \A S : Only(S) => Only(S)'
    BY <1>1 DEF Shape, Clean, Only
  <1>3. \A who : LinkedWith(who) => LinkedWith(who)'
    BY <1>1 DEF LinkedWith
  <1>4. CASE Resting
    BY <1>1, <1>2, <1>4 DEF One, Resting
  <1>5. ASSUME NEW c \in Cmd, owed = {c}, uart.rcv, Arriving(c)  PROVE One'
    BY <1>1, <1>2, <1>5 DEF One, Arriving
  <1>6. ASSUME NEW c \in Cmd, Held(c), Hand(c)  PROVE One'
    <2>1. Unlinked(c) => Unlinked(c)'
      BY <1>1, <1>2 DEF Unlinked, Ctl, Prx
    <2>2. AtStack(c) => AtStack(c)'
      BY <1>1, <1>2, <1>3 DEF AtStack, Ctl, Prx
    <2>3. ReqAsked => ReqAsked'
      BY <1>1, <1>2, <1>3 DEF ReqAsked
    <2>4. ReqAtStack => ReqAtStack'
      BY <1>1, <1>2 DEF ReqAtStack
    <2>5. ReqServed => ReqServed'
      BY <1>1, <1>3, <2>4 DEF ReqServed
    <2>6. ReqGone => ReqGone'
      BY <1>2 DEF ReqGone
    <2>7. Calling(c) => Calling(c)'
      BY <1>1, <2>3, <2>4, <2>5, <2>6 DEF Calling
    <2> QED  BY <1>1, <1>6, <2>1, <2>2, <2>7 DEF One, Working, Held, Hand
  <1> QED  BY <1>2, <1>4, <1>5, <1>6, HandIs

\* Every step keeps it.
LEMMA StepInv == Inv /\ [Next]_vars => Inv'
PROOF
  <1> SUFFICES ASSUME Inv, Next, Solo'  PROVE Shape' /\ One'
    BY StutterInv DEF Inv
  <1>1. menu' = menu
    BY DEF Next, Step, RxStep, AtCtlStep, ProxyStep, Forward, channel, AcceptCmd, MarkProcessing,
       SendToCtl, AtGet, ProcFromFarps, AnswerUart, CopyToProxy, CheckFree, WaitBeforeRetry,
       Retransmit, GiveUp, MarkSend, WriteToPs, ProcFromNearps, Deliver, ClearNearps, ProxyGet,
       ProxyDrops, ProxyExecutes, CallReturns, ProxyAnswers, wait_nearps_rsp_timeout_proc,
       PsAnswers, PassthrEnds, PassthrAnswers
  <1>2. Solo /\ Shape /\ One /\ ~ asserted
    BY <1>1 DEF Solo, Inv, Next
  <1>3. CASE (\E d \in Cmd : AcceptCmd(d)) \/ RxStep
    BY <1>2, <1>3, UartStep
  <1>4. CASE AtCtlStep
    BY <1>2, <1>4, GetStep, FarpsStep, CtlForwards, LooksUp, DeliverStep, ClearStep DEF AtCtlStep
  <1>5. CASE ProxyStep
    BY <1>2, <1>5, ProxyOnly, ProxyForwards, ProxyEnds DEF ProxyStep
  <1>6. CASE wait_nearps_rsp_timeout_proc
    BY <1>2, <1>6, TimeoutStep
  <1>7. CASE PsAnswers \/ PassthrEnds \/ PassthrAnswers
    BY <1>2, <1>7, OutsideStep
  <1> QED  BY <1>3, <1>4, <1>5, <1>6, <1>7 DEF Next, Step

\* So it always holds.
LEMMA Invariant == Spec => []Inv
PROOF
  <1> QED  BY InitInv, StepInv, PTL DEF Spec

\* Who has something for the stack.
LEMMA OneBusy ==
  ASSUME One
  PROVE  /\ ps = << >> \/ \E x : ps = << x >>
         /\ at_q = << >> \/ \E x : at_q = << x >>
         /\ ps # << >> => at_q = << >>
         /\ ps # << >> \/ at_q # << >> =>
              /\ \A t \in Task : pc[t] \notin {"mark", "write"}
              /\ pc["at_ctl"] \notin {"near", "deliver"}
         /\ pc["at_ctl"] \in {"mark", "write", "near", "deliver"} => pc["proxy"] \notin {"mark", "write"}
PROOF
  <1>1. CASE Resting
    BY <1>1 DEF Resting, Only, Task
  <1>2. ASSUME NEW c \in Cmd, Arriving(c)  PROVE Only({"rx"})
    BY <1>2 DEF Arriving
  <1>3. ASSUME NEW c \in Cmd, Unlinked(c)
        PROVE  \/ \E s \in {"rx", "proxy_q", "passthr", "at_ctl", "proxy"} : Only({s})
               \/ Only({"queue"}) /\ \E x : at_q = << x >>
    BY <1>3 DEF Unlinked, Ctl, Prx
  <1>4. ASSUME NEW c \in Cmd, AtStack(c)
        PROVE  \/ Only({"at_ctl"}) \/ Only({"proxy"})
               \/ Only({"ps"}) /\ \E x : ps = << x >>
               \/ Only({"queue"}) /\ \E x : at_q = << x >>
    BY <1>4 DEF AtStack, Ctl, Prx
  <1>5. ASSUME NEW c \in Cmd, Calling(c)
        PROVE  /\ pc["proxy"] \in {"wait", "answer"}
               /\ \/ Only({"proxy"}) \/ Only({"proxy", "at_ctl"})
                  \/ Only({"proxy", "ps"}) /\ \E x : ps = << x >>
                  \/ Only({"proxy", "queue"}) /\ \E x : at_q = << x >>
    BY <1>5 DEF Calling, ReqAsked, ReqServed, ReqAtStack, ReqGone
  <1>6. ASSUME \/ \E s \in {"rx", "proxy_q", "passthr", "at_ctl", "proxy"} : Only({s})
               \/ Only({"ps"}) /\ \E x : ps = << x >>
               \/ Only({"queue"}) /\ \E x : at_q = << x >>
               \/ /\ pc["proxy"] \in {"wait", "answer"}
                  /\ \/ Only({"proxy"}) \/ Only({"proxy", "at_ctl"})
                     \/ Only({"proxy", "ps"}) /\ \E x : ps = << x >>
                     \/ Only({"proxy", "queue"}) /\ \E x : at_q = << x >>
        PROVE  /\ ps = << >> \/ \E x : ps = << x >>
               /\ at_q = << >> \/ \E x : at_q = << x >>
               /\ ps # << >> => at_q = << >>
               /\ ps # << >> \/ at_q # << >> =>
                    /\ \A t \in Task : pc[t] \notin {"mark", "write"}
                    /\ pc["at_ctl"] \notin {"near", "deliver"}
               /\ pc["at_ctl"] \in {"mark", "write", "near", "deliver"} => pc["proxy"] \notin {"mark", "write"}
    BY <1>6 DEF Only, Task
  <1> QED  BY <1>1, <1>2, <1>3, <1>4, <1>5, <1>6 DEF One, Working

-----------------------------------------------------------------------------
(* What follows for the MCU and for the stack                                 *)

\* RCV_REQ_NOW and process_state, and where commands are.
LEMMA OneShows ==
  ASSUME Shape, One
  PROVE  BusyMeansOwed /\ NoneLost /\ (rx.pc = "idle" => uart.processing = (owed # {}))
PROOF
  <1>1. CASE Resting
    BY <1>1 DEF Shape, Resting, BusyMeansOwed, NoneLost
  <1>2. ASSUME NEW c \in Cmd, owed = {c}, uart.rcv, Arriving(c)
        PROVE  BusyMeansOwed /\ NoneLost /\ rx.pc # "idle"
    BY <1>2 DEF Arriving, BusyMeansOwed, NoneLost, OnItsWay
  <1>3. ASSUME NEW c \in Cmd, Held(c), Hand(c)
        PROVE  BusyMeansOwed /\ NoneLost /\ uart.processing = (owed # {})
    <2>1. c \in OnItsWay
      <3>1. ASSUME NEW t \in Task, pc[t] \notin {"get", "reset"}, msg[t].text = c  PROVE c \in OnItsWay
        BY <3>1 DEF OnItsWay
      <3>2. ASSUME NEW m, at_q = << m >>, m.text = c  PROVE c \in OnItsWay
        <4>1. m \in Queue(at_q)
          BY <3>2 DEF Queue
        <4> QED  BY <3>2, <4>1 DEF OnItsWay
      <3>3. ASSUME NEW m, proxy_q = << m >>, m.text = c  PROVE c \in OnItsWay
        <4>1. m \in Queue(proxy_q)
          BY <3>3 DEF Queue
        <4> QED  BY <3>3, <4>1 DEF OnItsWay
      <3>4. ASSUME ps = << c >>  PROVE c \in OnItsWay
        BY <3>4 DEF OnItsWay, Queue
      <3>5. ASSUME rx.pc = "send", rx.text = c  PROVE c \in OnItsWay
        BY <3>5 DEF OnItsWay
      <3>6. ASSUME passthr.pc \in {"on", "end"}, passthr.text = c  PROVE c \in OnItsWay
        BY <3>6 DEF OnItsWay
      <3>7. ASSUME NEW m, NEW S \in SUBSET {"farps", "check", "mark", "copy", "near", "deliver", "write"},
                   Ctl(m, S), m.text = c
            PROVE  c \in OnItsWay
        BY <3>1, <3>7, Basics DEF Ctl
      <3>8. ASSUME NEW S \in SUBSET {"proc", "check", "mark", "answer", "write"}, Prx(c, S)
            PROVE  c \in OnItsWay
        BY <3>1, <3>8, Basics DEF Prx
      <3>12. ASSUME NEW k, proxy_q = << [text |-> c, copy |-> k] >>  PROVE c \in OnItsWay
        <4>1. PICK m : m = [text |-> c, copy |-> k]
          OBVIOUS
        <4> QED  BY <3>3, <3>12, <4>1
      <3>13. ASSUME NEW S \in SUBSET {"farps", "check", "mark", "copy", "near", "deliver", "write"},
                    Ctl(Far(c, "uart"), S) \/ Ctl(Near(c, "uart", "ok"), S)
             PROVE  c \in OnItsWay
        BY <3>7, <3>13, Basics
      <3>14. ASSUME at_q = << Far(c, "uart") >> \/ at_q = << Near(c, "uart", "ok") >>  PROVE c \in OnItsWay
        BY <3>2, <3>14, Basics
      <3>9. CASE Unlinked(c)
        BY <3>5, <3>6, <3>8, <3>9, <3>12, <3>13, <3>14 DEF Unlinked
      <3>10. CASE AtStack(c)
        BY <3>2, <3>4, <3>7, <3>8, <3>10, Basics DEF AtStack
      <3>11. CASE Calling(c)
        BY <3>1, <3>11, Basics DEF Calling
      <3> QED  BY <1>3, <3>9, <3>10, <3>11 DEF Hand
    <2> QED  BY <1>3, <2>1 DEF Shape, Held, BusyMeansOwed, NoneLost
  <1> QED  BY <1>1, <1>2, <1>3, HandIs

\* At most one command is at the stack, on its way there or back.
LEMMA OneAt ==
  ASSUME One
  PROVE  OneAtPs
PROOF
  <1>1. ASSUME ps # << >>  PROVE AtPs \subseteq {<< "ps", 1 >>}
    BY <1>1, OneBusy, Basics DEF AtPs
  <1>2. ASSUME at_q # << >>  PROVE AtPs \subseteq {<< "q", 1 >>}
    BY <1>2, OneBusy, Basics DEF AtPs
  <1>3. ASSUME ps = << >>, at_q = << >>, pc["at_ctl"] \in {"near", "deliver"}
        PROVE  AtPs \subseteq {<< "near", 1 >>}
    BY <1>3, OneBusy DEF AtPs, Task
  <1>4. ASSUME ps = << >>, at_q = << >>, pc["at_ctl"] \in {"mark", "write"}
        PROVE  AtPs \subseteq {<< "task", "at_ctl" >>}
    BY <1>4, OneBusy DEF AtPs, Task
  <1>5. ASSUME ps = << >>, at_q = << >>, pc["at_ctl"] \notin {"mark", "write", "near", "deliver"}
        PROVE  AtPs \subseteq {<< "task", "proxy" >>}
    BY <1>5, OneBusy DEF AtPs, Task
  <1> QED  BY <1>1, <1>2, <1>3, <1>4, <1>5 DEF OneAtPs

\* Whom at_ctl passes a result on to.
LEMMA PassesOn ==
  ASSUME One, ~ asserted, Deliver
  PROVE  FwdCtx(msg["at_ctl"]) \in {Origin(msg["at_ctl"]), "none"}
PROOF
  <1>0. pc["at_ctl"] = "deliver"
    BY DEF Deliver
  <1>1. PICK c \in Cmd : Held(c) /\ Hand(c)
    BY <1>0, HandIs DEF Resting, Arriving, Only
  <1>2. CASE Unlinked(c)
    <2>1. Ctl(Near(c, "uart", "ok"), {"deliver"}) /\ ~ uart.fwd
      BY <1>0, <1>2 DEF Unlinked, Only, Ctl, Prx
    <2> QED  BY <2>1, Basics DEF Ctl, FwdCtx, Origin
  <1>3. CASE AtStack(c)
    <2>1. PICK r \in Results : Ctl(Near(c, "dsp", r), {"deliver"}) /\ LinkedWith("uart")
      BY <1>0, <1>3 DEF AtStack, Only, Ctl, Prx
    <2> QED  BY <2>1, Basics DEF Ctl, FwdCtx, Origin, LinkedWith
  <1>4. CASE Calling(c)
    <2>1. ReqServed /\ \E r \in Results : msg["at_ctl"] = Near(Req, "dsp", r)
      BY <1>0, <1>4 DEF Calling, ReqAsked, ReqServed, ReqAtStack, ReqGone, Only
    <2> QED  BY <2>1, Basics DEF ReqServed, FwdCtx, Origin, LinkedWith, NearpsIdle
  <1> QED  BY <1>1, <1>2, <1>3, <1>4 DEF Hand

-----------------------------------------------------------------------------
(* Theorems                                                                   *)

\* The comment of process_state in at_context.h, for every MCU that sends no
\* critical command: deep sleep is forbidden exactly while a command is owed.
THEOREM NoSleepWhileOwed == Spec => []SleepOnlyWhenDone
PROOF
  <1>1. Inv => SleepOnlyWhenDone
    BY OneShows DEF Inv, Solo, SleepOnlyWhenDone
  <1> QED  BY <1>1, Invariant, PTL

\* Without critical commands "busy" is not left behind: RCV_REQ_NOW is set only
\* while an answer is owed that will clear it (at_farps_fd_write).
THEOREM BusyIsOwed == Critical = {} => (Spec => []BusyMeansOwed)
PROOF
  <1> SUFFICES ASSUME Critical = {}  PROVE Spec => []BusyMeansOwed
    OBVIOUS
  <1>1. Inv => BusyMeansOwed
    BY OneShows DEF Inv, Solo
  <1> QED  BY <1>1, Invariant, PTL

\* Without critical commands the stack has one command at a time, although two
\* threads test and set SEND_REQ_NOW (forward_req_at_proc, step 2).
THEOREM OneAtStack == Critical = {} => (Spec => []OneAtPs)
PROOF
  <1> SUFFICES ASSUME Critical = {}  PROVE Spec => []OneAtPs
    OBVIOUS
  <1>1. Inv => OneAtPs
    BY OneAt DEF Inv, Solo
  <1> QED  BY <1>1, Invariant, PTL

\* Without critical commands no accepted command is lost between the queues and
\* threads it passes through (single_atcmd_proc to at_farps_fd_write).
THEOREM NothingLost == Critical = {} => (Spec => []NoneLost)
PROOF
  <1> SUFFICES ASSUME Critical = {}  PROVE Spec => []NoneLost
    OBVIOUS
  <1>1. Inv => NoneLost
    BY OneShows DEF Inv, Solo
  <1> QED  BY <1>1, Invariant, PTL

\* Without critical commands no result reaches another context than the one its
\* command came from, however late it comes (proc_from_nearps).
THEOREM ResultsReturn == Critical = {} => (Spec => RightContext)
PROOF
  <1> SUFFICES ASSUME Critical = {}  PROVE Spec => RightContext
    OBVIOUS
  <1>1. Inv /\ [Next]_vars => [Deliver => FwdCtx(msg["at_ctl"]) \in {Origin(msg["at_ctl"]), "none"}]_vars
    BY PassesOn DEF Inv, Solo, Next
  <1> QED  BY <1>1, Invariant, PTL DEF Spec, RightContext

-----------------------------------------------------------------------------
(* Types, whatever the MCU sends                                              *)

\* Requests name a context that may ask and no junk, results say something.
GoodFar(m) == m \in Msg /\ m.src = "far" /\ m.text # Junk /\ m.ctx # "dsp"
GoodNear(m) == m \in Msg /\ m.src = "near" /\ m.res # "none"
GoodMsg == {m \in Msg : GoodFar(m) \/ GoodNear(m)}

\* What each thread has in hand, and that a count goes up only below its bound.
Count == IF msg["at_ctl"].ctx = "uart" THEN uart.retrans ELSE call.retrans
InHand ==
  /\ rx.pc # "idle" => rx.text \in Cmd
  /\ at_q \in Seq(GoodMsg)
  /\ pc["at_ctl"] \in {"farps", "copy", "check", "delay", "mark", "write"} => GoodFar(msg["at_ctl"])
  /\ pc["at_ctl"] = "copy" => msg["at_ctl"].text \in Cmd
  /\ pc["at_ctl"] \in {"near", "deliver"} => GoodNear(msg["at_ctl"])
  /\ pc["proxy"] \notin {"farps", "copy", "near", "deliver", "reset"}
  /\ pc["proxy"] # "get" => GoodFar(msg["proxy"]) /\ msg["proxy"].ctx = "uart"
  /\ pc["at_ctl"] = "delay" => Count < RETRANS_MAX_NUM

\* TypeOK with names for its records.
Uarts == [rcv : BOOLEAN, processing : BOOLEAN, fwd : BOOLEAN, proc : BOOLEAN,
          retrans : 0 .. RETRANS_MAX_NUM]
Calls == [reg : BOOLEAN, timer : BOOLEAN, retrans : 0 .. RETRANS_MAX_NUM,
          answers : Seq({"ok", "dsp_off", "timeout"})]
Links == [send : BOOLEAN, fwd : {"none", "uart", "proxy"}]
Passes == [pc : {"off", "on", "end"}, text : Text]
Pcs == {"get", "farps", "copy", "proc", "check", "delay", "mark", "write",
        "near", "deliver", "reset", "wait", "answer"}
Typed ==
  /\ menu \in Menus /\ owed \subseteq menu /\ uart \in Uarts /\ nearps \in Links
  /\ rx \in [pc : {"idle", "mark", "send"}, text : Text]
  /\ at_q \in Seq(Msg) /\ proxy_q \in Seq([text : Cmd, copy : Copy]) /\ ps \in Seq(Text)
  /\ pc \in [Task -> Pcs] /\ msg \in [Task -> Msg] /\ copy \in Copy /\ call \in Calls
  /\ passthr \in Passes /\ asserted \in BOOLEAN
TInv == Typed /\ InHand

\* The types of what is sent.
LEMMA Sent ==
  /\ \A c \in Text, ctx \in {"uart", "proxy"} : c # Junk => Far(c, ctx) \in GoodMsg /\ GoodFar(Far(c, ctx))
  /\ \A c \in Text, ctx \in {"uart", "dsp"}, r \in {"ok", "dsp_off"} : Near(c, ctx, r) \in GoodMsg
  /\ \A c : Far(c, "uart").ctx = "uart"
  BY DEF Far, Near, Msg, GoodMsg, GoodFar, GoodNear

\* Queues.
LEMMA Queues ==
  ASSUME NEW S, NEW q \in Seq(S)
  PROVE  /\ \A m \in S : Append(q, m) \in Seq(S)
         /\ q # << >> => Head(q) \in S /\ Tail(q) \in Seq(S)
  OBVIOUS

\* The types of what goes on.
LEMMA GoesTyped ==
  ASSUME pc \in [Task -> Pcs], NEW t \in Task, NEW next \in Pcs, Go(t, next)
  PROVE  /\ pc' \in [Task -> Pcs] /\ pc'[t] = next
         /\ \A u \in Task : u # t => pc'[u] = pc[u]
  BY DEF Go

\* What the steps do to the contexts.
LEMMA UartTypes ==
  ASSUME NEW u \in Uarts
  PROVE  /\ \A b \in BOOLEAN :
              /\ [u EXCEPT !.rcv = b] \in Uarts /\ [u EXCEPT !.processing = b] \in Uarts
              /\ [u EXCEPT !.fwd = b] \in Uarts /\ [u EXCEPT !.proc = b] \in Uarts
              /\ [u EXCEPT !.rcv = b].retrans = u.retrans
              /\ [u EXCEPT !.processing = b].retrans = u.retrans
              /\ [u EXCEPT !.fwd = b].retrans = u.retrans /\ [u EXCEPT !.proc = b].retrans = u.retrans
         /\ reset_ctx(u) \in Uarts /\ Answered(u) \in Uarts
         /\ reset_ctx(u).retrans = 0 /\ Answered(u).retrans = 0
         /\ u.retrans < RETRANS_MAX_NUM => [u EXCEPT !.retrans = @ + 1] \in Uarts
         /\ u.retrans \in 0 .. RETRANS_MAX_NUM /\ u.proc \in BOOLEAN
PROOF
  <1>1. \A n \in 0 .. RETRANS_MAX_NUM : [u EXCEPT !.retrans = n] \in Uarts
    BY DEF Uarts
  <1>2. u.retrans \in 0 .. RETRANS_MAX_NUM
    BY DEF Uarts
  <1>3. u.retrans < RETRANS_MAX_NUM => u.retrans + 1 \in 0 .. RETRANS_MAX_NUM
    BY <1>2, BoundAssumption
  <1>4. 0 \in 0 .. RETRANS_MAX_NUM
    BY BoundAssumption
  <1>5. reset_ctx(u) \in Uarts /\ Answered(u) \in Uarts /\ reset_ctx(u).retrans = 0 /\ Answered(u).retrans = 0
    BY <1>4 DEF reset_ctx, Answered, Uarts
  <1> QED  BY <1>1, <1>2, <1>3, <1>5 DEF Uarts

\* What the steps do to the request of xy_proxy.
LEMMA CallTypes ==
  ASSUME NEW k \in Calls
  PROVE  /\ \A a \in {"ok", "dsp_off", "timeout"} :
              /\ [k EXCEPT !.answers = Append(@, a)] \in Calls
              /\ [k EXCEPT !.answers = Append(@, a)].retrans = k.retrans
              /\ [k EXCEPT !.timer = FALSE, !.answers = Append(@, a)] \in Calls
              /\ [k EXCEPT !.timer = FALSE, !.answers = Append(@, a)].retrans = k.retrans
         /\ k.retrans < RETRANS_MAX_NUM => [k EXCEPT !.retrans = @ + 1] \in Calls
         /\ [k EXCEPT !.retrans = 0] \in Calls /\ [k EXCEPT !.retrans = 0].retrans = 0
         /\ [NoCall EXCEPT !.reg = TRUE, !.timer = TRUE] \in Calls
         /\ [NoCall EXCEPT !.reg = TRUE, !.timer = TRUE].retrans = 0
         /\ NoCall \in Calls /\ NoCall.retrans = 0 /\ k.retrans \in 0 .. RETRANS_MAX_NUM
PROOF
  <1>1. k.retrans \in 0 .. RETRANS_MAX_NUM /\ k.answers \in Seq({"ok", "dsp_off", "timeout"})
    BY DEF Calls
  <1>2. \A a \in {"ok", "dsp_off", "timeout"} : Append(k.answers, a) \in Seq({"ok", "dsp_off", "timeout"})
    BY <1>1, Queues
  <1>3. \A s \in Seq({"ok", "dsp_off", "timeout"}) :
          /\ [k EXCEPT !.answers = s] \in Calls /\ [k EXCEPT !.answers = s].retrans = k.retrans
          /\ [k EXCEPT !.timer = FALSE, !.answers = s] \in Calls
          /\ [k EXCEPT !.timer = FALSE, !.answers = s].retrans = k.retrans
    BY DEF Calls
  <1>4. \A n \in 0 .. RETRANS_MAX_NUM : [k EXCEPT !.retrans = n] \in Calls /\ [k EXCEPT !.retrans = n].retrans = n
    BY DEF Calls
  <1>5. k.retrans < RETRANS_MAX_NUM => k.retrans + 1 \in 0 .. RETRANS_MAX_NUM
    BY <1>1, BoundAssumption
  <1>6. 0 \in 0 .. RETRANS_MAX_NUM /\ << >> \in Seq({"ok", "dsp_off", "timeout"})
    BY BoundAssumption
  <1>7. NoCall \in Calls /\ NoCall.retrans = 0
    BY <1>6 DEF NoCall, Calls
  <1>8. /\ [NoCall EXCEPT !.reg = TRUE, !.timer = TRUE] \in Calls
        /\ [NoCall EXCEPT !.reg = TRUE, !.timer = TRUE].retrans = 0
    BY <1>7 DEF Calls
  <1> QED  BY <1>1, <1>2, <1>3, <1>4, <1>5, <1>6, <1>7, <1>8

\* A command that waits is put back below the bound, also when its count is reset.
LEMMA CountKeeps ==
  ASSUME TInv,
         pc'["at_ctl"] = "delay" =>
           /\ pc["at_ctl"] = "delay" /\ msg'["at_ctl"] = msg["at_ctl"]
           /\ uart'.retrans = uart.retrans \/ uart'.retrans = 0
           /\ call'.retrans = call.retrans \/ call'.retrans = 0
  PROVE  pc'["at_ctl"] = "delay" => Count' < RETRANS_MAX_NUM
PROOF
  <1>1. uart \in Uarts /\ call \in Calls
    BY DEF TInv, Typed
  <1>2. uart.retrans \in 0 .. RETRANS_MAX_NUM /\ call.retrans \in 0 .. RETRANS_MAX_NUM
    BY <1>1, UartTypes, CallTypes
  <1> QED  BY <1>2, BoundAssumption DEF TInv, InHand, Count

\* The UART thread.
LEMMA TypedUart ==
  ASSUME TInv, (\E d \in Cmd : AcceptCmd(d)) \/ RxStep
  PROVE  TInv'
PROOF
  <1> USE DEF channel
  <1>1. ASSUME NEW d \in Cmd, AcceptCmd(d)  PROVE TInv'
    <2>1. uart' \in Uarts /\ uart'.retrans = uart.retrans
      BY <1>1, UartTypes DEF AcceptCmd, TInv, Typed
    <2>2. pc' = pc /\ msg' = msg /\ call' = call
      BY <1>1 DEF AcceptCmd
    <2>3. pc'["at_ctl"] = "delay" => Count' < RETRANS_MAX_NUM
      BY <2>1, <2>2, CountKeeps
    <2>4. Typed'
      BY <1>1, <2>1 DEF AcceptCmd, TInv, Typed, Text
    <2> QED  BY <1>1, <2>2, <2>3, <2>4 DEF AcceptCmd, TInv, InHand
  <1>2. CASE MarkProcessing
    <2>1. uart' \in Uarts /\ uart'.retrans = uart.retrans
      BY <1>2, UartTypes DEF MarkProcessing, TInv, Typed
    <2>2. pc' = pc /\ msg' = msg /\ call' = call
      BY <1>2 DEF MarkProcessing
    <2>3. pc'["at_ctl"] = "delay" => Count' < RETRANS_MAX_NUM
      BY <2>1, <2>2, CountKeeps
    <2>4. Typed' /\ rx'.text = rx.text
      BY <1>2, <2>1 DEF MarkProcessing, TInv, Typed
    <2> QED  BY <1>2, <2>2, <2>3, <2>4 DEF MarkProcessing, TInv, InHand
  <1>3. CASE SendToCtl
    <2>1. rx.text \in Cmd /\ Far(rx.text, "uart") \in GoodMsg /\ GoodMsg \subseteq Msg
      BY <1>3, Sent, CommandAssumption DEF SendToCtl, TInv, InHand, Text, GoodMsg
    <2>2. at_q' \in Seq(GoodMsg) /\ at_q' \in Seq(Msg)
      BY <1>3, <2>1, Queues DEF SendToCtl, TInv, Typed, InHand
    <2> QED  BY <1>3, <2>2 DEF SendToCtl, TInv, Typed, InHand, Count
  <1> QED  BY <1>1, <1>2, <1>3 DEF RxStep

\* at_ctl and requests.
LEMMA TypedRequests ==
  ASSUME TInv, AtGet \/ ProcFromFarps \/ CopyToProxy
  PROVE  TInv'
PROOF
  <1> USE DEF channel
  <1>0. pc \in [Task -> Pcs] /\ pc["at_ctl"] \in {"get", "farps", "copy"}
    BY DEF TInv, Typed, AtGet, ProcFromFarps, CopyToProxy
  <1>1. CASE AtGet
    <2>1. Head(at_q) \in GoodMsg /\ at_q' \in Seq(GoodMsg) /\ at_q' \in Seq(Msg)
      BY <1>1, Queues DEF AtGet, TInv, Typed, InHand
    <2>2. /\ pc' \in [Task -> Pcs] /\ pc'["proxy"] = pc["proxy"]
          /\ pc'["at_ctl"] = IF Head(at_q).src = "far" THEN "farps" ELSE "near"
      BY <1>0, <1>1, GoesTyped, Basics DEF AtGet, Pcs
    <2>3. msg' \in [Task -> Msg] /\ msg'["at_ctl"] = Head(at_q) /\ msg'["proxy"] = msg["proxy"]
      BY <1>1, <2>1, Basics DEF AtGet, TInv, Typed, GoodMsg
    <2>4. Typed'
      BY <1>1, <2>1, <2>2, <2>3 DEF AtGet, TInv, Typed
    <2>5. InHand'
      BY <1>1, <2>1, <2>2, <2>3 DEF AtGet, TInv, InHand, GoodMsg, GoodFar, GoodNear
    <2> QED  BY <2>4, <2>5 DEF TInv
  <1>2. CASE ProcFromFarps
    <2>1. pc["at_ctl"] = "farps" /\ GoodFar(msg["at_ctl"]) /\ UNCHANGED << at_q, msg, call, copy >>
      BY <1>2 DEF ProcFromFarps, TInv, InHand
    <2>2. /\ pc' \in [Task -> Pcs] /\ pc'["proxy"] = pc["proxy"]
          /\ pc'["at_ctl"] \in {"check", "get", "copy"}
          /\ pc'["at_ctl"] = "copy" => msg["at_ctl"].text # Req
      BY <1>0, <1>2, GoesTyped, Basics DEF ProcFromFarps, Pcs
    <2>3. /\ menu' = menu /\ rx' = rx /\ owed' \subseteq owed /\ uart' \in Uarts
      BY <1>2, UartTypes DEF ProcFromFarps, TInv, Typed, AnswerUart
    <2>4. Typed'
      BY <1>2, <2>2, <2>3 DEF ProcFromFarps, TInv, Typed
    <2>5. InHand'
      BY <2>1, <2>2, <2>3 DEF TInv, InHand, GoodFar, Msg, Text
    <2> QED  BY <2>4, <2>5 DEF TInv
  <1>3. CASE CopyToProxy
    <2>1. /\ pc' \in [Task -> Pcs] /\ pc'["proxy"] = pc["proxy"] /\ pc'["at_ctl"] = "get"
      BY <1>0, <1>3, GoesTyped, Basics DEF CopyToProxy, Pcs
    <2>2. PICK m : m = [text |-> msg["at_ctl"].text,
                        copy |-> [proc |-> uart.proc, retrans |-> uart.retrans]]
      OBVIOUS
    <2>3. uart.proc \in BOOLEAN /\ uart.retrans \in 0 .. RETRANS_MAX_NUM /\ msg["at_ctl"].text \in Cmd
      BY <1>3, UartTypes DEF CopyToProxy, TInv, InHand, Typed
    <2>4. m \in [text : Cmd, copy : Copy]
      BY <2>2, <2>3 DEF Copy
    <2>5. proxy_q' \in Seq([text : Cmd, copy : Copy])
      BY <1>3, <2>2, <2>4, Queues DEF CopyToProxy, TInv, Typed
    <2>6. Typed'
      BY <1>3, <2>1, <2>5 DEF CopyToProxy, TInv, Typed
    <2>7. InHand'
      BY <1>3, <2>1 DEF CopyToProxy, TInv, InHand
    <2> QED  BY <2>6, <2>7 DEF TInv
  <1> QED  BY <1>1, <1>2, <1>3

\* forward_req_at_proc in either thread.
LEMMA TypedForward ==
  ASSUME TInv, NEW t \in Task, Forward(t)
  PROVE  TInv'
PROOF
  <1> USE DEF channel
  <1>0. /\ pc \in [Task -> Pcs] /\ msg \in [Task -> Msg] /\ uart \in Uarts /\ call \in Calls
        /\ pc[t] \in {"check", "delay", "mark", "write"} /\ GoodFar(msg[t])
        /\ t = "proxy" => msg[t].ctx = "uart"
    BY DEF Forward, CheckFree, WaitBeforeRetry, Retransmit, GiveUp, MarkSend, WriteToPs, TInv, Typed, InHand, Task
  <1>1. msg' = msg /\ UNCHANGED << menu, rx, proxy_q, passthr, asserted >>
    BY DEF Forward, CheckFree, WaitBeforeRetry, Retransmit, GiveUp, MarkSend, WriteToPs
  <1>2. ASSUME NEW next \in {"mark", "delay", "get", "write"}, Go(t, next), Typed',
               at_q' \in Seq(GoodMsg),
               next = "delay" => ~ Exhausted(t) /\ UNCHANGED << uart, call >>,
               t = "proxy" => uart'.retrans = uart.retrans \/ uart'.retrans = 0,
               t = "proxy" => call' = call
        PROVE  TInv'
    <2>1. pc'[t] = next /\ \A u \in Task : u # t => pc'[u] = pc[u]
      BY <1>0, <1>2, GoesTyped DEF Pcs
    <2>2. CASE t = "at_ctl"
      <3>1. next = "delay" => Count' < RETRANS_MAX_NUM
        <4>1. uart.retrans \in 0 .. RETRANS_MAX_NUM /\ call.retrans \in 0 .. RETRANS_MAX_NUM
          BY <1>0, UartTypes, CallTypes
        <4> QED  BY <1>1, <1>2, <2>2, <4>1, BoundAssumption DEF Exhausted, Retrans, Count
      <3>2. pc'["at_ctl"] = next /\ pc'["proxy"] = pc["proxy"]
        BY <2>1, <2>2, Basics
      <3> QED  BY <1>0, <1>1, <1>2, <2>2, <3>1, <3>2 DEF TInv, InHand
    <2>3. CASE t = "proxy"
      <3>1. pc'["proxy"] = next /\ pc'["at_ctl"] = pc["at_ctl"]
        BY <2>1, <2>3, Basics
      <3>2. pc'["at_ctl"] = "delay" => Count' < RETRANS_MAX_NUM
        BY <1>1, <1>2, <2>3, <3>1, CountKeeps
      <3> QED  BY <1>0, <1>1, <1>2, <2>3, <3>1, <3>2 DEF TInv, InHand
    <2> QED  BY <2>2, <2>3 DEF Task
  <1>3. ASSUME NEW next \in {"mark", "delay", "get", "write"}, Go(t, next)  PROVE pc' \in [Task -> Pcs]
    BY <1>0, <1>3, GoesTyped DEF Pcs
  <1>4. /\ msg[t].text \in Text /\ Far(msg[t].text, msg[t].ctx) \in GoodMsg
        /\ Near(msg[t].text, "dsp", "dsp_off") \in GoodMsg /\ msg[t].ctx \in {"uart", "proxy"}
    BY <1>0, Sent DEF GoodFar, Msg
  <1>5. at_q \in Seq(GoodMsg) /\ GoodMsg \subseteq Msg /\ NoCopy \in Copy
    BY BoundAssumption DEF TInv, InHand, GoodMsg, NoCopy, Copy
  <1>6. CASE CheckFree(t)
    <2>1. Typed'
      BY <1>3, <1>6 DEF CheckFree, TInv, Typed
    <2> QED  BY <1>2, <1>5, <1>6, <2>1 DEF CheckFree
  <1>7. CASE WaitBeforeRetry(t)
    <2>1. Typed'
      BY <1>3, <1>7 DEF WaitBeforeRetry, TInv, Typed
    <2> QED  BY <1>2, <1>5, <1>7, <2>1 DEF WaitBeforeRetry
  <1>8. CASE Retransmit(t)
    <2>1. at_q' \in Seq(GoodMsg) /\ at_q' \in Seq(Msg)
      <3>1. at_q' \in Seq(GoodMsg)
        BY <1>4, <1>5, <1>8, Queues DEF Retransmit
      <3> QED  BY <1>5, <3>1
    <2>2. /\ uart' \in Uarts /\ call' \in Calls /\ copy' \in Copy
          /\ t = "proxy" => uart' = uart /\ call' = call
      <3>1. t = "at_ctl" => Count < RETRANS_MAX_NUM
        BY <1>8 DEF Retransmit, TInv, InHand
      <3>2. copy' \in Copy
        BY <1>5, <1>8 DEF Retransmit, TInv, Typed
      <3> QED  BY <1>0, <1>8, <3>1, <3>2, UartTypes, CallTypes DEF Retransmit, Count, Task
    <2>3. Typed'
      BY <1>1, <1>3, <1>8, <2>1, <2>2 DEF Retransmit, TInv, Typed
    <2> QED  BY <1>2, <1>8, <2>1, <2>2, <2>3 DEF Retransmit
  <1>9. CASE GiveUp(t)
    <2>1. /\ uart' \in Uarts /\ call' \in Calls /\ copy' \in Copy /\ owed' \subseteq owed
          /\ t = "proxy" => uart' = uart /\ call' = call
      BY <1>0, <1>5, <1>9, UartTypes, CallTypes DEF GiveUp, TInv, Typed, Task
    <2>2. Typed'
      BY <1>1, <1>3, <1>9, <2>1 DEF GiveUp, TInv, Typed
    <2> QED  BY <1>2, <1>5, <1>9, <2>1, <2>2 DEF GiveUp
  <1>10. CASE MarkSend(t)
    <2>1. uart' \in Uarts /\ uart'.retrans = uart.retrans
      BY <1>0, <1>10, UartTypes DEF MarkSend
    <2>2. nearps' \in Links
      BY <1>4, <1>10 DEF MarkSend, Linked, Links
    <2>3. Typed'
      BY <1>1, <1>3, <1>10, <2>1, <2>2 DEF MarkSend, TInv, Typed
    <2> QED  BY <1>2, <1>5, <1>10, <2>1, <2>3 DEF MarkSend
  <1>11. CASE WriteToPs(t)
    <2>4. \/ at_q' = at_q \/ at_q' = Append(at_q, Near(msg[t].text, "dsp", "dsp_off"))
      BY <1>11 DEF WriteToPs
    <2>5. ps' = ps \/ ps' = Append(ps, msg[t].text)
      BY <1>11 DEF WriteToPs
    <2>6. copy' \in Copy
      BY <1>5, <1>11 DEF WriteToPs, TInv, Typed
    <2>7. at_q' \in Seq(GoodMsg)
      BY <1>4, <1>5, <2>4, Queues
    <2>8. ps' \in Seq(Text)
      <3>1. ps \in Seq(Text)
        BY DEF TInv, Typed
      <3> QED  BY <1>4, <2>5, <3>1, Queues
    <2>1. at_q' \in Seq(GoodMsg) /\ ps' \in Seq(Text) /\ copy' \in Copy
      BY <2>6, <2>7, <2>8
    <2>2. at_q' \in Seq(Msg)
      BY <1>5, <2>1
    <2>3. Typed'
      BY <1>1, <1>3, <1>11, <2>1, <2>2 DEF WriteToPs, TInv, Typed
    <2> QED  BY <1>2, <1>11, <2>1, <2>3 DEF WriteToPs
  <1> QED  BY <1>6, <1>7, <1>8, <1>9, <1>10, <1>11 DEF Forward

\* at_ctl and results.
LEMMA TypedResults ==
  ASSUME TInv, ProcFromNearps \/ Deliver \/ ClearNearps
  PROVE  TInv'
PROOF
  <1> USE DEF channel
  <1>0. pc \in [Task -> Pcs] /\ uart \in Uarts /\ call \in Calls
    BY DEF TInv, Typed
  <1>1. CASE ProcFromNearps
    <2>1. /\ pc' \in [Task -> Pcs] /\ pc'["proxy"] = pc["proxy"] /\ pc'["at_ctl"] \in {"deliver", "reset"}
      BY <1>0, <1>1, GoesTyped, Basics DEF ProcFromNearps, Pcs
    <2>2. Typed'
      BY <1>1, <2>1 DEF ProcFromNearps, TInv, Typed
    <2>3. InHand'
      BY <1>1, <2>1 DEF ProcFromNearps, TInv, InHand
    <2> QED  BY <2>2, <2>3 DEF TInv
  <1>2. CASE ClearNearps
    <2>1. pc' \in [Task -> Pcs] /\ pc'["proxy"] = pc["proxy"] /\ pc'["at_ctl"] = "get"
      BY <1>0, <1>2, GoesTyped, Basics DEF ClearNearps, Pcs
    <2>2. nearps' \in Links
      BY <1>2 DEF ClearNearps, Cleared, NearpsIdle, TInv, Typed, Links
    <2>3. Typed'
      BY <1>2, <2>1, <2>2 DEF ClearNearps, TInv, Typed
    <2>4. InHand'
      BY <1>2, <2>1 DEF ClearNearps, TInv, InHand
    <2> QED  BY <2>3, <2>4 DEF TInv
  <1>3. CASE Deliver
    <2>1. msg["at_ctl"].res \in {"ok", "dsp_off", "timeout"}
      BY <1>3 DEF Deliver, TInv, InHand, GoodNear, Msg
    <2>2. /\ menu' = menu /\ rx' = rx /\ owed' \subseteq owed /\ uart' \in Uarts
      BY <1>0, <1>3, UartTypes DEF Deliver, AnswerUart
    <2>3. ps' \in Seq(Text)
      BY <1>3, Queues DEF Deliver, TInv, Typed, Text
    <2>4. call' \in Calls
      BY <1>0, <1>3, <2>1, CallTypes DEF Deliver
    <2>5. pc' \in [Task -> Pcs] /\ pc'["proxy"] = pc["proxy"] /\ pc'["at_ctl"] = "reset"
      BY <1>0, <1>3, GoesTyped, Basics DEF Deliver, Pcs
    <2>6. Typed'
      BY <1>3, <2>2, <2>3, <2>4, <2>5 DEF Deliver, TInv, Typed
    <2>7. InHand'
      BY <1>3, <2>2, <2>5 DEF Deliver, TInv, InHand
    <2> QED  BY <2>6, <2>7 DEF TInv
  <1> QED  BY <1>1, <1>2, <1>3

\* xy_proxy.
LEMMA TypedProxy ==
  ASSUME TInv, ProxyGet \/ ProxyDrops \/ ProxyExecutes \/ CallReturns \/ ProxyAnswers
  PROVE  TInv'
PROOF
  <1> USE DEF channel
  <1>0. pc \in [Task -> Pcs] /\ uart \in Uarts /\ call \in Calls /\ NoCopy \in Copy
    BY BoundAssumption DEF TInv, Typed, NoCopy, Copy
  <1>1. ASSUME NEW next \in {"get", "proc", "answer", "check", "wait"}, Go("proxy", next)
        PROVE  pc' \in [Task -> Pcs] /\ pc'["proxy"] = next /\ pc'["at_ctl"] = pc["at_ctl"]
    BY <1>0, <1>1, GoesTyped, Basics DEF Pcs
  <1>2. CASE ProxyGet
    <2>1. Head(proxy_q) \in [text : Cmd, copy : Copy] /\ proxy_q' \in Seq([text : Cmd, copy : Copy])
      BY <1>2, Queues DEF ProxyGet, TInv, Typed
    <2>2. Head(proxy_q).text \in Text /\ Head(proxy_q).text # Junk /\ copy' \in Copy
      BY <1>2, <2>1, CommandAssumption DEF ProxyGet, Text
    <2>3. GoodFar(Far(Head(proxy_q).text, "uart"))
      BY <2>2, Sent
    <2>4. /\ msg' \in [Task -> Msg] /\ msg'["at_ctl"] = msg["at_ctl"]
          /\ msg'["proxy"] = Far(Head(proxy_q).text, "uart")
      BY <1>2, <2>3, Basics DEF ProxyGet, TInv, Typed, GoodFar
    <2>5. pc' \in [Task -> Pcs] /\ pc'["proxy"] = "proc" /\ pc'["at_ctl"] = pc["at_ctl"]
      BY <1>1, <1>2 DEF ProxyGet
    <2>6. Typed'
      BY <1>2, <2>1, <2>2, <2>4, <2>5 DEF ProxyGet, TInv, Typed
    <2>7. InHand'
      BY <1>2, <2>3, <2>4, <2>5, Sent DEF ProxyGet, TInv, InHand, Count
    <2> QED  BY <2>6, <2>7 DEF TInv
  <1>3. ASSUME NEW next \in {"get", "answer", "check", "wait"}, Go("proxy", next), pc["proxy"] # "get",
               Typed', UNCHANGED << rx, msg >>, at_q' \in Seq(GoodMsg),
               uart'.retrans = uart.retrans \/ uart'.retrans = 0,
               call'.retrans = call.retrans \/ call'.retrans = 0
        PROVE  TInv'
    <2>1. pc'["proxy"] = next /\ pc'["at_ctl"] = pc["at_ctl"]
      BY <1>1, <1>3
    <2>2. pc'["at_ctl"] = "delay" => Count' < RETRANS_MAX_NUM
      BY <1>3, <2>1, CountKeeps
    <2> QED  BY <1>3, <2>1, <2>2 DEF TInv, InHand
  <1>4. at_q \in Seq(GoodMsg) /\ GoodMsg \subseteq Msg
    BY DEF TInv, InHand, GoodMsg
  <1>5. CASE ProxyDrops
    <2>1. Typed'
      BY <1>1, <1>5 DEF ProxyDrops, TInv, Typed
    <2> QED  BY <1>3, <1>4, <1>5, <2>1 DEF ProxyDrops
  <1>6. CASE ProxyExecutes
    <2>0. UNCHANGED << channel, nearps, proxy_q, msg, copy, ps, asserted >> /\ pc["proxy"] = "proc"
      BY <1>6 DEF ProxyExecutes
    <2>1. \E next \in {"get", "answer", "check", "wait"} : Go("proxy", next)
      BY <1>6 DEF ProxyExecutes
    <2>2. at_q' \in Seq(GoodMsg) /\ at_q' \in Seq(Msg)
      <3>1. Far(Req, "proxy") \in GoodMsg
        BY Sent, CommandAssumption DEF Text
      <3>2. at_q' = at_q \/ at_q' = Append(at_q, Far(Req, "proxy"))
        BY <1>6 DEF ProxyExecutes
      <3>3. at_q' \in Seq(GoodMsg)
        BY <1>4, <3>1, <3>2, Queues
      <3> QED  BY <1>4, <3>3
    <2>3. call' \in Calls /\ (call'.retrans = call.retrans \/ call'.retrans = 0)
      <3>1. call' = call \/ call' = [NoCall EXCEPT !.reg = TRUE, !.timer = TRUE]
        BY <1>6, Zenon DEF ProxyExecutes
      <3> QED  BY <1>0, <3>1, CallTypes
    <2>4. passthr' \in Passes
      <3>1. msg["proxy"].text \in Text
        BY Basics DEF TInv, Typed, Msg
      <3>2. passthr' = passthr \/ passthr' = [pc |-> "on", text |-> msg["proxy"].text]
        BY <1>6, Zenon DEF ProxyExecutes
      <3> QED  BY <3>1, <3>2 DEF TInv, Typed, Passes
    <2>5. Typed'
      BY <1>1, <2>0, <2>1, <2>2, <2>3, <2>4 DEF TInv, Typed
    <2> QED  BY <1>3, <2>0, <2>1, <2>2, <2>3, <2>5
  <1>7. CASE CallReturns
    <2>1. call' \in Calls /\ call'.retrans = 0
      BY <1>0, <1>7, CallTypes DEF CallReturns
    <2>2. Typed'
      BY <1>1, <1>7, <2>1 DEF CallReturns, TInv, Typed
    <2> QED  BY <1>3, <1>4, <1>7, <2>1, <2>2 DEF CallReturns
  <1>8. CASE ProxyAnswers
    <2>1. /\ menu' = menu /\ rx' = rx /\ owed' \subseteq owed
          /\ uart' \in Uarts /\ uart'.retrans = 0
      BY <1>0, <1>8, UartTypes DEF ProxyAnswers, AnswerUart
    <2>2. Typed'
      BY <1>0, <1>1, <1>8, <2>1 DEF ProxyAnswers, TInv, Typed
    <2> QED  BY <1>3, <1>4, <1>8, <2>1, <2>2 DEF ProxyAnswers
  <1> QED  BY <1>2, <1>5, <1>6, <1>7, <1>8

\* The timer, the stack and pass-through mode.
LEMMA TypedOutside ==
  ASSUME TInv, wait_nearps_rsp_timeout_proc \/ PsAnswers \/ PassthrEnds \/ PassthrAnswers
  PROVE  TInv'
PROOF
  <1> USE DEF channel
  <1>0. call \in Calls /\ at_q \in Seq(GoodMsg) /\ GoodMsg \subseteq Msg /\ ps \in Seq(Text)
    BY DEF TInv, Typed, InHand, GoodMsg
  <1>1. UNCHANGED << channel, pc, msg >>
    BY DEF wait_nearps_rsp_timeout_proc, PsAnswers, PassthrEnds, PassthrAnswers
  <1>2. ASSUME Typed', at_q' \in Seq(GoodMsg), call'.retrans = call.retrans  PROVE TInv'
    BY <1>1, <1>2 DEF TInv, InHand, Count
  <1>3. CASE wait_nearps_rsp_timeout_proc
    <2>1. call' \in Calls /\ call'.retrans = call.retrans
      BY <1>0, <1>3, CallTypes DEF wait_nearps_rsp_timeout_proc
    <2>2. nearps' \in Links
      BY <1>3 DEF wait_nearps_rsp_timeout_proc, TInv, Typed, Links, NearpsIdle
    <2>3. Typed'
      BY <1>3, <2>1, <2>2 DEF wait_nearps_rsp_timeout_proc, TInv, Typed
    <2> QED  BY <1>0, <1>2, <1>3, <2>1, <2>3 DEF wait_nearps_rsp_timeout_proc
  <1>4. CASE PsAnswers
    <2>1. Head(ps) \in Text /\ ps' \in Seq(Text)
      BY <1>0, <1>4, Queues DEF PsAnswers
    <2>2. at_q' \in Seq(GoodMsg)
      BY <1>0, <1>4, <2>1, Sent, Queues DEF PsAnswers
    <2>3. at_q' \in Seq(Msg)
      BY <1>0, <2>2
    <2>4. Typed'
      BY <1>4, <2>1, <2>3 DEF PsAnswers, TInv, Typed
    <2> QED  BY <1>2, <1>4, <2>2, <2>4 DEF PsAnswers
  <1>5. CASE PassthrEnds
    <2>1. passthr' \in Passes
      BY <1>5 DEF PassthrEnds, TInv, Typed, Passes
    <2>2. Typed'
      BY <1>5, <2>1 DEF PassthrEnds, TInv, Typed
    <2> QED  BY <1>0, <1>2, <1>5, <2>2 DEF PassthrEnds
  <1>6. CASE PassthrAnswers
    <2>1. passthr' \in Passes /\ passthr.text \in Text
      BY <1>6 DEF PassthrAnswers, TInv, Typed, Passes
    <2>2. Near(passthr.text, "uart", "ok") \in GoodMsg
      BY <2>1, Sent
    <2>3. at_q' \in Seq(GoodMsg)
      BY <1>0, <1>6, <2>2, Queues DEF PassthrAnswers
    <2>4. Typed'
      BY <1>0, <1>6, <2>1, <2>3 DEF PassthrAnswers, TInv, Typed
    <2> QED  BY <1>2, <1>6, <2>3, <2>4 DEF PassthrAnswers
  <1> QED  BY <1>3, <1>4, <1>5, <1>6

\* Every variable has its type, and no command is put back more often than
\* RETRANS_MAX_NUM times (forward_req_at_proc), whatever the MCU sends.
THEOREM TypeCorrect == Spec => []TypeOK
PROOF
  <1>1. Init => TInv
    <2> SUFFICES ASSUME Init  PROVE TInv
      OBVIOUS
    <2>1. uart \in Uarts /\ nearps \in Links /\ copy \in Copy
      BY BoundAssumption DEF Init, Uarts, Links, Copy, NearpsIdle, NoCopy
    <2>2. call \in Calls
      <3>1. << >> \in Seq({"ok", "dsp_off", "timeout"}) /\ 0 \in 0 .. RETRANS_MAX_NUM
        BY BoundAssumption
      <3> QED  BY <3>1 DEF Init, Calls, NoCall
    <2>3. msg \in [Task -> Msg] /\ pc \in [Task -> Pcs] /\ pc["at_ctl"] = "get" /\ pc["proxy"] = "get"
      BY Basics DEF Init, Far, Msg, Text, Pcs
    <2>4. /\ rx \in [pc : {"idle", "mark", "send"}, text : Text] /\ passthr \in Passes
          /\ rx.pc = "idle"
      BY DEF Init, Text, Passes
    <2>7. at_q \in Seq(Msg) /\ proxy_q \in Seq([text : Cmd, copy : Copy]) /\ ps \in Seq(Text)
      BY DEF Init
    <2>8. menu \in Menus /\ owed \subseteq menu /\ asserted \in BOOLEAN
      BY DEF Init
    <2>5. Typed
      BY <2>1, <2>2, <2>3, <2>4, <2>7, <2>8 DEF Typed
    <2>6. InHand
      BY <2>3, <2>4 DEF Init, InHand
    <2> QED  BY <2>5, <2>6 DEF TInv
  <1>2. TInv /\ [Next]_vars => TInv'
    <2>1. ASSUME TInv, UNCHANGED vars  PROVE TInv'
      <3>1. Typed'
        BY <2>1 DEF vars, channel, TInv, Typed
      <3>2. InHand'
        BY <2>1 DEF vars, channel, TInv, InHand, Count
      <3> QED  BY <3>1, <3>2 DEF TInv
    <2>2. TInv /\ Next => TInv'
      BY TypedUart, TypedRequests, TypedForward, TypedResults, TypedProxy, TypedOutside, Basics
         DEF Next, Step, AtCtlStep, ProxyStep
    <2> QED  BY <2>1, <2>2
  <1>3. TInv => TypeOK
    BY DEF TInv, Typed, TypeOK, Uarts, Calls, Links, Passes, Pcs
  <1> QED  BY <1>1, <1>2, <1>3, PTL DEF Spec

=============================================================================
