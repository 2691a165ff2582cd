----------------------------- MODULE IpcMsgRead -----------------------------
(* The receiving direction of the Normal channel: the DSP core publishes      *)
(* messages and raises an interrupt, IpcInthandler passes it on through a     *)
(* binary semaphore, the thread inter_core_msg reads with IpcMsg_Read, and    *)
(* the idle hook looks after the ring before it lets the core sleep           *)
(* (icm_buf_check in SYSAPP/lpm/src/lpm_func.c).  The handler gives the       *)
(* semaphore only while g_icm_flag is 0, that is while the reader waits.      *)
(* What the sending direction has too carries the prefix rcv here, so that    *)
(* one module can speak of both.                                              *)
EXTENDS RingBuf

VARIABLES
  rcv_mem,       \* the words at base_addr
  RingBuf_rcv,   \* the positions in shared memory
  rcv_crl,       \* the reader's copy, g_ringbuf_ctl[IpcMsg_Normal].rcv_crl
  g_icm_flag,    \* 1 once the reader has been woken, 0 while it waits
  read_sema,     \* binary semaphore: 0 or 1
  reader,        \* inter_core_msg: next step, head and message read, result
  idle,          \* the idle task: in its hook, before WFI, or asleep in WFI
  sender,        \* the DSP: next step, message, its copy of the positions
  rcv_irq,       \* the interrupt is pending at the M3 core
  sendBusy       \* the sending direction holds messages the DSP has not read

rcv_vars == << rcv_mem, RingBuf_rcv, rcv_crl, g_icm_flag, read_sema, reader, idle,
               sender, rcv_irq, sendBusy >>

ReaderPC == {"check", "clear", "take", "set", "recheck", "copy", "head", "body",
             "release", "handle"}

RcvTypeOK ==
  /\ rcv_mem \in [Addr -> Word]
  /\ RingBuf_rcv \in Pos
  /\ rcv_crl \in Pos
  /\ g_icm_flag \in {0, 1}
  /\ read_sema \in {0, 1}
  /\ reader \in [pc : ReaderPC, head : Word, got : Msg \cup {NoMsg},
                 taken : Msg \cup {NoMsg}]
  /\ idle \in {"hook", "critical", "wfi"}
  /\ sender \in [pc : {"idle", "publish", "raise"}, msg : Msg \cup {NoMsg},
                 send : Pos]
  /\ rcv_irq \in BOOLEAN
  /\ sendBusy \in BOOLEAN

RcvInit ==
  /\ rcv_mem = [a \in Addr |-> Pad]
  /\ RingBuf_rcv = [Write_Pos |-> 0, Read_Pos |-> 0]
  /\ rcv_crl = [Write_Pos |-> 0, Read_Pos |-> 0]
  /\ g_icm_flag = 0
  /\ read_sema = 0
  /\ reader = [pc |-> "check", head |-> Pad, got |-> NoMsg, taken |-> NoMsg]
  /\ idle = "hook"
  /\ sender = [pc |-> "idle", msg |-> NoMsg,
               send |-> [Write_Pos |-> 0, Read_Pos |-> 0]]
  /\ rcv_irq = FALSE
  /\ sendBusy = FALSE

-----------------------------------------------------------------------------
(* The reader.  It runs whenever it is not blocked and the core is awake.     *)

Blocked == reader.pc = "take" /\ read_sema = 0

Step(from, to) == /\ idle # "wfi"
                  /\ reader.pc = from
                  /\ reader' = [reader EXCEPT !.pc = to]

CheckEmpty ==
  /\ Step("check", IF Is_Ringbuf_Empty(RingBuf_rcv) THEN "clear" ELSE "recheck")
  /\ UNCHANGED << rcv_mem, RingBuf_rcv, rcv_crl, g_icm_flag, read_sema,
                  idle, sender,
                  rcv_irq, sendBusy >>

ClearFlag ==
  /\ Step("clear", "take")
  /\ g_icm_flag' = 0
  /\ UNCHANGED << rcv_mem, RingBuf_rcv, rcv_crl, read_sema, idle, sender,
                  rcv_irq, sendBusy >>

TakeSema ==
  /\ Step("take", "set")
  /\ read_sema = 1
  /\ read_sema' = 0
  /\ UNCHANGED << rcv_mem, RingBuf_rcv, rcv_crl, g_icm_flag, idle, sender,
                  rcv_irq, sendBusy >>

SetFlag ==
  /\ Step("set", "recheck")
  /\ g_icm_flag' = 1
  /\ UNCHANGED << rcv_mem, RingBuf_rcv, rcv_crl, read_sema, idle, sender,
                  rcv_irq, sendBusy >>

\* Still empty: IpcMsg_Read returns 0, and inter_core_msg_entry calls it again.
Recheck ==
  /\ Step("recheck", IF Is_Ringbuf_Empty(RingBuf_rcv) THEN "check" ELSE "copy")
  /\ UNCHANGED << rcv_mem, RingBuf_rcv, rcv_crl, g_icm_flag, read_sema,
                  idle, sender,
                  rcv_irq, sendBusy >>

CopyPos ==
  /\ Step("copy", "head")
  /\ rcv_crl' = RingBuf_rcv
  /\ UNCHANGED << rcv_mem, RingBuf_rcv, g_icm_flag, read_sema, idle, sender,
                  rcv_irq, sendBusy >>

\* Mutant: the room of the message is given back before it is copied.
ReadHead_Releases ==
  /\ idle # "wfi"
  /\ reader.pc = "head"
  /\ reader' = [reader EXCEPT !.pc = "body", !.head = HeadAt(rcv_crl, rcv_mem)]
  /\ rcv_crl' = AfterHead(rcv_crl)
  /\ RingBuf_rcv' = AfterBody(AfterHead(RingBuf_rcv), HeadAt(rcv_crl, rcv_mem))
  /\ UNCHANGED << rcv_mem, g_icm_flag, read_sema, idle, sender, rcv_irq, sendBusy >>

ReadHead ==
  /\ idle # "wfi"
  /\ reader.pc = "head"
  /\ reader' = [reader EXCEPT !.pc = "body", !.head = HeadAt(rcv_crl, rcv_mem)]
  /\ rcv_crl' = AfterHead(rcv_crl)
  /\ UNCHANGED << rcv_mem, RingBuf_rcv, g_icm_flag, read_sema, idle, sender,
                  rcv_irq, sendBusy >>

ReadBody ==
  /\ idle # "wfi"
  /\ reader.pc = "body"
  /\ reader' = [reader EXCEPT
       !.pc = "release",
       !.got = Assembled(reader.head, BodyAt(rcv_crl, reader.head, rcv_mem))]
  /\ rcv_crl' = AfterBody(rcv_crl, reader.head)
  /\ UNCHANGED << rcv_mem, RingBuf_rcv, g_icm_flag, read_sema, idle, sender,
                  rcv_irq, sendBusy >>

Release ==
  /\ idle # "wfi"
  /\ reader.pc = "release"
  /\ reader' = [reader EXCEPT !.pc = "handle", !.taken = reader.got]
  /\ RingBuf_rcv' = [RingBuf_rcv EXCEPT !.Read_Pos = rcv_crl.Read_Pos]
  /\ UNCHANGED << rcv_mem, rcv_crl, g_icm_flag, read_sema, idle, sender,
                  rcv_irq, sendBusy >>

\* inter_core_msg_entry: the handler of the message may write to the DSP.
Handle ==
  /\ Step("handle", "check")
  /\ sendBusy' \in {sendBusy, TRUE}
  /\ UNCHANGED << rcv_mem, RingBuf_rcv, rcv_crl, g_icm_flag, read_sema, idle,
                  sender, rcv_irq >>

Reader == \/ CheckEmpty \/ ClearFlag \/ TakeSema \/ SetFlag \/ Recheck
          \/ CopyPos \/ ReadHead \/ ReadBody \/ Release \/ Handle

-----------------------------------------------------------------------------
(* The interrupt handler, which preempts every thread but is held off while   *)
(* the idle task sleeps with interrupts masked.                               *)
IpcInthandler ==
  /\ rcv_irq
  /\ idle # "wfi"
  /\ rcv_irq' = FALSE
  /\ read_sema' = IF g_icm_flag = 0 THEN 1 ELSE read_sema
  /\ UNCHANGED << rcv_mem, RingBuf_rcv, rcv_crl, g_icm_flag, reader, idle,
                  sender, sendBusy >>

-----------------------------------------------------------------------------
(* The idle task runs when the reader is blocked.                             *)

\* Messages that the DSP still has to read make icm_buf_check return early,
\* before it looks at the receiving direction.
icm_buf_check_NoGive == read_sema  \* Mutant: the reader is not woken
icm_buf_check ==
  IF ~ sendBusy /\ ~ Is_Ringbuf_Empty(RingBuf_rcv) THEN 1 ELSE read_sema
StayAwake_SendOnly == sendBusy  \* Mutant: looks at the sending direction only
StayAwake == sendBusy \/ ~ Is_Ringbuf_Empty(RingBuf_rcv)

vApplicationIdleHook ==
  /\ Blocked
  /\ idle = "hook"
  /\ read_sema' = icm_buf_check
  /\ idle' \in {"hook", "critical"}
  /\ UNCHANGED << rcv_mem, RingBuf_rcv, rcv_crl, g_icm_flag, reader, sender,
                  rcv_irq, sendBusy >>

\* LPM_Wfi_Process: with interrupts masked, look again, and sleep or, for this
\* reason or another, give up.
LPM_Wfi_Process ==
  /\ Blocked
  /\ idle = "critical"
  /\ read_sema' = icm_buf_check
  /\ idle' \in {"hook"} \cup (IF StayAwake THEN {} ELSE {"wfi"})
  /\ UNCHANGED << rcv_mem, RingBuf_rcv, rcv_crl, g_icm_flag, reader, sender,
                  rcv_irq, sendBusy >>

\* WFI ends when an interrupt is pending: this one, or the RTC event set for it.
WfiEnds ==
  /\ idle = "wfi"
  /\ idle' = "hook"
  /\ UNCHANGED << rcv_mem, RingBuf_rcv, rcv_crl, g_icm_flag, read_sema,
                  reader, sender,
                  rcv_irq, sendBusy >>

Idle == vApplicationIdleHook \/ LPM_Wfi_Process \/ WfiEnds

-----------------------------------------------------------------------------
(* The DSP core, the mirror image of IpcMsg_Write.                            *)

DspStore(m) ==
  /\ sender.pc = "idle"
  /\ Is_Ringbuf_ChFreeSpace(RingBuf_rcv, MsgSize(m))
  /\ LET h == [RingBuf_rcv EXCEPT !.Write_Pos = WritePosAfter(RingBuf_rcv, 1)]
     IN  /\ rcv_mem' = Stored(h, Stored(RingBuf_rcv, rcv_mem, HeadWords(m)),
                              BodyWords(m))
         /\ sender' = [pc |-> "publish", msg |-> m,
                       send |-> [h EXCEPT !.Write_Pos =
                                   WritePosAfter(h, MsgSize(m) - 1)]]
  /\ UNCHANGED << RingBuf_rcv, rcv_crl, g_icm_flag, read_sema, reader, idle,
                  rcv_irq, sendBusy >>

DspPublish ==
  /\ sender.pc = "publish"
  /\ sender' = [sender EXCEPT !.pc = "raise"]
  /\ RingBuf_rcv' = [RingBuf_rcv EXCEPT !.Write_Pos = sender.send.Write_Pos]
  /\ UNCHANGED << rcv_mem, rcv_crl, g_icm_flag, read_sema, reader, idle,
                  rcv_irq, sendBusy >>

DspRaise ==
  /\ sender.pc = "raise"
  /\ sender' = [sender EXCEPT !.pc = "idle"]
  /\ rcv_irq' = TRUE
  /\ UNCHANGED << rcv_mem, RingBuf_rcv, rcv_crl, g_icm_flag, read_sema,
                  reader, idle,
                  sendBusy >>

DspDrains ==
  /\ sendBusy
  /\ sendBusy' = FALSE
  /\ UNCHANGED << rcv_mem, RingBuf_rcv, rcv_crl, g_icm_flag, read_sema,
                  reader, idle,
                  sender, rcv_irq >>

Sender == (\E m \in Msg : DspStore(m)) \/ DspPublish \/ DspRaise \/ DspDrains

RcvNext == Reader \/ IpcInthandler \/ Idle \/ Sender

RcvSpec == RcvInit /\ [][RcvNext]_rcv_vars

(* The reader runs when it can, interrupts are served, the idle task runs     *)
(* when nothing else does, and the DSP finishes what it has begun; it is not  *)
(* assumed to send anything more.                                             *)
RcvFairness ==
  /\ WF_rcv_vars(Reader)
  /\ WF_rcv_vars(IpcInthandler)
  /\ WF_rcv_vars(vApplicationIdleHook) /\ WF_rcv_vars(LPM_Wfi_Process)
  /\ WF_rcv_vars(rcv_irq /\ WfiEnds)
  /\ WF_rcv_vars(DspPublish) /\ WF_rcv_vars(DspRaise) /\ WF_rcv_vars(DspDrains)

RcvFairSpec == RcvSpec /\ RcvFairness

-----------------------------------------------------------------------------
(* Properties                                                                 *)

(* What IpcMsg_Read returns are the messages the DSP published, whole, in     *)
(* their order and each of them once, while the DSP keeps writing into the    *)
(* same ring.                                                                 *)
RcvChannel == INSTANCE IpcChannel WITH
                queue <- Contents(RingBuf_rcv, rcv_mem), taken <- reader.taken
RcvImplementsChannel == RcvChannel!Spec

(* The core never sleeps over a message: when it waits in WFI and the ring is *)
(* not empty, an interrupt is pending or the DSP is about to raise it         *)
(* (LPM_Wfi_Allow_Critical, lpm_func.c:1443-1454).                            *)
NeverSleepsOverMessage ==
  idle = "wfi" /\ ~ Is_Ringbuf_Empty(RingBuf_rcv) => rcv_irq \/ sender.pc = "raise"

(* A message whose interrupt came while g_icm_flag was still 1 wakes nobody.  *)
(* It is read all the same, even if the DSP sends nothing else.               *)
EveryMessageRead ==
  \A p \in Addr :
    (RingBuf_rcv.Read_Pos = p /\ ~ Is_Ringbuf_Empty(RingBuf_rcv))
      ~> RingBuf_rcv.Read_Pos # p
=============================================================================
