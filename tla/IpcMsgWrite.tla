---------------------------- MODULE IpcMsgWrite ----------------------------
(* The sending direction of a channel: threads of the M3 core that call       *)
(* IpcMsg_Write (DRIVERS/IpcMsg/src/ipcmsg_drv.c) and the DSP core that       *)
(* drains the ring.  The two cores share no lock, only the ring positions:    *)
(* every access to shared memory is a step of its own.  The DSP image is not  *)
(* part of the sources; it runs the mirror image of IpcMsg_Read.              *)
EXTENDS RingBuf

CONSTANTS Thread,     \* threads of the M3 core that write to the channel
          NoThread,
          WakesDSP    \* FALSE for IpcMsg_LOG, TRUE for the other channels

ASSUME NoThreadAssumption == NoThread \notin Thread
ASSUME WakesDSPAssumption == WakesDSP \in BOOLEAN

VARIABLES
  mem,            \* the words at base_addr
  RingBuf_send,   \* the positions in shared memory
  send_crl,       \* the writers' copy, g_ringbuf_ctl[chID].send_crl
  write_mutex,    \* its owner, or NoThread
  pc, msg,        \* of each thread: the next step, and the message it sends
  irq,            \* the interrupt Ipc_SetInt raises at the DSP is pending
  dsp             \* the DSP: asleep or awake, its copy of the positions, ...

wvars == << send_crl, write_mutex, pc, msg >>
vars == << mem, RingBuf_send, wvars, irq, dsp >>

PC == {"idle", "lock", "snapshot", "full", "head", "body", "publish", "int",
       "unlock"}

TypeOK ==
  /\ mem \in [Addr -> Word]
  /\ RingBuf_send \in Pos
  /\ send_crl \in Pos
  /\ write_mutex \in Thread \cup {NoThread}
  /\ pc \in [Thread -> PC]
  /\ msg \in [Thread -> Msg \cup {NoMsg}]
  /\ irq \in BOOLEAN
  /\ dsp \in [pc : {"asleep", "awake", "head", "body"},
              rcv : Pos, head : Word,
              got : Msg \cup {NoMsg}, taken : Msg \cup {NoMsg}]

Init ==
  /\ mem = [a \in Addr |-> Pad]
  /\ RingBuf_send = [Write_Pos |-> 0, Read_Pos |-> 0]
  /\ send_crl = [Write_Pos |-> 0, Read_Pos |-> 0]
  /\ write_mutex = NoThread
  /\ pc = [t \in Thread |-> "idle"]
  /\ msg = [t \in Thread |-> NoMsg]
  /\ irq = FALSE
  /\ dsp = [pc |-> "asleep", rcv |-> RingBuf_send, head |-> Pad,
             got |-> NoMsg, taken |-> NoMsg]

Goto(t, from, to) == pc[t] = from /\ pc' = [pc EXCEPT ![t] = to]

\* A thread calls IpcMsg_Write with message m.
Call(t, m) ==
  /\ Goto(t, "idle", "lock")
  /\ msg' = [msg EXCEPT ![t] = m]
  /\ UNCHANGED << mem, RingBuf_send, send_crl, write_mutex, irq, dsp >>

\* Mutant: enters without the mutex.
Lock_NoWait(t) ==
  /\ Goto(t, "lock", "snapshot")
  /\ write_mutex' = t
  /\ UNCHANGED << mem, RingBuf_send, send_crl, msg, irq, dsp >>

Lock(t) ==
  /\ Goto(t, "lock", "snapshot")
  /\ write_mutex = NoThread
  /\ write_mutex' = t
  /\ UNCHANGED << mem, RingBuf_send, send_crl, msg, irq, dsp >>

\* Copies the shared positions and decides on the copy whether m fits.
Snapshot(t) ==
  /\ Goto(t, "snapshot",
          IF Is_Ringbuf_ChFreeSpace(RingBuf_send, MsgSize(msg[t]))
          THEN "head" ELSE "full")
  /\ send_crl' = RingBuf_send
  /\ UNCHANGED << mem, RingBuf_send, write_mutex, msg, irq, dsp >>

\* Mutant: returns with the mutex locked.
Reject_NoUnlock(t) ==
  /\ Goto(t, "full", "idle")
  /\ msg' = [msg EXCEPT ![t] = NoMsg]
  /\ UNCHANGED << mem, RingBuf_send, send_crl, write_mutex, irq, dsp >>

\* No room: unlock and return -1.
Reject(t) ==
  /\ Goto(t, "full", "idle")
  /\ write_mutex' = NoThread
  /\ msg' = [msg EXCEPT ![t] = NoMsg]
  /\ UNCHANGED << mem, RingBuf_send, send_crl, irq, dsp >>

WriteHead(t) ==
  /\ Goto(t, "head", "body")
  /\ mem' = Stored(send_crl, mem, HeadWords(msg[t]))
  /\ send_crl' = [send_crl EXCEPT !.Write_Pos = WritePosAfter(send_crl, 1)]
  /\ UNCHANGED << RingBuf_send, write_mutex, msg, irq, dsp >>

WriteBody(t) ==
  /\ Goto(t, "body", "publish")
  /\ mem' = Stored(send_crl, mem, BodyWords(msg[t]))
  /\ send_crl' = [send_crl EXCEPT !.Write_Pos =
                    WritePosAfter(send_crl, MsgSize(msg[t]) - 1)]
  /\ UNCHANGED << RingBuf_send, write_mutex, msg, irq, dsp >>

\* The one store that makes the message visible to the other core.
Publish(t) ==
  /\ Goto(t, "publish", "int")
  /\ RingBuf_send' = [RingBuf_send EXCEPT !.Write_Pos = send_crl.Write_Pos]
  /\ UNCHANGED << mem, send_crl, write_mutex, msg, irq, dsp >>

\* Mutant: no interrupt, as on the log channel.
Ipc_SetInt_None(t) ==
  /\ Goto(t, "int", "unlock")
  /\ UNCHANGED << mem, RingBuf_send, send_crl, write_mutex, msg, irq, dsp >>

Ipc_SetInt(t) ==
  /\ Goto(t, "int", "unlock")
  /\ irq' = (irq \/ WakesDSP)
  /\ UNCHANGED << mem, RingBuf_send, send_crl, write_mutex, msg, dsp >>

Unlock(t) ==
  /\ Goto(t, "unlock", "idle")
  /\ write_mutex' = NoThread
  /\ msg' = [msg EXCEPT ![t] = NoMsg]
  /\ UNCHANGED << mem, RingBuf_send, send_crl, irq, dsp >>

Write(t) == \/ \E m \in Msg : Call(t, m)
            \/ Lock(t) \/ Snapshot(t) \/ Reject(t)
            \/ WriteHead(t) \/ WriteBody(t) \/ Publish(t)
            \/ Ipc_SetInt(t) \/ Unlock(t)

\* The interrupt wakes the DSP, or reaches it awake.
DspInterrupt ==
  /\ irq
  /\ irq' = FALSE
  /\ dsp' = [dsp EXCEPT !.pc = IF @ = "asleep" THEN "awake" ELSE @]
  /\ UNCHANGED << mem, RingBuf_send, wvars >>

\* Nothing to read and no interrupt pending: the DSP goes to sleep.
DspSleep ==
  /\ dsp.pc = "awake"
  /\ Is_Ringbuf_Empty(RingBuf_send)
  /\ ~irq
  /\ dsp' = [dsp EXCEPT !.pc = "asleep"]
  /\ UNCHANGED << mem, RingBuf_send, wvars, irq >>

\* It wakes up for reasons of its own, too.
DspWake ==
  /\ dsp.pc = "asleep"
  /\ dsp' = [dsp EXCEPT !.pc = "awake"]
  /\ UNCHANGED << mem, RingBuf_send, wvars, irq >>

DspReadHead ==
  /\ dsp.pc = "awake"
  /\ ~ Is_Ringbuf_Empty(RingBuf_send)
  /\ dsp' = [dsp EXCEPT !.pc = "head",
                        !.rcv = AfterHead(RingBuf_send),
                        !.head = HeadAt(RingBuf_send, mem)]
  /\ UNCHANGED << mem, RingBuf_send, wvars, irq >>

DspReadBody ==
  /\ dsp.pc = "head"
  /\ dsp' = [dsp EXCEPT !.pc = "body",
                        !.rcv = AfterBody(dsp.rcv, dsp.head),
                        !.got = Assembled(dsp.head,
                                          BodyAt(dsp.rcv, dsp.head, mem))]
  /\ UNCHANGED << mem, RingBuf_send, wvars, irq >>

\* The one store that gives the message's room back.
DspRelease ==
  /\ dsp.pc = "body"
  /\ RingBuf_send' = [RingBuf_send EXCEPT !.Read_Pos = dsp.rcv.Read_Pos]
  /\ dsp' = [dsp EXCEPT !.pc = "awake", !.taken = dsp.got]
  /\ UNCHANGED << mem, wvars, irq >>

Dsp == \/ DspInterrupt \/ DspSleep \/ DspWake
       \/ DspReadHead \/ DspReadBody \/ DspRelease

Next == Dsp \/ \E t \in Thread : Write(t)

Spec == Init /\ [][Next]_vars

(* FreeRTOS runs every ready thread, hands a mutex to the threads that wait   *)
(* for it in turn, and the DSP serves its interrupt and drains its ring.      *)
Fairness ==
  /\ \A t \in Thread :
       /\ SF_vars(Lock(t))
       /\ WF_vars(Snapshot(t)) /\ WF_vars(Reject(t))
       /\ WF_vars(WriteHead(t)) /\ WF_vars(WriteBody(t))
       /\ WF_vars(Publish(t)) /\ WF_vars(Ipc_SetInt(t)) /\ WF_vars(Unlock(t))
  /\ WF_vars(DspInterrupt)
  /\ WF_vars(DspReadHead) /\ WF_vars(DspReadBody) /\ WF_vars(DspRelease)

FairSpec == Spec /\ Fairness

-----------------------------------------------------------------------------
(* Properties                                                                 *)

\* The words of the ring that hold messages the DSP has not released.
Unread == IF RingBuf_send.Read_Pos <= RingBuf_send.Write_Pos
          THEN RingBuf_send.Read_Pos .. RingBuf_send.Write_Pos - 1
          ELSE (RingBuf_send.Read_Pos .. Size - 1)
               \cup (0 .. RingBuf_send.Write_Pos - 1)

(* No step of a writer touches a word of a message that the DSP has yet to    *)
(* read, although the writer decides on a copy of Read_Pos that is out of     *)
(* date by the time it stores (ipcmsg_drv.c:140-182).                         *)
UnreadUntouched == [][\A a \in Unread : mem'[a] = mem[a]]_vars

(* What the DSP takes out of the ring are the messages that IpcMsg_Write put  *)
(* in, whole, in their order and each of them once: the ring implements a     *)
(* queue.                                                                     *)
Channel == INSTANCE IpcChannel WITH
             queue <- Contents(RingBuf_send, mem), taken <- dsp.taken
ImplementsChannel == Channel!Spec

(* Messages other than logs wake the DSP "so that they are handled in time"   *)
(* (ipcmsg_drv.c:192): it is never asleep over a message that no interrupt    *)
(* is about to announce.                                                      *)
NeverAsleepOverMessage ==
  WakesDSP /\ dsp.pc = "asleep" /\ ~ Is_Ringbuf_Empty(RingBuf_send)
    => irq \/ \E t \in Thread : pc[t] = "int"

(* IpcMsg_Write returns -1 only when messages are in its way: it never        *)
(* refuses a message that fits into the ring when the ring is empty.          *)
EmptyRingAccepts ==
  \A t \in Thread :
    pc[t] = "full" /\ MsgSize(msg[t]) < Size => ~ Is_Ringbuf_Empty(send_crl)

(* IpcMsg_Write returns: a writer neither waits forever for the mutex nor     *)
(* leaves it locked behind it (ipcmsg_drv.c:136-195).                         *)
WriteReturns == \A t \in Thread : (pc[t] = "lock") ~> (pc[t] = "idle")
=============================================================================
