# TLA+ models of the XY1100 NB-IoT firmware

This directory specifies, model-checks and proves parts of the M3-core firmware
of the Xinyi XY1100 (`src/xinyi`). The chip has two cores. The M3 core runs
FreeRTOS and the code of this repository: AT commands, sockets, cloud clients,
flash, timers and sleep. The DSP core runs the NB protocol stack from a binary
image that is not part of the sources. The two share memory and flash but no
lock. Most of what can go wrong, and is hard to test, happens at that border,
between the threads of the M3 core, and when power fails.

The repository has no tests. Its documentation is the comments of its headers
(Chinese), and the README describes only the build. The specifications are
therefore translated from the code; where a comment promises something, the
property that states the promise quotes it.

## 1. The parts of the system

| Part (sources) | State it keeps | Operations | Interacts with |
|---|---|---|---|
| **Inter-core rings** `DRIVERS/IpcMsg` | per channel two rings in shared memory (`RingBuf_send`, `RingBuf_rcv`), local copies of their positions, a write mutex, a read semaphore, `g_icm_flag` | `IpcMsg_Write`, `IpcMsg_Read`, `IpcInthandler`, `Ipc_SetInt` | the DSP through memory and interrupts; the idle hook |
| **Core messages** `SYSAPP/shm_msg` | the callbacks registered per message, the pending synchronous request (`g_shmmsg_mux`, `g_sync_shm_msg_id`, `g_shmmsg_buf`), buffers handed over without copying | `send_shm_msg`, `send_shm_msg_sync`, `rcv_shm_msg_process`, `zero_cp_transfer`, `shmmsg_write_channel` | rings below, every service above |
| **NV and its flash translation layer** `SYSAPP/flash`, `SYSAPP/system/src/oss_nv.c` | the ring of factory sectors, the RAM copies `g_softap_fac_nv` and `g_softap_var_nv` | `xy_ftl_read/write/erase`, `nv_restore`, `SAVE_FAC_PARAM`, `save_factory_nv`, `reboot_nv` | all parts that keep parameters; the DSP, which does erase and program while both cores run |
| **Dual-core flash handshake** `SYSAPP/flash/src/flash_adapt.c` | `FLASH_DYN_SYNC`, `FLASH_NOTICE_FLAG`, the flash channel | `send_flash_msg`, `flash_operate_ext`, `diffcore_flashwrt_msg_proc` | rings, the DSP |
| **Low power** `SYSAPP/lpm` | `g_standby_dsp_ready`, `g_deepsleep_dsp_ready`, the critical nesting | `vApplicationIdleHook`, `LPM_*_Process`, `lpm_msg_process` | work lock, RTC events, rings, NV |
| **RTC events** `SYSAPP/rtc_tmr` | the table `ap_rtc_event_arry` (kept over deep sleep), one hardware alarm shared by two cores, a recursive mutex, a semaphore | `rtc_event_add_by_*`, `rtc_event_delete*`, `rtc_event_proc`, `rtc_alarm_reset`, `restore_RTC_list` | low power, cloud clients |
| **Work lock** `SYSAPP/at_cmd/src/at_worklock.c` | lock counters, `HAVE_FREE_LOCK`, the delay-lock timer | `increase_worklock`, `decrease_worklock`, `do_unlock_all`, `AT+WORKLOCK` | low power, the DSP |
| **AT controller** `SYSAPP/at_ctrl` | the list of contexts with their states, two queues, the retransmission bound | `at_ctl`, `send_msg_2_atctl`, `forward_req_at_proc`, `at_ReqAndRsp_to_ps`, `register_*` | UART, the DSP, all AT commands |
| **AT UART and pass-through** `SYSAPP/at_uart`, `SYSAPP/system/src/xy_passthrough.c` | receive FIFO, baud-rate detection, mode of the stream | `AT_uart_rx_task`, `xy_enterPassthroughMode` | AT controller |
| **DSP power** `SYSAPP/system/src/dsp_process.c`, `xy_proxy.c` | `DSP_LPM_STATE`, `PS_START_SYNC`, the load mutex, the proxy queue | `dynamic_load_up_dsp`, `shut_down_dsp_core`, `shut_down_dspcore_process` | rings, low power |
| **Asynchronous sockets** `APPLIB/xy_async_socket`, not compiled (`XY_ASYNC_SOCKET_SUPPORT=n` in `feature.mk`) | the table `xy_socket_list`, its mutex, a queue of two events | `xy_socket_create/close/...`, `xy_async_socket_api_event`, `skt_proc_thread` | lwIP, applications |
| **AT sockets** `APPLIB/at_socket` | the table `sock_ctx` of contexts, the list `sn_info` of what was sent and has no outcome, `at_rcv_thread_id`, the sockets saved over deep sleep | `AT+QIOPEN`, `QISEND`, `QICLOSE`, the threads `sck_open` and `sck_rcv`, acknowledgements, `restore_udp_context_thread` | lwIP, AT controller, low power |
| **Socket proxy** `SYSAPP/sock_proxy` | socket contexts opened for the DSP | request handlers | rings, lwIP |
| **Firmware update** `APPLIB/xy_fota`, `APPLIB/abup` | progress and CRC of a downloaded image | write, check, restart | flash |
| **Cloud and protocol clients** `APPLIB/cloud`, `mqtt`, `http`, `libcoap`, `dm`, `ping` | session state of each client | AT handlers and client threads | sockets, RTC events, NV |
| **Diagnostics** `SYSAPP/diag_ctrl` | log queues, heap and memory dumps | log formatting and sending | the log ring |
| Vendored code (mbedTLS, lwIP, littlefs, cJSON, AgentTiny, ciscore, MQTTPacket, FreeRTOS, driver library) | | | used, not specified |

### What is hard here, and what makes each part correct

* *Rings.* Each side decides on a copy of the positions while the other side
  moves them, words are stored before they are published, and the interrupt is
  suppressed by a flag that the reader clears too late. Correct means: what goes
  in comes out, whole, once, in order; nothing unread is overwritten; nobody
  sleeps over a message.
* *NV.* Power can fail in every erase and program, the voltage can forbid both,
  two threads can save at once, and a sector can carry a sound head over a torn
  payload. Correct means: a save is atomic and durable, other parameters stay as
  they are, the newest intact copy is found, start-up terminates.
* *Core messages.* A synchronous request can meet the response of an earlier
  one; a full ring makes senders wait, and each core may wait for the other;
  buffers change owner without being copied. Correct means: every buffer has one
  owner, an answer reaches who asked, and whoever empties a ring waits for nobody but in
  a flood that the queues cannot hold.
* *RTC events.* One alarm serves all events; every insert, delete and expiry must
  leave it armed for the earliest, and it must not be set so late that it is
  missed.
* *Work lock and low power.* A wake-up cause between the check and the sleep
  must not be lost, and the locks of several users share one flag.
* *AT controller, proxies.* Contexts released while answers are under way, two
  threads that test and set a mark without a lock, timers that race late answers.
* *AT sockets.* A table of pointers that six threads search, fill and clear
  without a common lock; a thread that ends itself when it sees no work. Correct
  means: no descriptor is leaked or used twice, no assertion fails, every sent sequence
  gets its outcome, a socket keeps a thread that looks at it. The code achieves the last
  but for one race, and does not achieve at all that nobody uses a freed context.

## 2. Modules

| Module | Models | Kind |
|---|---|---|
| `RingBuf` | positions, room, wrap-around and layout of one ring (`ipcmsg_ringbuf.c`) | operators |
| `IpcChannel` | a queue of messages | abstract specification |
| `IpcMsgWrite` | `IpcMsg_Write` by several threads, the DSP draining the ring | component |
| `IpcMsgRead` | `IpcMsg_Read`, `IpcInthandler`, the idle hook and WFI, the DSP writing | component |
| `NvStore` | parameters that are saved atomically and durably | abstract specification |
| `NvFtl` | the factory sectors, `xy_ftl_read/write`, low voltage, power loss | component |
| `RtcTimer` | the table of RTC events, its one alarm, `rtc_tmr`, WFI and deep sleep as the alarm sees them | component |
| `WorkLock` | work locks, the delay lock and its timer, `AT+WORKLOCK`, RAI, what the DSP is told | component |
| `AtCtl` | a command of the MCU through UART thread, `at_ctl`, `xy_proxy` and protocol stack to its result | component |
| `LowPower` | the idle hook: deep sleep, standby, WFI; the DSP's word on its sleep; loading and shutting down the DSP | component |
| `AtSocket` | the sockets of AT+QIOPEN, QISEND, QICLOSE: AT handlers, `sck_open`, `sck_rcv`, pass-through, acknowledgements, deep sleep | component |
| `CoreMsg` | messages above the rings: ownership of buffers, full rings and queues, the synchronous request | component |
| `IpcMsg_proofs` | lemmas on the operators of `RingBuf`, theorems of `IpcMsgWrite` and `IpcMsgRead` | proofs |
| `NvFtl_proofs`, `RtcTimer_proofs`, `WorkLock_proofs`, `LowPower_proofs`, `AtSocket_proofs`, `CoreMsg_proofs`, `AtCtl_proofs` | theorems of the specifications of that name | proofs |
| `MC...` | constants for TLC | model checking |

`IpcMsgWrite` and `IpcMsgRead` are the two directions of one channel; each
contains the DSP as the other party. `LowPower` puts the others together from the
side of the idle hook: it has `HAVE_FREE_LOCK` of `WorkLock`, the command in
progress of `AtCtl` (`at_deepsleep_Check`), unread messages of the rings and one
event of `RtcTimer`, each reduced to what the hook asks for. `IpcMsgRead` and
`RtcTimer` contain the idle hook too, as far as their own state is concerned.
`CoreMsg` stands on the rings, which are bounded sequences there, and puts the
reader, `at_ctl`, `xy_proxy`, the stacks and applications together, as far as they
wait for each other; what `at_ctl` and `xy_proxy` decide is in `AtCtl`.

### The rings

`RingBuf` works in words: one word is `sizeof(T_IpcMsg_Head)` bytes. A message
is a model value with a length in words; its words carry the message and their
index, so that a torn or mixed message is visible. `IpcMsgWrite` has one action
per access of shared memory: `Lock`, `Snapshot` (the copy of the positions and
the decision on room), `WriteHead`, `WriteBody`, `Publish`, `Ipc_SetInt`,
`Unlock`. The DSP runs the mirror image of `IpcMsg_Read`; its actions are
external. `IpcMsgRead` has one action per step of the reader, the interrupt
handler, `icm_buf_check` in the idle hook and again with interrupts masked, and
WFI. The window between the check for an empty ring and `g_icm_flag = 0`
(`ipcmsg_drv.c:78-80`), in which an interrupt wakes nobody, is in the model.

One proof module has both directions; the definitions of `IpcMsgRead` therefore carry
the prefix `Rcv` or `rcv_` where `IpcMsgWrite` has one of the same name.

Both refine `IpcChannel` under the mapping `queue <- Contents(positions, mem)`.

### The NV region

A sector is a record of magic word, write number, checksum and parameters. The
scan, the load, the erase after a bad checksum, the merge, the voltage check,
the erase and the programming are actions; power may fail between any two and
inside an erase or a program, with the outcomes `TornErase` and `TornProgram`.
Where `TornTails` allows it, a program may also end with head and write number
written and the payload not; `nv_ftl` has behaviours of both kinds. `DualCore` says whether the DSP runs: then scheduling
stays locked over erase and program (`xy_flash.h:17`), otherwise the two are
separate critical sections. `NvFtl` refines `NvStore` under the mapping
`store <- Recoverable(flash)`: what the newest intact sector holds, or the
default if there is none. One step may depart from the store, also where payloads are torn:
`nv_restore` takes the default although an intact copy is left (`ReadMisses`, run
`nv_stale_max`).

### RTC events

`event` is `ap_rtc_event_arry`, a time per slot, 0 for a free one; `alarm` is the
alarm register, in ticks of 10 ms; `now` the clock in ms. `Add` computes the time
before it takes the recursive mutex (`Insert`), as `rtc_event_add_by_offset` does;
`Delete` resets the alarm only if the event was the next. `Reset` stands for the
`rtc_timer_reset` that follows under the mutex. The thread `rtc_tmr` wakes on the
semaphore (`RtcWakes`), takes the mutex, and expires one event after the other
(`RtcExpires`), each with its callback, which inserts and deletes events itself
(`RtcCallback`), may block in between, with the mutex, and ends (`RtcReturns`).
`SetAlarm` is `rtc_alarm_reset` with its comparison of packed calendar times (`Packed`);
the clock may advance by a ms between the comparison and the write of the register.
The alarm fires when the clock becomes equal to it, never afterwards.

The table is changed without the mutex in two places, and both are in the model.
`IdleRuns` asks only that no thread is ready: while a callback is blocked the idle hook
inserts and deletes its slot (`LPM_Wfi_Process`, `WfiEnds`), though `rtc_tmr` holds the
mutex. And AT+OFFTIME after a power loss either sets a new clock (`rtc_timer_reset`) or,
with an offset of 0 or -1, clears the memory kept over deep sleep and with it the table
(`at_OFFTIME_clears`, `at_system_cmd.c:682`), before it forges the interrupt (`Forge`).

`Boot` sets the alarm for the next event. `restore_RTC_list` (`rtc_tmr.c:186-189`) does so
only when the wake-up was neither the clock's nor a pin's, but `HardWare_Init_AfterNV`
(`sys_init.c:206`, `296`) calls `rtc_event_refresh` at every start-up. `Handled` names the two
cases in which an event is not handled: an alarm for the first tick of a second that
was set too late (`Missed`), and a core that went to sleep while a callback was blocked, before the
alarm was set for what the table then held (`AsleepInCallback`).

### Work lock

`num` is `lock_head[type].num`, `hold` what each user has asked for and not given
back (the promise is made to the users). What happens under `lock_mux` is one
step, up to the call of the timer (`timer_call`): between `osTimerIsRunning` and
`osTimerStop` the timer can expire, because the timer task has the top priority.
`cmdq` is the command queue of FreeRTOS timers. `dspLock` is what the DSP
believes, `told` whether it has been sent anything since it was loaded.
`send_shm_msg` does nothing while the DSP is not loaded.

### AT controller

`uart` is `uart_ctx`, `nearps` is `nearps_ctx`; `at_q` and `proxy_q` are the two
queues; `pc` and `msg` what `at_ctl` and `xy_proxy` are doing. Both threads have
the same priority and share the contexts without a lock, so an action of theirs
ends where another thread can see the difference: `forward_req_at_proc` is the
six actions of `Forward(t)` (find `nearps_ctx` free, or wait 50 ms, put the
command back, or give up; mark it taken; write to the stack). `AcceptCmd`,
`MarkProcessing` and `SendToCtl` are `single_atcmd_proc` of the UART thread.
`call` is `at_ReqAndRsp_to_ps` inside `xy_proxy` (AT+NV=SET,LOG is its only
caller) with its 30 s timer. `owed` is the set of commands accepted and not yet
answered; it has no counterpart in the code and only the properties read it.

### Low power

`idle` is the program counter of the idle task. In `Threads` interrupts are
enabled, and an interrupt or a ready thread comes first (`Pending`); in `Critical`
the section of `lpm_EnterCritical` masks them: no thread runs, but the DSP and the
clock do, and `utc` and `ipc` become pending. The hook is `vApplicationIdleHook`,
`ShutdownCheck`, `PowerOff`, `Choose`; deep sleep is `DeepCheck`, `TimeEnough`,
`Mask`, `Save`, `Verify` (the three tests of `save_nv_in_deepsleep`),
`FallsAsleep` or `FallsThrough`. Standby and WFI are reduced to what they change:
the slot `RTC_TIMER_LPM`, the mask of the DSP's wake-up (`0xA0110002`) and
`g_standby_dsp_ready`. `Hooks` stands for the user's hooks and the settings, which
may change their mind at any time, since they look at pins.

The DSP is external. Without work it decides on a sleep, tells it
(`lpm_msg_process` handles it) and, a little later, writes `DSP_LPM_STATE`; the
order of the two is left open, as nothing in the sources fixes it. It wakes when
its time comes or when it is poked, and writes that it is alive only after a
while. This is the window between the checks of the M3 and its WFI. One
assumption on time is made (`DspDue`): the few instructions from `lpm_func.c:1533`,
where the DSP's time is at least `AP_DEEPSLEEP_MIN` ms ahead, to the mask at
`1485` take less than that.

### AT sockets

`table` is `sock_ctx`, `ctx` the heap of contexts, `nodes` is `sn_info`, `conn` what
lwIP knows of a descriptor. Each thread has a program counter, and a step ends
where another thread can see the difference: `open` is the thread `sck_open` of
each AT+QIOPEN (choose a slot, `socket`, `connect`, fill the slot, look for a receive
thread, create one, report); `rcv` are the receive threads in their loop of scan,
`select`, serve, delete and exit; `at` is the handler of AT+QISEND between the call of
`send` and the mark of the sequence, pass-through mode, or the thread that restores
the sockets after deep sleep; `ack` holds the two handlers of outcomes between
looking a slot up and using it. Acknowledgements, resets, loss of the PDP context,
data and the loss of power are external.

A socket is deleted in three steps: its descriptor is closed (`DeleteBegins`), its nodes
leave `sn_info` (`RcvDrops`), the context is freed and the slot becomes NULL
(`RcvDelete`). Freeing and clearing are one step, although `xy_free` and `sock_ctx[idx] = NULL`
(`at_socket_context.c:260-261`) are two that a thread without the mutex could tell apart:
`xy_free` leaves the content in place, and a block handed out again in that
moment is not in the model. One other step relies on the compiler. The receive thread looks at `quit`
twice in a round, to delete (`at_socket_rcv.c:33`) and to add to the sets (`49`); raised
in between, the flag would leave the socket out of both, and the last socket without a
thread. The field is not volatile and nothing is called in between, so that `-O2 -Os`
(`config.mk:32`) loads it once: `RcvScan` tests it once. Whoever makes the field volatile,
or calls something there, has to model it twice.

`OpenReport` reports first and frees the context afterwards, in one step, as nobody else
has its address. The guards of `DeepSleep` are that the threads of the module wait: the
idle task runs only then. An assertion that fails, and an access through NULL or to freed
memory (`broken`), ends in a reset of the chip (`ChipReset`).

The code is right only in an environment that it does not enforce; the assumptions
are named in the header of `AtSocket`, and a run says in `Env` which it makes. What
TLC shows without one of them, the others being made:

| Without | Happens |
|---|---|
| `one_open` | two `sck_open` choose one slot (`FdsOwned`) and make a receive thread each (`OneReceiver`); what follows breaks every other property too |
| `resume_first` | a new socket takes the slot of one that is still to be restored (`FdsOwned`, `OneReceiver`, `NoAssertFails`); so does what follows |
| `one_send` | a handler uses the context that the receive thread frees (`broken = "wild"`), and nodes stay behind (`SendingTracked`) |
| `slow_net` | an acknowledgement comes between sending and marking, or between mark and node (`SendingTracked`); the number of a descriptor just closed is used again while the receive thread still has it in the sets of its `select`, so that an exception of the old connection closes the new one (`OnlyOnRequest`); a connection is made while the receive thread is ending, and nobody looks at it (`Removed`) |
| `calm_net` | a reset or the loss of the context frees what the MCU's send works on (`broken = "wild"`, `SendingTracked`) |
| `host_is_ip` | a restoration fails before `socket()` and closes the descriptor of the socket before it (`FdsOwned`, `NoAssertFails`, `OnlyOnRequest`) |

The properties of descriptors, threads and assertions are checked and proved with
`one_open`, `resume_first` and `host_is_ip` only: connections, acknowledgements, resets, losses of
the context, sends and closes may come at any time. `DeafOnlyByRace` says of the race of `slow_net` that it is the only
one. No property says that no freed context is used: it is, as soon as the network does
not wait, and no lock prevents it.

### Core messages

A ring is a sequence of at most `TxCap` or `RxCap` messages. A message names the buffer
that comes with it; freeing a buffer of the other core is a message too (`ICM_FREE`).
`reader` is the thread `inter_core_msg` with the message it works on: what lies in the
memory of the DSP (`Dram`) is copied and given back first, what lies in the shared
pool is used in place and given back afterwards, by the reader (`Give`, or `Hand` to
`xy_proxy` when tx is full), by a stack (`StackFrees`) or by the thread that waited for
the answer (`SyncEnd`). A packet is kept by the stack, or freed by the reader itself on one
of the error paths of `ps_netif_api.c` (no interface 486, an error of the input 501, a packet
dropped for a test 530, one that is not IP 544): `DeliverData` has both. `atctl` and `proxy` are reduced to where a command goes;
which way it takes is a free choice here. `SyncBegin` to `SyncEnd` are the steps of
`send_shm_msg_sync`, which nothing in the tree calls: it is an interface for
applications. The DSP is external and the worst case: its own reader waits for room in
rx before it gives a buffer back.

## 3. Runs

Passing runs. All bounds are constants or, for the clocks, `Horizon`.

| Run | Instance | States | What it shows |
|---|---|---|---|
| `ipc_write` | 2 threads, 2 messages of 1 and 2 cache lines, ring of 6 words | 19,974 | The ring is a queue (refinement); no step changes an unread word; the DSP does not sleep over a message; every call returns |
| `ipc_read` | 2 messages, ring of 6 words | 24,150 | What is read is what was published, whole, in order, once; WFI never over a message; every message is read, whenever its interrupt came |
| `nv_ftl` | 1 saving thread, 3 sectors, write numbers to 4, 2 parameters of 2 values, torn payloads or none | 32,504 | Saves are atomic and durable under power loss and low voltage, torn payloads included, except that start-up may miss the copies behind one (`ReadMisses`); the last intact copy survives every step; damaged data is never served, and never copied into a sector that then counts as intact; without torn payloads, every call returns once power and voltage are stable |
| `rtc` | 1 thread, callbacks that may block, 1 event slot and the idle hook's, tick of 3 ms, 5 ms of clock across the end of a second | 243,814 | Whenever nobody is at work an alarm stands ahead of the next event, or at the first tick of a second; "too near" agrees with "expired"; every event that falls due is handled, but for the two cases named in `Handled` |
| `work_lock` | 1 application, 1 platform thread, the MCU, up to 2 locks each | 16,324 | Deep sleep is allowed only without locks; users keep the chip awake; the DSP knows of the locks that concern it |
| `work_lock_live` | the operator's version with a cloud client, `xy_unlock_all`, a DSP that is loaded and shut down, 1 lock each | 255,520 | Whatever releases, restarts, expiries and `xy_unlock_all` do, the delay lock ends |
| `at_ctl` | an MCU with one command of every kind, or with slow ones and a critical one; 2 retransmissions | 26,884 | The stack has one at a time, results go where the command came from, "busy" is not left behind, every command is answered |
| `low_power` | a DSP that is loaded on demand, 2 unread messages | 2,542,328 | The chip goes off only without lock, command in progress or unread message, and after the variables of the DSP's present sleep were written; neither core waits for the other to speak |
| `at_sock_table` | 2 slots, 2 descriptors, 2 receive threads, UDP, over any network; the MCU opens one at a time and resumes first, hosts are addresses | 273,136 | Sockets opened, closed, restored and lost at any moment: no descriptor is leaked or used by two, never a second receive thread, no assertion fails; sockets are left without a thread by one race only; table, contexts and nodes hold what their types say |
| `at_sock_send` | 2 slots, 1 receive thread, TCP and UDP, one sequence, all six assumptions | 717,078 | A sequence is SENDING exactly while it has a node; a socket closes only when it should, and then surely |
| `core_msgs` | rings of 2 and 1, queues of 2 and 1, one buffer of each kind of the DSP and 2 of this core, 2 requesters, 1 command | 3,681,399 | Every buffer has one owner; an answer reaches who asked; the reader waits only while more is under way than a queue has places; no deadlock |

*Why the bounds are enough.* A ring of 6 words and messages of 2 and 4 wraps
around, has to be full at times, and has messages split by the end; two writers
meet at the mutex. Three sectors let the newest, an older and an empty one
coexist and the write position come round once within write numbers up to 4. The second of the model has 1002
ms, a tick 3 ms: the margin of `rtc_tmr.c:325` is a tick and one ms, and
the clock of `rtc` starts 2 ms before the end of a second and ends 3 ms after it. Two locks per user
distinguish the first, a further and the last. Two retransmissions distinguish
retrying from giving up (the code has 40). Two unread messages let the DSP's word on
one sleep wait behind data, or be followed by that on the next; everything else in
`LowPower` is a flag.
Two sockets are enough to tell a slot from its neighbour and one receiver from
another; `at_sock_send` has one receive thread, since `at_sock_table` and the theorem
show that there are never two. `MaxSn` bounds what is sent on a connection. With 0 every send of
`at_sock_table` fails, so that the assertion of `add_sninfo_node` is not reached there; with 1 the
run would have more than ten million states. That this assertion holds as well is the
theorem `NoAssertionFails`, for every `MaxSn`. Of the
rings of `CoreMsg`, rx holds one message, so that
it is full whenever the reader stops; tx two, so that it is full with both a command and
a buffer in it. The queues are shorter than the code's 30 (`xy_proxy.c:130`) and 50, and
shorter than what can be under way, so that the reader meets full ones: with `ProxyCap` 2
when both buffers of the DSP and a command are on their way, with `AtCap` 1 when a line
and a command are. `Burst` bounds the lines of the stack that `at_ctl` is behind with
and `Cmds` the commands under way; with one command the system does not stop, with more
it does (`MCCoreMsgFull`). The theorem bounds none of them.

*Fairness.* Each is what the scheduler, the clock or the hardware does:
`IpcMsgWrite`: a thread that can run does (weak), the mutex is handed on (strong
on `Lock`), the DSP drains. `IpcMsgRead`: reader, handler and idle hook run, an
interrupt ends WFI, the DSP finishes what it began; nothing says it ever sends
again. `NvFtl`: start-up runs alone, a saving thread gets the core; power and
voltage are assumed stable in the premise of `CallsReturn` only. `RtcTimer`:
strong on taking the mutex and on the return of a callback, which may call and block time and again
but not for ever, weak on everything else, the clock and the alarm's interrupt. `WorkLock`: ready threads run, strong on steps that compete for
`lock_mux`, timers expire. `AtCtl`: each thread takes its turn, the stack
answers, the 30 s timer expires, the MCU ends a pass-through that it began.
`AtSocket`: the receive threads, the threads `sck_open` and the one that restores run;
nothing is assumed of the MCU, the network or the power. `CoreMsg` (`MCCoreMsgLive`):
the reader and the DSP's reader run (weak), and who waits for a place in a ring gets
it in the end if there is one time and again (strong).
`LowPower` has none: that the chip sleeps at last does not follow from fairness of
the actions, because the M3 may try deep sleep each time just while the DSP is
deciding, refuse it and poke the DSP; the code leaves it to the periods of the two,
which are not in the model. `DeepSleepKnown` and `NoIdleStandby` state what it does
guarantee, that neither core is left waiting for a word of the other.

*Deadlock* is not checked in `RtcTimer` (the clock ends at `Horizon`), `WorkLock`,
`LowPower` and `AtCtl` (an assertion stops the system; an MCU whose commands are all
answered may be silent). It is checked in all others.

## 4. Where the code departs from its comments

| Run | Property | What TLC shows |
|---|---|---|
| `nv_stale_max` | `DefaultIfNone` | A power loss leaves the newest sector with head and write number but a wrong checksum. `xy_choose_valid_ftl` erases it and scans again with the old `max_writenum`: the intact older copy is not "newer" and the factory default is used. `DefaultOnlyIfNone`, which `nv_ftl` checks, leaves torn payloads out. |

Further configurations in which TLC shows a promise of a comment broken. They are
kept for whoever changes the code:

| Configuration | Property | What happens |
|---|---|---|
| `MCNvFtlLowVolt` | `CallsReturn` | The newest sector has a wrong checksum and the voltage is low: the erase is refused, its result ignored (`xy_flash.c:290`), and the scan chooses the same sector for ever. At start-up the threshold is read from a block that `malloc` has just returned (`oss_nv.c:205-217`), so this can happen at any voltage |
| `MCNvFtlLost` | `OthersKept` | Two threads save different parameters with `SAVE_FAC_PARAM`; the copy in RAM and the write are not one step, and one save undoes the other. With the DSP running, as there, `NoJunk` still holds. On one core it need not: between the scan and the load of one thread the other can erase and begin to program the sector, and a save without checksum takes over what it finds |
| `MCRtcTimerCarry` | `Armed` | An event in the first tick of the next second, less than 11 ms ahead, is not recognised as too near, because the packed time has no carry (`rtc_tmr.c:325`); its alarm can be passed before it is written |
| `MCAtCtlAssert` | `NoAssert` | A critical command lets AT+NV=SET,LOG in while the stack is at work; its request is given up, the timer answers "timeout", and `get_req_to_dsp` asserts |
| `MCWorkLockUnlockAll` | `UsersKeepAwake` | `xy_unlock_all` (`at_worklock.c:354`) releases the locks of everybody, and users that pair their locks lose theirs |
| `MCWorkLockOperator` | `UsersKeepAwake` | MCU and cloud client share the count of `LOCK_EXT`; the one `AT+WORKLOCK=1` that is taken for the lock of the first command (`:199`, `:322`) may be the second user's, and the first release frees both |
| `MCWorkLockDynamic` | `DspKnowsOfLock` | A lock taken while the DSP is not loaded is not told (`:220`) and leaves `user_lock_state` alone; a DSP that is loaded afterwards does not learn of it |
| `MCWorkLockDelay` (`-continue`) | `DelayKeepsAwake`, `NoAssert` | The timer expires between the question whether it runs (`:159`) and its restart (`:163`): the callback gives the delay lock back, and the restarted timer holds nothing. Or it expires between the question at `:176` and `osTimerStop` (`:178`), which asserts (`osal.c:1619`) |
| `MCWorkLockRai` | `RaiSent` | A release while `send_rai_proxy` is ending (`:120`) starts no new one (`:58`) |
| `MCAtCtlSleep` | `SleepPromise` | The answer of a critical command clears the state of the slow command it overtook: deep sleep is allowed while that is owed |
| `MCAtCtlRace` | `OneAtPs`, `NoneLost` | After a critical command both threads forward at once and both find `nearps_ctx` free; the answer of the first clears the shared mark, so that the result of the second has no context to go to |
| `MCAtCtlContext` | `RightContext` | The answer to a request of `xy_proxy` whose 30 s were over goes to the UART, to which `nearps_ctx` belongs by then, as the answer of another command |
| `MCLowPowerAssert` | `NoAssert` | The release of the last lock pokes a sleeping DSP (`at_worklock.c:286`) and allows deep sleep at once; the M3 begins to write for it, and the DSP becomes alive before the last of the three tests (`lpm_func.c:1498`) |
| `MCLowPowerDrx` | `DrxWakeupSet` | A hook that forbids deep sleep for a while sends the idle hook to WFI, which takes the slot `RTC_TIMER_LPM` over (`lpm_func.c:1798`) and deletes it (`1809`); the next deep sleep is without the wake-up of which the comment at `351` says that it must be set |
| `MCCoreMsgFull` | deadlock | The reader waits for a place in the queue of `at_ctl`, `at_ctl` for a place in tx, the DSP for a place in rx, which only the reader empties. The comment at `inter_core_msg.c:87` wants the reader never to wait; it does not wait for tx, but for full queues it does. `ReaderWaitsInFlood`, which the run checks as well, holds |

`MCCoreMsgLive` passes: under `FairSpec` the DSP gets every buffer back (`Freed`; 254
thousand states, no commands of the MCU, one requester). `MCRtcTimer` passes (2.15 million
states, ten ms of clock): across the end of a second only an alarm for the first tick can
be set too late (`ArmedWithinSecond`).

## 5. What is proved

| Module | Theorem | For every |
|---|---|---|
| `IpcMsg_proofs` | sending: `TypeCorrect`, `UnreadIsUntouched`, `EmptyAccepts`, `NeverAsleep`, `SendImplements` (refinement of `IpcChannel`); receiving: `RcvTypeCorrect`, `ReadImplements` (refinement of `IpcChannel`), `NeverSleepsOver` | ring size, cache line, set of messages, number of threads |
| `NvFtl_proofs` | `TypeCorrect`; `JunkNeverServed` (with one saving thread, or any number while the DSP runs); while the DSP runs `OnlyFirstSavesLose`; with one saving thread: `CopyNeverLost`, `DefaultIsLastResort`, `FtlImplementsStore` (refinement of `NvStore`) | number of sectors and write numbers, set of parameters and values, torn payloads or none, power and voltage failing at any step |
| `RtcTimer_proofs` | `TypeCorrect`, `NearCounts`, `ArmedUpToSecond` | slots, threads, offsets, resolution of the alarm, callbacks that block, over the ends of seconds |
| `WorkLock_proofs` | `TypeCorrect`, `NoLockWhenFree`, `DspKnowsLock` (for a DSP that is always loaded), `DspKnowsRelease`, `LastReleaseAllows`, `UsersStayAwake` (outside the operator's version, without `xy_unlock_all`) | set of users, bounds, version of the firmware |
| `LowPower_proofs` | `TypeCorrect`, `NoMessageSleptOver`, `NothingUnsaved`, `NoLockSleptOver`, `SleepIsKnown`, `NoLingering` | mode of work, number of messages on the way |
| `AtSocket_proofs` | `TypeCorrect` (with no assumption); `NeverTwoReceivers` (with `one_open`, `resume_first`); `DescriptorsOwned`, `NoAssertionFails`, `SocketsDeafOnlyByRace` (and `host_is_ip`); `ClosedOnRequest` (and `slow_net`) | number of slots, descriptors, contexts, threads and sequences |
| `AtCtl_proofs` | `TypeCorrect`, `NoSleepWhileOwed`; without critical commands `BusyIsOwed`, `OneAtStack`, `NothingLost`, `ResultsReturn` | set and kinds of commands, bound of retransmissions, whether the DSP is off, however late the stack answers |
| `CoreMsg_proofs` | `TypeCorrect`, `AnswerReachesAsker`, `OneOwner`, `CommandsCounted`, `ReaderWaitsOnlyInFlood` | number of buffers and requesters, length of the rings and queues, number of commands and of lines per command |

*Assumptions.* `RingBuf`: the ring and the cache line have positive sizes, of
which neither need divide the other; every message has a positive length, of any
size (one that does not fit is refused); `NoMsg` is no message. `IpcMsgWrite`:
`NoThread` is no thread. `NvFtl`: two sectors at least, a default for every parameter,
junk that is no value, and parameters of the DSP as well as of the M3 core. `RtcTimer`: the slots are finitely many, a tick divides the second and is
shorter by more than one ms, a packed time has room for a second, and the idle hook
sleeps for more than a tick (`AP_TICKLESS_MIN`). `WorkLock`: the kinds of users are disjoint and the
bounds natural numbers. `LowPower`: `work_mode` is 0 or 1, and there is room for one
message. `AtSocket`: at least one slot and one descriptor, types are TCP and UDP. `AtCtl`: the request and the junk are
no commands of the MCU, and the bound of retransmissions is a natural number. `CoreMsg`: the kinds of
buffers are disjoint. TLC evaluates all of them in the runs.

*Rings.* The inductive invariant is `TypeOK /\ MutexOK /\ WriterOK /\ Framed /\
ReaderOK` (`IInv` in `IpcMsg_proofs`). `MutexOK`: whoever is inside `IpcMsg_Write` owns the mutex, so that
there is one writer. `WriterOK`: the room that was found on the copy of the
positions is still there on the shared ones, because the DSP in the meantime can
only give room back; this is the point at which the code relies on a stale value,
and why no properties of the shared positions alone are inductive. `Framed`: there
is a set of positions, the heads, such that what is unread is a sequence of whole
messages; without it nothing bounds what the DSP reads. `ReaderOK`: how far
the DSP is within the oldest message. The first lemmas contain the arithmetic:
how the distance between two positions changes when one moves (`DistGrows`,
`RemainDist`), and which words a store touches (`StoredWords`).

That the ring is a queue follows from the heads. What is unread as a sequence of
messages is a recursive function on the positions (`Contents`). `HeadsAt` names a set of
heads for it, `HeadsInduction` carries a fact from one head to the one before, for each is
farther from `Write_Pos`, and so `ContentsPut` and `ContentsKept` say what `Contents`
becomes. From there `PublishMoves` (one message is appended), `ReleaseTakes` (the
oldest goes) and `OthersKeep` (nothing changes) are the three steps of the queue. In the
receiving direction `RcvIInv` is the mirror image: `SenderOK` for the DSP that writes,
and `RcvReaderOK`, which says that the copy `IpcMsg_Read` goes by may be behind the DSP, but
contains the message it is at.

*NV.* The inductive invariant is `TypeOK /\ FlashOK /\ BootOK /\ ThreadOK /\ RamOK`.
The scan goes by magic word and write number and looks at the checksum only when it has
chosen. The proof therefore follows the sector with the largest write number (`Tops`): it is
intact (`Leads`), or no sector has a number, or, while the core starts after a torn tail, it
is damaged and without it the others are sound (`Hides`). `FlashOK` says this, and that what
passes the checksum is `Genuine`; `BootOK` that start-up settles on the leading sector or
discards the one that hides it; `ThreadOK` that a save starts from the leading sector
(`Based`) and programs another one, with the next number and its own fields replaced in what
can be recovered (`Saved`). For the refinement, a call is pending in the store (`Pend`)
until the programming of its sector ends. A torn payload is not assumed away: the sector it
is in was not intact before the tear and is not afterwards, nor when start-up erases it, and
such a change takes nothing away that can be recovered (`DamagedIgnored`). Only the
start-up that settles for the default is left out of the refinement (`ReadMisses`). The theorems on copies and on the store assume
`OneSaver`: with two saving threads a save is lost (`MCNvFtlLost`), so that there is no
atomic store.

`JunkNeverServed` and `OnlyFirstSavesLose` need less. Several threads may save while the DSP runs, for then each locks
scheduling from its check of the voltage to the end of the program (`CheckVbat`,
`Locks`). A leading sector is of no use there: a thread may write over the newest one, with a
number another has used. `SInv` says instead that the damaged sectors never come out on
top: each save started from an intact sector that is above all damaged ones in the order of
the scan (`Stands`, `Over`), or another save has erased this one and is about to
put an intact one there (`Replaced`). No step of a save damages a sector, only power loss does,
and it takes the system down; what it hits is the sector beside the one the save started from,
so that the others are `Safe` without it, and start-up discards it (`Half`, `BootSafe`).
The same invariant shows how the last copy can be lost: an erase spares the sector its save
started from (`Spared`, `CopyStep`), so that only a save that found none erases the only copy,
when two threads make the first save at once; `OnlyFirstSavesLose` says that there is no other
way. `Highest`, that the scan has something to choose, comes from the well-foundedness of the subsets of
a finite set. On one core erase and program are separate critical sections: a thread can load
a sector that another has erased and not yet programmed, TLC shows `NoJunk` violated, and the
theorem excludes it. TLC checked `SInv` with two threads on two and three sectors
(685 thousand and 1.01 million states) before it was proved.

*RTC events.* The inductive invariant is `TypeOK /\ MutexOK /\ ResetOK /\ SleepOK /\
ArmedOK`. `MutexOK`: whoever is about to
set the alarm has the mutex. `ResetOK`: the table has not changed since it looked for
the next event, unless `rtc_tmr` is yet to look at it (`Busy`), as after AT+OFFTIME has cleared
it. `SleepOK`: in WFI and deep sleep nobody is between a change of the table and that of the
alarm; a blocked callback is not, since what it inserts and deletes sets the alarm before it
blocks. `ArmedOK`: when nobody is at work, the alarm stands `Ahead` of the clock and is no later than the
next event. The work is in the lemmas on packed times, which `rtc_alarm_reset` compares without a carry from
the milliseconds to the second: what is not too near is set ahead of the clock, even if that
advances during the write, unless the alarm is for the first tick of a second
(`FarAhead`, `AlarmSet`). The exception is real (`MCRtcTimerCarry`) and is part of
`ArmedUpToSecond`, for a clock that passes as many seconds as it likes. `NearCounts` needs the types only: it is the
arithmetic of `Near` and `Expired`, for every tick that divides the second.

*Work lock.* The inductive invariant is the type correctness and `LockInv`:
`FreeMeansNone`, what the DSP knows of locks and releases, and that a DSP that is
not loaded dynamically is loaded. The lemmas `IncreaseKeeps`, `DecreaseKeeps` and
`UnlockAllKeeps` treat the three functions that count; every action that calls one
cites its lemma. `UsersStayAwake` needs to know who is counted, not only how many:
`UsersInv` says that the count of a type is the number of locks that its users have
asked for (`CountsMatch`, a cardinality, which `HeldGrows` and `HeldShrinks` follow),
and `McuInv` that the MCU, which may unlock more often than it locks, never holds more
than `LOCK_EXT` counts; until `have_lock_ext` is set, that is the one lock of the first
AT command. `xy_unlock_all` and a cloud client that shares `LOCK_EXT` break either, as
`MCWorkLockUnlockAll` and `MCWorkLockOperator` show, so that the theorem excludes them.

*Low power.* The inductive invariant is `Typed /\ Safe`. No property of the state at
the WFI alone is inductive: the DSP may leave its sleep, work and go to another one
between the last test of `save_nv_in_deepsleep` and the WFI, and the M3 does not
look again. `SameSleep` says why that is safe: a DSP that went through another sleep
has announced it, or was woken by the clock, and either has left an interrupt pending,
which ends the WFI although it is masked. `Announced` and `Quiet` carry what the
checks found across the section; `WordKept` says where the DSP's last word on deep
sleep is, in the flag or last in the ring; `Lingers` says the same of a DSP in
standby and the locks.

*The reader.* `NeverSleepsOverMessage` is inductive: while the core is awake it says
nothing of the ring, the step into WFI looks at the ring with interrupts masked, and
during WFI only the DSP moves, which announces what it publishes.

*AT sockets.* `at_rcv_thread_id` is tested and set in separate steps, so that
`OneReceiver` is not inductive: `RInv` adds that the id belongs to a thread that
exists (`Owned`, `Named`), that whoever is about to create one sees none
(`CreatorSeesNone`), that there is one such thread at a time (`OneWaiting`, from
`one_open`), and that the restoration comes before any of them (`RestoredFirst`).
`FInv` says who has which descriptor between the call
of `socket()` and the slot in the table, and what the receive thread may have left of a
socket that it deletes. That the lowest free slot exists (`LeastIn`) is proved from the
well-foundedness of the subsets of a finite set. `TInv` are the types with the ranges of
what the threads carry over their steps (`Indices`), under no assumption at all. `UInv`
adds that a connection belongs to an open descriptor and is made once, and that the
exceptions a receive thread is still working off are of connections that were reset
(`ExReset`): no other socket can have got the descriptor in the meantime. That is where
`ClosedOnRequest` needs `slow_net`; without it the number of the descriptor is used again.

`SocketsDeafOnlyByRace` does not assume the race of the receive thread's end and a new
connection away, it says that there is no other: each action but those two keeps a watched table watched
(`Kept`), the end of the thread because it has seen an empty set for
`select` (`ExitNoFds`). `NoAssertionFails` is about what the threads look at without a
lock. For `select`: what is in its sets are descriptors of sockets in use, since only the
receive thread itself closes one (`FdsHome`). For the restoration: no two sockets have one
connect id, nor will a socket that is being opened (`IdsDistinct`, `FreshId`), so no two
saved ones have (`SavedDistinct`), and the slot of each is empty until it is its turn
(`Emptied`, `Restored`). For the sender: its context is in the table until it is freed
(`AtHome`). Acknowledgements, resets and the loss of the context may come at any time in both
theorems, and the MCU may send and close as it likes.

*Core messages.* `Types` says what can travel in each ring and what each thread holds
at each step. `SInv` follows the one request: it is in tx, with the DSP, in rx or with
the reader, in one of them only (`OneCopy`), while its thread waits (`OneAsked`), which
then owns mutex and id (`Turn`, `Known`); so an answer never meets a stranger
(`Answered`). `OInv` says that of the eleven places a buffer can be in it is in exactly
one (`Owner`), and that no ring, queue or pair of threads has it twice (`Apart`, `Alone`).
Every action either moves one buffer from one place to another (`Passes`) or none
(`Stays`), and two lemmas say that this keeps `Owner`. `DeliverMsg` needs `SInv` for
that: the answer of the request before must have been taken when the next one comes.
`OwnerPlaces` turns the result into the number of places that `OnePlace` counts.

`ReaderWaitsOnlyInFlood` is a theorem about room: the thread that reads rx hands over to the queues of
`xy_proxy` and `at_ctl`, and waits where one is full. It assumes nothing of their lengths; what
it says is what a full queue means. `QInv` counts what can be in them: a command
is in one queue or with one thread (`CmdsCounted`), a line counts until it is
delivered (`LinesCounted`; `CommandsCounted` states both), and by `OInv` a buffer of the DSP is in the queue of `xy_proxy` once
at most. `QRoom` concludes: a queue without a place holds only such things, one buffer or line is
with the reader besides, so that there are more of them than places; and a reader that has a place in
neither tx nor the queue of `xy_proxy` has a full ring in front of it and that queue full
(`TxFits`). The property names the guards of the reader's steps (`CanGive`, `CanHand`,
`CanDeliver`) and so needs no ENABLED. With the code's 30 and 50 places the reader waits only
in a flood of more than that; what happens then, `MCCoreMsgFull` shows.

*AT controller.* None of the properties is inductive: that two threads do not meet at
`SEND_REQ_NOW`, which they test and set in two steps, follows only from what the whole
system does with one command. The invariant `One` therefore says where that command can
be: nowhere (`Resting`), with the UART thread (`Arriving`), on a way on which it does not
have `nearps_ctx` (`Unlinked`), on one on which it has (`AtStack`), or with `xy_proxy`,
whose own request to the stack is then the one under way (`Calling`); `Only` names who
has something to do. `ReqServed` contains the late answer, which finds `nearps_ctx` free
after the 30 s, and `Clean` the moment between the answer and the release of
`nearps_ctx`, in which the MCU may already send its next command. With a critical command there are two commands,
and `MCAtCtlRace`, `MCAtCtlSleep` and `MCAtCtlContext` show what happens then; this is why
the theorems exclude it. `NoSleepWhileOwed` has the condition in the property.

## 6. What is only model-checked

* Liveness under fairness, of every module: `WriteReturns` and `EveryMessageRead` of the
  rings, `CallsReturn` of `NvFtl`, `Handled` of `RtcTimer`, `DelayEnds` of `WorkLock`, `AllAnswered`
  of `AtCtl`, `Removed` of `AtSocket`, `Freed` of `CoreMsg`. The fairness conditions
  have ENABLED in them, for which TLAPS has no support.
* `SendingTracked` of `AtSocket`. It needs all six assumptions, and a proof under them would say
  less than the run: the interesting cases are those in the table of section 2.
* Of `AtCtl`, what concerns critical commands; of `NvFtl`, two saving threads on one core;
  of `WorkLock`, cloud clients and `xy_unlock_all` where they share a lock.

All other properties of the runs in section 3 are theorems.

## 7. What is not modelled

* Rings: `dsp_suspend`, `Dump_Notice` (after a fatal error); the other channels
  (logs, flash), which use the same code.
* NV: the volatile parameters, kept in RAM that survives sleep; raw writes to user
  flash; the handshake with the DSP appears as its effect, a lock.
* RTC: the finer alarm of WFI with one core (`rtc_alarm_reset_accurate`),
  events of the DSP (`RTC_TIMER_CP_MAX` is 0).
* Work lock: `clear_xy_worklock` (no caller), `xy_fast_power_off`, changes of the
  NV parameters while running.
* AT: commands refused for other reasons than a busy context (they are answered at
  once and change nothing), data after `xdsend`, SMS, URCs and information lines,
  "8007" from the stack (`at_ctl.c:258`), and the list of contexts; full queues are in
  `CoreMsg`.
* AT sockets: the older family of AT+NSOCR (`at_socket_cmd.c`), which works on the same
  table and with the same receive thread: the MCU of the model keeps to AT+QIOPEN;
  the end of a stream (`recv` of 0 bytes); buffering and formatting of
  received data, which is a count here; TLS.
* Core messages: the loop of `g_double_trance` (`ps_netif_api.c:552-557`), a test setting that
  is 0 otherwise, with which one buffer goes to lwIP several times; answers without
  content, which `is_SRAM_addr` would meet as NULL (`inter_core_msg.c:137`); a message that the DSP sends on its own
  account with the id of a request that is waiting, which `rcv_shm_msg_process` would take for the
  answer (`135`); the messages that resume a cloud client once after a boot
  (`PROXY_MSG_RESUME_CDP`, `PROXY_MSG_RESUME_ONENET`); the assertion after 200 tries (`inter_core_msg.c:110`) and the lower
  threads its busy wait keeps from running, logs, the allocation of one core's memory by
  the other, which the source calls unused, and a DSP that is not loaded. Information
  lines and URCs are the messages `rsp` here and are bounded by `Burst`.
* Asynchronous sockets: not compiled. Their thread tcpip waits for the full queue of two
  events with `LOCK_XY_SOCKET` held (`xy_async_socket.c:399`); whoever compiles them should
  begin there.
* Hazards without a property: the two halves of `FLASH_DYN_SYNC` waiting for each other
  (`flash_adapt.c:230`; the DSP's half is not in the sources); WFI deleting the slot of
  the DSP's wake-up (`lpm_func.c:1809`, `MCLowPowerDrx`); the assertion of `osTimerStop`
  (`at_worklock.c:176`, `MCWorkLockDelay`); a RAI request dropped while its thread ends
  (`at_worklock.c:120`, `MCWorkLockRai`); a load request during a pending shutdown
  (`dsp_process.c:276`); a slow DSP holding up the one thread of the socket proxy
  (`socket_proxy.c:436`).
* Low power: AT+FASTOFF (`g_fast_off`), which switches off without asking anybody;
  the endless loop for `offtime`; the clocks, pins, ticks and logs round a sleep; a
  DSP that is told "8007" because it is busy. A time of `lpm_msg_process` that is
  infinite, or the TAU's with `set_tau_rtc` 0, is `forever`. That the DSP publishes a message
  and interrupts in two steps is in `IpcMsgRead`.
* The components listed as not modelled in `PROJECT.json`: sequential code, pure
  input and output, vendored code. Those marked as planned there follow below.

## 8. Plan

In the order of what can go wrong:

1. `DspPower`: `dynamic_load_up_dsp` and `shut_down_dsp_core`; a load request that
   comes while a shutdown is pending (`dsp_process.c:276`) is honoured, no message
   is lost with the switching off (`403-463`).
2. `FlashSync`: the handshake on erase and program while both cores run, as the
   refinement of the lock `NvFtl` assumes. It needs the DSP's half of it.
3. `SockProxy`: one response per request, contexts of the DSP freed when it is
   unloaded.
4. The list of contexts of `at_ctl` (`register_*`) under more than one requester; the
   end of a stream in `AtSocket`.

Theorems planned: the safety of the modules above.
