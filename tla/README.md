# libhdcp in TLA+

libhdcp implements the Host Device Communication Protocol: a host (`appli::Master`) and a
device (`appli::Slave`) exchange packets over USB or TCP. This directory holds TLA+ modules of
the library's core, the TLC instances that check them, and proofs checked by TLAPS. Paths such as
`master.cpp` are relative to `src/src/`.

## 1. The system

| component | state | operations | talks to |
|---|---|---|---|
| **Master** (`master.*`) | state machine init / disconnected / connecting / connected, pending events (`evt_mngr_`), `errc_`, `slave_id_`, `connection_attempts_` | the state handlers and checks in its own thread; `start`, `stop`, `connect`, `async_connect`, `async_disconnect`, `send_command` from the application; `timeout_cb` from the manager's thread | its request manager, transport, application |
| **master::RequestManager** (`master_request.*`) | `requests_` (under `requests_mutex_`), timeout queue, `keepalive_mngt_`, `keepalive_mngt_id_`, `ka_ids_` (under `mutex_id_`), `packet_id_`, `dip_id_` | `send_command`, `send_hip`, `ack_*`, `start_keepalive_management`, `start`/`stop`/`clear`; callbacks `cmd_timeout_cb`, `ka_mngt_timeout_cb`, `ka_timeout_cb`, `dip_timeout_cb` in its own thread | callers' threads, the Master thread, transport |
| **Slave** (`slave.*`) | the same four states, events, `master_id_`, `errc_` | handlers and checks in its thread; `start`, `stop`, `send_data` | its request manager, transport, application |
| **slave::RequestManager** (`slave_request.*`) | timeout queue, `keepalive_mngt_`, `keepalive_id_`, `packet_id_` | `send_dip`, `keepalive`, `send_cmd_ack`, `send_data`, `start`/`stop`; `ka_timeout_cb` in its own thread | the Slave thread, application threads, transport |
| **Transport** (`transport.h`, `tcp_client.*`, `tcp_server.*`, `usb_async.*`) | two bounded queues, open or not, write chain, USB transfers | `read`, `write`, `open`, `close`, `clear_queues`, completion handlers in the I/O thread | sockets, libusb |
| **Packet** (`packet.*`) | a buffer of 2048 bytes | `make_*`, parsing, checksums | everyone |
| **libcommon** (a submodule) | `Thread`, `Statemachine`, `EventMngr`, `TimeoutQueue`, queues | not in the repository | everyone |

How they interact. The application's threads, the thread of the state machine and the thread of
the request manager share the request manager; the manager's thread tells the state machine about
timeouts through `evt_mngr_`, and so does the application about its wishes. Nothing but the two
small mutexes and the queue's own lock orders these threads.

What is hard in it: a timeout collected before an acknowledgement erases it; three threads
that erase and re-add the keep-alive timer; a request that is inserted after its command was
written; events that outlive the session they belong to; exceptions that end the manager's
thread; calls that look at `state()` and act on it later; packet ids that wrap; the transport
closing between `is_open()` and `write()`; completion handlers that meet a `stop()` or a restart; transfers
that complete while they are being cancelled; sessions that reuse the packet ids of the one before. `PROJECT.json` lists these hazards at their lines.

What makes each component correct:

* request manager of the host: a callback at most once, no transmission after it, at most
  1 + `max_retry_` transmissions, every pending request resolved, unambiguous acknowledgements,
  a keep-alive always scheduled, keep-alive timeouts that an acknowledgement can cancel;
* Master: connected only to a device that identified itself, timers only while they are
  wanted, no attempt without a timer, `stop()` and `connect()` return, a timeout or transport error told with the end it caused;
* Slave: a session always watched by a timer, the shown identification never an old one, connected
  only after a keep-alive, a dead host noticed, a restarted host answered;
* `send_data`: every block once and in order, packets as full as they can be and never fuller;
* transports: the packets of a writer leave in order and at most once, the chain of writes does not break,
  something always reads, `stop()` ends every pending operation and returns;
* the protocol: an acknowledgement resolves a command of its own session, a device is connected only if its
  host was, a session only one side is in ends;
* Packet: what is made can be parsed, what does not match is refused.

## 2. Modules

| module | models |
|---|---|
| `TimeoutQueue` | `common::TimeoutQueue` as the callers use it (external): a function from ids to cells |
| `MasterRequest` | `master::RequestManager` and `Master::send_command`, one step per point where another thread can interfere |
| `Master` | `Master` with the manager reduced to its timers |
| `Slave` | `Slave` with its request manager |
| `CommandLife` | abstract: what `Master::send_command` promises the application; `MasterRequest` implements it |
| `Packet` | `Packet`: building, checksums, parsing, as operators |
| `SendData` | one call of `Slave::send_data`, with the Slave thread's acknowledgements beside it; uses `Packet` |
| `Channel` | abstract: what `Transport::write` promises its callers; the three transports implement it |
| `TcpTransport` | what the TCP transports share: `Transport`, the io_context and the socket (external), the threads |
| `TcpClient`, `TcpServer` | `tcp::Client`, `tcp::Server`, both over `TcpTransport` |
| `UsbDevice` | `usb::Device` and its transfers; libusb is external |
| `Hdcp` | Master and Slave over one connection |
| `MasterRequestProofs`, `MasterProofs`, `SlaveProofs`, `SendDataProofs`, `TcpClientProofs`, `TcpServerProofs`, `UsbDeviceProofs`, `HdcpProofs` | theorems and proofs, each about the module it is named after |
| `MCMasterRequest`, `MCMaster`, `MCSlave`, `MCSendData`, `MCTcpClient`, `MCTcpServer`, `MCUsbDevice`, `MCHdcp` | instances for TLC |

Operators named `MUT_...` are wrong variants of the definition that follows them (a dropped guard,
a missing reset). No specification uses them; substituting one for its neighbour must make TLC
report the property it is listed for in `PROJECT.json`.

### TimeoutQueue

A cell has a `kind` (the timer in the queue), `left` (ticks to go) and `due` (a callback that
`run_once` has collected and not yet called). Time is relative to `now_`, so no clock has to be bounded.
`run_once` is split: `Collect` takes everything that is due, then the callbacks run one by one
without the queue's lock; they could not call `add` and `erase` otherwise. Whether `erase` withdraws a
callback that is already collected cannot be seen from the callers: it is the constant
`EraseReachesBatch`, `FALSE` in one run and `TRUE` in the other, and arbitrary in the proofs.

### MasterRequest

`caller[c]` is the position of the thread inside `send_command` for command `c` (timer, reset,
readd, write, insert), `app` the Master thread, `rm` the manager's thread. `requests_mutex_` is held
over several steps only by a retry (`RetryStates`); `ack_command` and the insertion are one step
each. `cmd_timeout_cb` for a missing request throws; `RequestManager::run` has no handler, so the
thread is `dead` until the manager is started again. The request is missing for three reasons (`CmdTimerOwned`): the
`send_command` has not inserted it yet, it threw after `add_repeating`, or the callback was collected before the acknowledgement
erased its timer. A write that throws leaves the transport closed or open: the USB device throws on an open connection too
(full queue, failed submission). `keepalive_mngt_id_` has no initial value: in
`Init` it may be the id of any command's timer. `add` and the assignment of the new id to `keepalive_mngt_id_` are one
step, because nobody can tell which of two such assignments came with which `add`. `now_` is read
by other threads without synchronisation; an error of one tick is not tracked.
`packet_id_` is `std::atomic`, so its increment is one step. `writes`,
`calls`, `failed`, `untimed` and `forgotten` are history variables.

`CommandLife` says what is left when threads, timers and mutexes are forgotten: a command is transmitted
once, refused with an exception or pending, retried while pending at most `MaxRetry` times, and it ends once: answered,
reported as a timeout after all retries, or dropped with its session. `KeepsPromise` is the refinement; `phase`
computes the abstract state from the callbacks made, the set of requests and the position of the call.

### Master

One action per access to the events, the state, the manager or the transport. A wakeup of the
state machine is handler, then the checks of the state in their order; the first one that says
`goto_next_state` wins, and an exception in the handler skips them (`Throw`; `run` stores the
error). The transition handler is part of `Goto`; `told` is the error it gives to `status_cb_`, `threw` says that `errc_` is the
code of an exception since the last transition. A write throws with the transport closed or still open; after a `send_hip`
of the second kind (`hipThrew`) connecting has neither a timer nor a closed transport, and nothing ends it but
`stop()`: `AttemptWatched` and `ConnectReturns` (`Stuck`) name this. Whether a wakeup that throws counts in
`nb_loop_in_current_state()` is decided in libcommon: constant `ThrowCounts`. The peer may send any
packet at any time, so the read queue and `clear_queues` are not state. Timers are untimed: an
armed timer may fire at any moment while the manager's thread runs. `dip` is the timer `dip_id_`
names, `stray` any older one that was overwritten. `EventMngr` is a set of events, and `wait()`
returns when the set is not empty.

### Slave

The same shape. The transport closes and opens by itself, as `tcp::Server` does with the next
connection. `peerGone` is a host that stopped talking without closing. An identification is
abstracted to the host it names (`make_hip` always carries all four blocks). A write of the device throws with the
transport closed or open, as on the host. `SelfCounts` says
whether the transition disconnected -> disconnected restarts the loop counter.

### Packet and SendData

`Packet` is the codec as pure operators named after the functions. A buffer is a sequence of cells; a
field of a header is one cell whatever its width, and a checksum is two. `Verdict` is what the constructor of
`Packet` throws (or "none"), `Copied` what it keeps: it validates the packet at `pos` and copies from the
beginning of the buffer, as the code does.

`SendData` is the loop over the blocks as in `slave_request.cpp` 47-64: a block is its size, `payload` is the run of
blocks from `first` to `next - 1`. `make_data` cuts the number of blocks to 8 bits (`CountMod`) and the
constructor of `Packet` counts them again, so more than 255 small blocks make `send_data` throw
(`invalid_number_of_block`). A failing write leaves the packets before it written. `packet_id_` wraps at `IdMod`, begins a
call with any of `FirstIds`, and is taken by both threads (`TakeId`); `nth` in a taken id is history, its number since the session began. `IdsApart`
says that two packets with one id took it a whole round apart. The codec is checked on
the packets this module is about to write, and on one of each other kind (`OneOfEach`). A block of twelve bytes holds a whole packet
(`Content`), as the data of an application may: when the start of its own packet is lost, `find(sop)` goes on to the one inside and
the constructor accepts it. `DamageRefused` says that this is the only damage of its three kinds (one cell changed, two
neighbours exchanged, the end missing) that can go unseen; the run reaches a state where it does. `Word` is the range of the 16-bit
fields (the ids and the two lengths), `Byte` that of the checksum. `Total` and `Bytes` only state
`PacketsFilled`: the bytes of a run of blocks are a difference of two running totals, a recursive function the provers can follow.

### TcpTransport, TcpClient, TcpServer

The I/O thread executes one completion handler at a time: `ready` is the io_context's queue of handlers, which
survives the end of `run()`. `reads`, `writing` and `accepting` are the outstanding operations; closing the
socket completes them as aborted. The handlers of aborted reads and accepts only log and are left out. `reset` is a
connection the peer has broken, whose `shutdown()` throws: `stop()` then throws (`owner = "threw"`) and the socket stays open.
`close()` is two steps where both threads can be in it, in `stop()` (`StopLooks`, then `StopCloses` at `owner = "shut"`) and at eof (`io =
"closing"`, then `CloseAtEof`): `is_open()`, and `shutdown()` with the rest. Whoever comes second shuts down a closed socket, which
throws (`ShutdownFails`). An accept of the server that fails is only logged and not repeated (`refused`).
`size_approx() > 0` and the `try_dequeue` after it are two steps (`io = "dequeue"`), and
`clear_queues` may take packets out in between. The client and the server differ as their code does: order of flag and
close in `stop()`, what an aborted write resets, which exceptions `run()` survives, and that the server listens
again after eof and reads twice at once after an ill-formed header.

`Channel` has the writers, how many packets each has written, which of them have not left yet (a set: their
numbers order them) and which left last. A packet is `pending` while it is in the write queue, in a handler that
`post()` left in the io_context, or in an outstanding write (`InHand`).

### UsbDevice

`tr[t]` is a transfer's state in libusb: idle, in flight, or ended with its callback still to come. The
callbacks run in the event thread; `stop()` walks through the three pointers, reading each before it cancels what it read,
while the callbacks swap the read transfers. Where the code would go on with a deleted transfer,
a null pointer or a handle that was closed twice, the behaviour is undefined: `crash` says which, and the model stops.
`CrashHasCause` says what can lead to each. A read has no timeout (`timeout_read` is 0), so that branch of `read_cb` is left out.
`ClearQueues` is one `try_dequeue` of `clear_queues`, which `Master` and `Slave` call at the beginning of every connecting and disconnected
(`master.cpp:120`, `slave.cpp:85`), on a device in use too: it may come at any time while the device is up, any number of times, between
`Called` and the `try_dequeue` of `write_cb`, too. It never comes beside `stop()`: `Master::stop` and `Slave::stop` join their threads before they stop the
transport. It is assumed of the users that nobody writes before `clear_queues` was called once on a connection, which `Master` and `Slave` do before
anything else, and that no `write()` spans a stop and a start.

### Hdcp

Both state machines at a coarser grain: what a wakeup does with one packet or one timeout,
the transition it causes and the first handler of the next state included, is one step. The connection delivers in order and loses
anything; `clear_queues` loses what has arrived and what has not left. Every packet carries
the host's session as history, which the code has not: it goes by its state and by `packet_id_`, which restarts with
every session and wraps above `MaxId`. Timers may expire at any time.

Three things are finer, because a session can end, and the next begin, in their middle. The call of `send_command` (`call`) looks at
the state, writes, and inserts its request, which may then be in the next session's set (`overtaken`). The keep-alive of the host is sent when
`kaDue`, which `Tick` sets when `keepalive_interval` has passed, and every command and retry clears: the code erases and re-adds its timer;
`alive` is the manager's thread, which an exception may end (`ManagerDies`). And `first_ka_received` is state: `ReadAliveTooLate`
leaves it behind (`kaLeft`) when a timeout wins over it, and `ConnectLeft` is the handshake it ends without a keep-alive. `confirmed` is
the session of the handshake whose keep-alive connected the device: `served` in the normal case, that of the earlier one here.

## 3. Runs

| run | checks | instance |
|---|---|---|
| `requests_one` | `TypeOK`, `CallbackOnce`, `CmdTimerOwned`, `KaTimersTracked`, `PendingResolved`, `KeepsPromise` | one command, one retry, ids modulo 2, restarts, erase does not reach collected callbacks; 1.5 million states |
| `requests_two` | `PendingHasTimer`, `KeepaliveScheduled`, `AckUnambiguous` | two concurrent commands, symmetric, with one retry each, so that the resets of callers and of a retry cross; 15.7 million states |
| `master_safety` | `StateMeaning` (types, `ConnectedHasDip`, `ManagerFollowsState`, `ErrorHasCause`), `AttemptWatched` | one application thread beside the owner, two attempts; 2.1 million states |
| `master_live` | `StopReturns`, `ConnectReturns`, `DisconnectHonoured` | one attempt; 0.9 million states |
| `slave` | `TimerFollowsSession` (types, `SessionWatched`, `NoTimerWhileDisconnected`), `IdentityIsLatest`, `ConnectedByKeepalive`, `DeadPeerNoticed`, `HipHonoured` | two hosts; 23 thousand states; the other three values of `ThrowCounts` and `SelfCounts` give the same result |
| `send_data` | `TypeOK`, `EveryBlockOnce`, `PacketsFilled`, `HostReads`, `DamageRefused` | every call of up to five blocks of sizes 2, 3, 5, 12, 13 with a limit of 12, ids modulo 4; 0.25 million states |
| `tcp_client` | `WriteChain`, `NeverDeaf` (types, `ReadArmed`, `EndedIsClosed`), `InOrder`, `StopReturns` | one writer of three packets, a queue of one, two starts; 0.2 million states |
| `tcp_server` | `OneWrite`, `Serves` (types, `Reading`, `Listens`), `InOrder`, `StopReturns` | the same with one start and any number of peers; 2.8 million states |
| `usb` | `InStep` (types, `ReadArmed`, `WriteChain`), `CleanStop` (`CrashHasCause`, `StoppedIsDown`), `InOrder`, `StopReturns`, `ErrorCloses` | one writer of four packets, a queue of two, two starts; 1.0 million states |
| `hdcp` | `SessionsAgree` (types, `ConfirmedByHost`), `AckIsOwn`, `HalfOpenEnds` | two sessions, one attempt, two ids, one packet on the way to the device and two on the way back; 0.9 million states |

`InOrder` is the refinement of `Channel`, and `KeepsPromise` that of `CommandLife`.

Two runs end in a counterexample. Each states what a comment or a message of the
repository says, and shows a behaviour of the code that does otherwise:

| run | statement | behaviour |
|---|---|---|
| `stale_ka_timeout` | `application_error.cpp:11` "keepalive timeout" | a `ka_timeout` left over from a session that lost its transport ends the next session, none of whose keep-alives timed out |
| `packet_junk` | `packet.cpp:7` "find start of packet", `packet.cpp:22` "buffer is valid, copy data" | a packet behind other bytes is found and validated at `pos`, but the copy begins at the start of the buffer |

The models also show behaviours that no comment of the repository excludes. The properties name them as
exceptions, so that they are claimed for everything else:

* a command timer without a request, of a `send_command` that threw or is still under way, or one collected before
  the acknowledgement, ends the manager's thread (`CmdTimerOwned`); the keep-alive timers line 94 of `master_request.cpp` forgets (`forgotten`); requests whose timer a restart or
  an uninitialized id took (`untimed`); two resets of the keep-alive timer that leave two of them;
* a `dip_timeout` between `check_dip_timeout` and the next handler starts one attempt more than
  `max_connection_attempts`; a `connection_attempt` left over from `async_connect` makes a later `connect()` fail early;
  the code of an exception is told with the next transition, connected included; a `send_hip` that throws on an open transport leaves an
  attempt that nothing ends (`hipThrew`), and `connect()` waits;
* the device that connects by a keep-alive of the handshake before (`kaLeft`), and a device whose `send_dip`
  threw, which has no timer (`dipThrew`); ids taken in one order by two threads of the device and
  written in the other, for which the host warns of a packet loss;
* TCP: `clear_queues` between `size_approx()` and `try_dequeue` leaves `write_in_progress_` set and
  nothing is written any more (`stalled`); handlers and packets of an earlier start meet the next connection
  (`leftover`); a server whose peer leaves, or comes, in the middle of `stop()` opens again and `join()` waits for the next
  peer (`revived`); a server whose accept failed runs on and hears nobody (`refused`); a broken connection, or one the other thread closes at the
  same time, makes `stop()` throw;
* USB: a transfer that is submitted, or completes, when `cancel_transfers()` has passed it is deleted in flight (`late`), and so is what is left after
  a failed transfer (`failed`); an ill-formed packet replaces the exception of a failed transfer (`lost`); `close()` can
  be in two threads at once; a device that was unplugged can leave `is_running()` true;
* a session that was connected by a DIP of an earlier one can take another session's
  acknowledgement (`ownDip`), and so can the request of a call that the restart overtook (`overtaken`); steady commands, or a dead manager, keep the host from
  noticing that the device has left (`HalfOpenEnds`).

### Bounds

* `Slots`: ids of keep-alive timers that can exist at once. An id nobody refers to is reused: the
  code only compares ids. `IdReserve` stops the clock while too few are free, so that a callback never
  finds none; five to seven ids cover every overlap of the timers of the instance.
* `IdMod` stands for 2^16; with 2 the ids wrap after two packets, which makes them collide.
* `requests_two` has one retry per command: the second caller's reset and the retry of the first command meet in every order.
* `MaxRetry`, `CmdTimeout`, `KaInterval`, `KaTimeout`: small numbers whose order changes between the
  runs (a command timing out before and together with the keep-alive). Nothing depends on their size.
* `MaxAttempts` 2 (the code has 3) is the smallest number with a first, a further and a last attempt;
  `AttemptCap` stops `connection_attempts_` one above it, where one attempt too many is already counted.
* `Sizes`, `MaxPl`, `MaxBlocks`: sizes below, at and above the limit, runs of several full packets,
  and, with `CountMod` 5, packets with more blocks than the count can hold. `Word` 16 is larger than
  `MaxPl`, as 2^16 is larger than 2035, so the length of a packet does not wrap; that is `RoomAssumption`, which also says
  that an identification fits a packet. `MaxAcks` 1 is enough for the two threads' ids to cross; `IdMod` 4 comes round within a call, which writes up to five packets and one acknowledgement, and
  `FirstIds` is the id 1 that the DIP has taken.
* TCP: `QueueMax` 1 with three packets has a packet being written, one queued and one refused. USB: `QueueMax` 2 with four packets, so that
  `clear_queues` can take one of two packets behind the one being written. Two starts are
  enough for what is left behind to meet a new connection. `MaxReads` 2 lets two reads overlap; more only
  repeat the case. The server needs one start, because it accepts any number of peers by itself.
* `Hdcp`: the second session reuses the ids of the first, so two sessions show every mix-up of one with the
  next. With two ids (`MaxId` 1) a DIP, a keep-alive and a command already share them. What exceeds one packet on the way to the device
  (`MaxToSlave`) or two on the way back (`MaxToMaster`: an answer to a command is two packets) is lost, as any packet may be. One attempt is enough because the late one that
  `DipTimeout` makes is a second. The run reaches an acknowledgement of another session by either exception of `AckIsOwn`, and a device connected by an
  event left behind; the proofs are for any bounds.

### Fairness

* `MasterRequest`: weak fairness of the manager's thread only. Its loop ticks for ever
  and each callback is ordinary code. Callers and the Master thread may stop anywhere. The mutex is
  never held by a thread that may stop: only the manager's thread keeps it over several steps.
* `Master`: weak fairness of the Master thread, of `Join` and of a `connect()` that has begun. Strong
  fairness of `ReadNothing` (a peer does not send wrong acknowledgements for ever without a gap) and of the
  identification timer while the thread is in `read()`: the thread spends its time there, 100 ms at
  a time, and a timer that is armed does fire in such a period. `ConnectReturns` excludes a dead manager's thread, an attempt whose HIP threw on a transport that stays open (`Stuck`), a stopped
  Master, and requests made before the Master has started (`init` clears the events).
* `Slave`: weak fairness of the Slave thread and of the timer: an armed timer that is not
  replaced expires.

* `TcpClient`, `TcpServer`: weak fairness of the I/O thread and of a `stop()` that has begun. The network owes
  nothing: reads and writes need never complete.
* `UsbDevice`: weak fairness of the event thread's loop, of the callbacks of cancelled and failed transfers, of libusb ending
  a transfer it has accepted to cancel, and of a `stop()` that has begun.
* `Hdcp`: both sides read what arrives. On the host the keep-alive falls due after an interval without a command or a retry (`Tick`), is
  sent when due, and its timeout expires, all only while the manager's thread lives. On the device the timer expires when nothing more is on its way to it. Nothing
  is assumed of the delivery of packets. That commands and retries stop at some point is not assumed either: `HalfOpenEnds` states it as the condition
  of its first part.

Deadlock is checked for `MasterRequest`, `Master` and `Slave`. The other systems really stop: a call of `send_data`
ends, a transport is stopped (or, for USB, `start()` waits for a thread that failed) and not started
again, and the host's sessions are bounded.

## 4. Proofs

`MasterRequestProofs` proves for any set of commands, any number of timers, retries and ticks, any
`IdMod` and both answers of `EraseReachesBatch`, from `RequestAssumption` (timer ids of commands and
of keep-alives are different, the numbers are positive) and `QueueAssumption`:

| theorem | statement | rests on |
|---|---|---|
| `TypeCorrect` | `Spec => []TypeOK` | one lemma per thread |
| `CallbackOnceHolds`, `RetryBudgetHolds`, `QuietAfterCallbackHolds` | at most one callback, the retry budget, silence after the callback | `LifeInv` |
| `AckUnambiguousHolds` | pending requests have different packet ids | `LifeInv`: only a call that has not returned changes its id |
| `PendingHasTimerHolds` | a pending request has its timer | `TimerInv` |
| `CmdTimerOwnedHolds` | a timer, or a callback that is due, finds its request but for three causes | `CmdTimerNew` |
| `KeepsPromiseHolds` | `MasterRequest` implements `CommandLife` | `LifeInv`, `PhaseEnds` |
| `KaTimersTrackedHolds`, `KeepaliveScheduledHolds` | keep-alive timers can be cancelled; one is always scheduled | `KaInv` |

`CallbackOnce` is not inductive by itself: a pending request could have been called back already.
`LifeInv` follows a command through its life: it is in the set only after its call returned and before
its callback, it has not been written before `WriteCmd`, it was written at most `retry + 1` times, it was written exactly once
when it is about to be inserted. For the refinement the initial states map to the
initial state, and each action maps to one step of `CommandLife` or to none; `LifeUntouched` lists the
actions that map to none, and `PhaseEnds` says what a callback does to `phase`, for both kinds of callback. `TimerInv`
adds the calls that are under way to `PendingHasTimer`, because the timer is added long before the
request. `KaInv` says that a keep-alive timer is never both collected and in the queue, that a thread
holds an id only between adding a timer and remembering it, and that no id `ack_keepalive` will
erase is that of a management timer. Without the last part an acknowledgement could erase the
management timer and `KeepaliveScheduled` would not be preserved. `CmdTimerKept`, `CmdTimerNew` and
`SlotKind` say once, for all actions, what a step can do to one timer.

The other modules have the same shape: the types as far as they are inductive by themselves, one conjunct of the
strengthening per idea, one lemma per conjunct that goes through the actions, and theorems that put the lemmas together.
Each invariant was a run's invariant in TLC before it was proved. All constants are arbitrary within the modules' assumptions.

| module | theorems | rests on |
|---|---|---|
| `MasterProofs` | `MasterTypeCorrect`, `StateMeaningHolds`, `AttemptWatchedHolds` | `MInv` |
| `SlaveProofs` | `SlaveTypeCorrect`, `TimerFollowsSessionHolds`, `IdentityIsLatestHolds`, `ConnectedByKeepaliveHolds` | `SInv` |
| `HdcpProofs` | `SessionsAgreeHolds`, `AckIsOwnHolds` | `HInv` |
| `TcpClientProofs` | `ClientTypeCorrect`, `WriteChainHolds`, `NeverDeafHolds`, `InOrderHolds` | `CInv` |
| `TcpServerProofs` | `ServerTypeCorrect`, `OneWriteHolds`, `ServesHolds`, `InOrderHolds` | `SInv` |
| `UsbDeviceProofs` | `UsbTypeCorrect`, `InStepHolds`, `CleanStopHolds`, `InOrderHolds` | `UInv` |
| `SendDataProofs` | `SendTypeCorrect`, `EveryBlockOnceHolds`, `PacketsFilledHolds`, `PacketReadsBack`, `HostReadsHolds`, `DamageIsRefused`, `JunkIsCopied`, `DamageRefusedHolds` | `LoopInv`, `FillInv`, `IdInv`, `ReadInv` |

**Master.** `StateMeaning` is about what holds while a state is entered, so the invariant has to say where in the
wakeup things change: the manager starts in the first wakeup of connecting and stops in the first of disconnected (`ManagerRuns`). The
heart is `DipIsOwn`: once the first wakeup of an attempt is over, a pending `dip_received` belongs to this attempt. It holds
because that wakeup erases the event before anything can be read, and only the Master thread raises it. `ErrorsOwn` is the
same for `ErrorHasCause`: between wakeups `errc_` holds nothing but what a wakeup since the last transition threw.
`AttemptWatched` is preserved by every step but needs `FirstSends`: the first wakeup never finds the attempts used up.

**Slave.** `ManagerStopped` and `KeepaliveRead` do the same for the device; the second one is what makes `kaLeft` the only other way
to become connected, and `ConnectedByKeepaliveHolds`, an action property, follows from it.

**Hdcp.** A packet carries its session as history. `HInv` says that both wires are sorted by session, and that
what is still on its way to the device is not older than anything on its way back (`WireOrder`); that nothing older than the HIP it has answered is
on its way to the device (`DeviceInv`); that keep-alives are sent only in a session that was reached
(`ConfirmSent`); and that behind a host's own DIP there is nothing of an earlier session on either wire (`OwnWires`). The last part
is what `AckIsOwn` rests on: the connection keeps the order, so what an earlier session left behind was read before the DIP. It
also bounds what a side may remember: `kaLeft` and `confirmed` are no later than the last session the host reached, because a keep-alive that was read came from
one that was, and a request of another session is in the set only if a call was `overtaken`.
Losing packets, reading one and sending one are described once (`Thins`, `PutKeeps`) for wires of any length.

**TCP.** The io_context's queue of handlers is a sequence that handlers shorten at the head and lengthen at the
tail. `CInv` counts what is outstanding together with what waits there: exactly one read, exactly one write when
`write_in_progress_` is set and none when not, none while the I/O thread is between `size_approx()` and `try_dequeue`. The server's `SInv` is
weaker about reads (two may overlap after an ill-formed header) and adds that it listens, is open or was `refused`. For the
refinement of `Channel` the packets in hand are one line: those being written, then the queue, then those in posted
handlers; `Order` says that each writer's numbers increase along this line. Every step shortens the line, moves a packet within it or appends the next number, and
these are `Send`, `Lose`, `Write` or a stutter of `Channel`. The two modules repeat the lemmas on this line, each over its own
instance of `TcpTransport`.

**USB.** `InStep` needs little beyond the positions of the threads. `CleanStop` needs to know how far `cancel_transfers()` has come
(`StopInv`): the transfers it has waited for are idle, and the one it waits for is the one its pointer names. They stay idle
unless one is submitted or completed when `cancel_transfers()` had passed it (`late`, `Passed`) or a transfer failed (`failed`). `CrashHasCause` names these for a transfer that is deleted in flight, and the
cause of every other crash: after a failure (`deleted` twice or in use), in a `write()` beside `stop()`, or with `stop()` and `run()` both in `close()`. The bound of the queue is on the set of its places (`Places`), whose cardinality the provers can follow.

**send_data.** The loop invariant `LoopInv` says that the payload counts nothing when it holds no block, so that no
packet is empty; `FillInv` that `payload_size` is the sum of the sizes of the blocks in the payload, and that a packet about to be written
had no place for the next block. The sum is a recursive function: `UpTo` is induction over an interval with a set in place
of the predicate (it follows from the well-foundedness of `<`), `TotalIs` shows with it that the function exists, and `Totals` what it
adds up to.

**The codec.** `PacketReadsBack` is the round trip: a packet of any type made of any blocks that fit (`BlockSeq`: a block's length
fits its 16 bits, and the payload is at most `max_pl_size`) is copied cell for cell and gives back its type and its blocks, and the constructor
accepts it exactly when the 8 bits of `n_block` hold the number of blocks. The argument follows the functions: the checksums, the payloads and the
rests that `blocks()` reads are recursive functions (`Sums`, `Payloads`, `Rests`), each shown to exist by `UpTo`; `PayloadPrefix`
says that what was put into a payload stays there, `BlockAtPlace` that block k begins where the k - 1 blocks before it
end, and `BlocksReadBack` goes from the last block to the first. `HostReadsHolds` applies it to what `send_data` has put into a packet,
which by `FillInv` is no larger than what the loop has counted (`DataBlocks`); the packet about to be written passed the constructor (`ReadInv`),
and equal ids of the two threads are a round apart because both come from `packet_id_`, no number is taken twice and an id is its number modulo `IdMod` (`IdInv`).

**Damage.** `DamageIsRefused` says the same of `compute_crc` that a test can only sample. Where two buffers differ in one cell, their first
sums differ from there on (`FirstStaysDifferent`: what is added to both sums modulo `Byte` cancels, `Cancels`), so their
checksums do (`OneCellTold`). Where two neighbours have changed places, the first sums are the same behind them and the second differ by
the difference of the two (`TwoCells`, `SwapTold`). A change in the header is seen by the header's checksum, one in the payload by the
payload's, one in a checksum because the other side computes the old one; a swap across the border of the header's checksum is
seen by its second cell, and one of the first cell with the version because no payload has one byte (`SwapFirstRefused`). A cut leaves a header that is
incomplete or tells of more than there is. When the first cell is lost, what the constructor accepts begins behind
it, and is a packet for itself (`StartLost`, from `VerdictFromStart`: the constructor checks nothing before the start it finds). An earlier form of `DamageRefused` had no exception for this and held on the run
only because no block held a packet; the attempt to prove it showed that. `DamageRefusedHolds` applies the theorem to
the packets that are written (`WrittenRead`). Both speak of cells: the two bytes of a length or an id are one.

**Bytes before a packet.** `JunkIsCopied` is the finding of `packet_junk` without its bounds: whatever the packet and the bytes before it, as long as
no start of packet is among them, the buffer passes every check of the constructor (`VerdictFromStart`) and the copy, which begins at the start of the buffer,
is not the packet. It is a property of the code as it is, and a corrected copy would make it false.

Only model-checked: every liveness property (fairness is out of the prover's reach): `PendingResolved`, `StopReturns`, `ConnectReturns`,
`DisconnectHonoured`, `DeadPeerNoticed`, `HipHonoured`, `ErrorCloses`, `HalfOpenEnds`; and the two counterexamples as properties of a run (`JunkIsCopied` proves what the second shows). Every safety invariant, action property and refinement that a run checks is proved.

## 5. Not modelled, and assumptions

* Transports: `errc_`, which only the Master reads; the read queue (one producer, one consumer, a full one drops
  the packet); the eof branch of a write, which never completes with eof; the read timeout of USB, which is
  off; allocation failures of `open()`. In `Master` and `Slave` the transport is open or closed and a write to
  a closed one throws, and to an open one may.
* Packet: a field is one cell, so damage to one of the two bytes of a field is a change of the field, and the bytes of one field do not
  change places. A length that does not fit its 16 bits is cut (`Word`), but `send_data` never makes one.
* `Hdcp`: data packets, and transports that reconnect. One call of `send_data` that spans two sessions is in no module.
* Texts, logging, the contents of blocks, the error tables: no state.
* The application's callbacks are assumed to return, not to throw and not to call back into the
  manager (`ack_command` holds its mutex while it calls them).
* Two application threads in `connect()` at once: the second can miss its notification; the liveness
  run has one.
* `Master::stop()` before the init handler has run is excluded: `start()` returns after it.
* `stop_keepalive_management` of the host has no caller.

## 6. Plan

1. Done: `TimeoutQueue`, `MasterRequest`, `Master`, `Slave`, `SendData`, `Packet`, `CommandLife`, `Channel`, `TcpClient`, `TcpServer`,
   `UsbDevice`, `Hdcp`.
2. Done: the proofs of every safety invariant and action property of the runs, and of the four refinements.
3. Done: the codec's round trip and its refusal of damage, for any blocks that fit a packet.
4. `send_data` across sessions, as a data packet of `Hdcp`.
