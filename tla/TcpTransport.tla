---------------------------- MODULE TcpTransport ----------------------------
(***************************************************************************)
(* What the two TCP transports share: the base class Transport             *)
(* (transport.h), the io_context and the socket of Boost.Asio (external),  *)
(* and the threads that meet in them:                                      *)
(*   - writers, application and protocol threads inside write();           *)
(*   - the owner, which calls start() and stop();                          *)
(*   - the thread that calls clear_queues() (Master or Slave);             *)
(*   - the I/O thread, inside io_context::run(), which executes one        *)
(*     completion handler at a time.                                       *)
(* io_context keeps its handlers in a queue that survives the end of       *)
(* run(): what is left there is executed after the next start().           *)
(***************************************************************************)
EXTENDS Naturals, Sequences, FiniteSets

CONSTANTS
    Writers,      \* threads that call write()
    MaxPackets,   \* packets each of them writes (bound)
    QueueMax,     \* max_queue_size, 100 in the code
    MaxStarts,    \* calls of start() (bound)
    MaxReads      \* no ill-formed header while so many reads overlap (bound)

ASSUME TcpAssumption ==
    MaxPackets \in Nat /\ QueueMax \in Nat \ {0} /\ MaxStarts \in Nat /\ MaxReads \in Nat \ {0}

VARIABLES
    owner, starts,      \* the owner's position, calls of start() so far
    running,            \* Thread::is_running()
    io,                 \* the I/O thread
    open, accepting,    \* socket_.is_open(), an async_accept is outstanding
    reset,              \* the connection is broken: shutdown() will throw
    reads, writing,     \* outstanding async_reads of each kind, packets of outstanding async_writes
    ready,              \* the io_context's queue of handlers
    queue, wip,         \* write_queue_, write_in_progress_
    caller, count,      \* per writer: inside write(), packets posted
    out,                \* history, per writer: the last packet that was sent
    stalled,            \* history: do_write met a queue emptied by clear_queues
    leftover            \* history: what start() found from before, in the io_context or in queue

ops     == <<reads, writing, accepting>>
sock    == <<open, ready, ops>>
wq      == <<queue, wip>>
thread  == <<owner, starts, running, reset, leftover>>
users   == <<caller, count>>
tcpVars == <<thread, io, sock, wq, users, out, stalled>>

Results == {"ok", "aborted", "eof", "err"}
Packets == Writers \X (1 .. MaxPackets)

NoReads == [header |-> 0, payload |-> 0]

H(kind, x) == [k |-> kind, x |-> x]
Handler == [k : {"header", "payload", "write", "accept"}, x : Results] \cup [k : {"post"}, p : Packets]

TcpInit ==
    /\ owner = "idle" /\ starts = 0 /\ running = FALSE /\ io = "off"
    /\ open = FALSE /\ accepting = FALSE /\ reset = FALSE
    /\ reads = NoReads /\ writing = <<>> /\ ready = <<>>
    /\ queue = <<>> /\ wip = FALSE
    /\ caller = [w \in Writers |-> "out"]
    /\ count = [w \in Writers |-> 0]
    /\ out = [w \in Writers |-> 0]
    /\ stalled = FALSE /\ leftover = "nothing"

-----------------------------------------------------------------------------
(* The socket.  An operation on a closed one completes with an error.      *)

ShutdownThrows == open /\ reset

\* shutdown() once is_open() was true: meanwhile the other thread may have closed the socket.
ShutdownFails == ~open \/ reset

\* close() and cancel(): the outstanding operations complete as aborted.  The handlers of
\* aborted reads and accepts only log and are left out.
Aborted == [i \in DOMAIN writing |-> H("write", "aborted")]

\* r is the queue of handlers, again whether an accept follows.
CloseSocket(r, again) ==
    /\ open' = FALSE
    /\ accepting' = again
    /\ reads' = NoReads /\ writing' = <<>>
    /\ ready' = r \o Aborted

\* close() in a handler of run() that ends the thread: a shutdown that throws leaves the socket
\* open.  (Whether this thread finds the socket closed or loses it to stop() comes to the same.)
TryClose(r) ==
    IF ShutdownThrows THEN ready' = r /\ UNCHANGED <<open, ops>> ELSE CloseSocket(r, FALSE)

AsyncRead(r, kinds) ==
    IF open THEN /\ ready' = r
                 /\ reads' = [k \in DOMAIN reads |->
                                IF \E i \in DOMAIN kinds : kinds[i] = k THEN reads[k] + 1 ELSE reads[k]]
            ELSE ready' = r \o [i \in DOMAIN kinds |-> H(kinds[i], "err")] /\ UNCHANGED reads

AsyncWrite(r, p) ==
    IF open THEN ready' = r /\ writing' = Append(writing, p)
            ELSE ready' = Append(r, H("write", "err")) /\ UNCHANGED writing

\* The handler the I/O thread executes next.
Handles(kind) == io = "run" /\ ready # <<>> /\ Head(ready).k = kind
Result        == Head(ready).x
Packet        == Head(ready).p
Rest          == Tail(ready)

Leftover == IF ready # <<>> THEN "handlers" ELSE IF queue # <<>> THEN "packets" ELSE "nothing"

NoWork == ready = <<>> /\ reads = NoReads /\ writing = <<>> /\ ~accepting

\* write_queue_.try_enqueue() fails.
QueueFull == Len(queue) >= QueueMax

-----------------------------------------------------------------------------
(* The network.                                                            *)

ReadCompletes ==
    /\ \E k \in DOMAIN reads, ec \in (IF reset THEN {"err"} ELSE {"ok", "eof"}) :
          /\ reads[k] > 0
          /\ reads' = [reads EXCEPT ![k] = @ - 1]
          /\ ready' = Append(ready, H(k, ec))
    /\ UNCHANGED <<thread, io, open, accepting, writing, wq, users, out, stalled>>

\* The packet has left.  Two writes at once share write_packet_: what they send is no packet.
WriteCompletes ==
    /\ writing # <<>>
    /\ LET p == Head(writing) IN
          /\ ready' = Append(ready, H("write", IF reset THEN "err" ELSE "ok"))
          /\ out' = IF reset \/ Len(writing) > 1 THEN out ELSE [out EXCEPT ![p[1]] = p[2]]
    /\ writing' = Tail(writing)
    /\ UNCHANGED <<thread, io, open, accepting, reads, wq, users, stalled>>

ConnectionBreaks ==
    /\ open /\ ~reset
    /\ reset' = TRUE
    /\ UNCHANGED <<owner, starts, running, leftover, io, sock, wq, users, out, stalled>>

-----------------------------------------------------------------------------
(* The users of the transport.                                             *)

\* write(): is_open() ...
WriteCalled(w) ==
    /\ caller[w] = "out" /\ open /\ count[w] < MaxPackets
    /\ caller' = [caller EXCEPT ![w] = "post"]
    /\ UNCHANGED <<thread, io, sock, wq, count, out, stalled>>

\* ... and post().
WritePosts(w) ==
    /\ caller[w] = "post"
    /\ count' = [count EXCEPT ![w] = @ + 1]
    /\ ready' = Append(ready, [k |-> "post", p |-> <<w, count'[w]>>])
    /\ caller' = [caller EXCEPT ![w] = "out"]
    /\ UNCHANGED <<thread, io, open, ops, wq, out, stalled>>

\* clear_queues() takes the packets of the write queue out one by one.  It may be called at any
\* time, so any of its dequeues may come at any time.  (The read queue, which it empties first,
\* is between the I/O thread and one reader, and no step here depends on it.)
ClearOne ==
    /\ queue # <<>>
    /\ queue' = Tail(queue)
    /\ UNCHANGED <<thread, io, sock, wip, users, out, stalled>>

Users == ClearOne \/ \E w \in Writers : WriteCalled(w) \/ WritePosts(w)

-----------------------------------------------------------------------------
(* What both transports are checked for.                                   *)

TcpTypeOK ==
    /\ owner \in {"idle", "up", "flag", "close", "shut", "join", "threw"}
    /\ starts \in 0 .. MaxStarts
    /\ io \in {"off", "run", "dequeue", "closing", "ended"}
    /\ {running, open, accepting, reset, wip, stalled} \subseteq BOOLEAN
    /\ leftover \in {"nothing", "packets", "handlers"}
    /\ reads \in [header : Nat, payload : Nat]
    /\ writing \in Seq(Packets) /\ queue \in Seq(Packets) /\ Len(queue) <= QueueMax
    /\ ready \in Seq(Handler)
    /\ caller \in [Writers -> {"out", "post"}]
    /\ count \in [Writers -> 0 .. MaxPackets] /\ out \in [Writers -> 0 .. MaxPackets]

\* The handlers of these kinds that are waiting, by their places in the io_context's queue.
Waiting(kinds) == {i \in DOMAIN ready : ready[i].k \in kinds}
Reads          == reads.header + reads.payload + Cardinality(Waiting({"header", "payload"}))
Writes         == Len(writing) + Cardinality(Waiting({"write"}))

\* The packets that write() accepted and that have neither left nor been lost.
InHand  == {writing[i] : i \in DOMAIN writing} \cup {queue[i] : i \in DOMAIN queue}
               \cup {ready[i].p : i \in Waiting({"post"})}
pending == [w \in Writers |-> {n \in 1 .. MaxPackets : <<w, n>> \in InHand}]

Promise == INSTANCE Channel
=============================================================================
