----------------------------- MODULE TcpClient ------------------------------
(***************************************************************************)
(* transport::tcp::Client (tcp_client.cpp): connects in start(), and ends  *)
(* its thread with the connection.                                         *)
(***************************************************************************)
EXTENDS TcpTransport

\* start(): connect() may throw; otherwise run() posts its first read and notifies.
Start ==
    /\ owner = "idle" /\ ~running /\ starts < MaxStarts
    /\ starts' = starts + 1
    /\ wip' = FALSE
    /\ \/ /\ owner' = "up" /\ running' = TRUE /\ io' = "run"
          /\ open' = TRUE /\ reset' = FALSE
          /\ reads' = [NoReads EXCEPT !.header = 1]
          /\ leftover' = Leftover /\ stalled' = FALSE
       \/ UNCHANGED <<owner, running, io, open, reset, reads, leftover, stalled>>
    /\ UNCHANGED <<accepting, writing, ready, queue, users, out>>

\* stop(): the flag, then close(), then join().
StopFlag ==
    /\ owner = "up"
    /\ running' = FALSE
    /\ owner' = "close"
    /\ UNCHANGED <<starts, reset, leftover, io, sock, wq, users, out, stalled>>

\* close(): is_open(), and then the shutdown of what may be closed by now.
StopLooks ==
    /\ owner = "close"
    /\ owner' = IF open THEN "shut" ELSE "join"
    /\ UNCHANGED <<starts, running, reset, leftover, io, sock, wq, users, out, stalled>>

MUT_StopCloses ==
    /\ owner = "shut"
    /\ owner' = "join"
    /\ UNCHANGED <<starts, running, reset, leftover, io, sock, wq, users, out, stalled>>

StopCloses ==
    /\ owner = "shut"
    /\ IF ShutdownFails THEN owner' = "threw" /\ UNCHANGED sock
                        ELSE owner' = "join" /\ CloseSocket(ready, FALSE)
    /\ UNCHANGED <<starts, running, reset, leftover, io, wq, users, out, stalled>>

Join ==
    /\ owner = "join" /\ io = "ended"
    /\ owner' = "idle" /\ io' = "off"
    /\ UNCHANGED <<starts, running, reset, leftover, sock, wq, users, out, stalled>>

-----------------------------------------------------------------------------
(* run().                                                                  *)

\* io_context_.run() returns when there is nothing left to wait for.
RunReturns ==
    /\ io = "run" /\ NoWork
    /\ io' = "ended"
    /\ UNCHANGED <<thread, sock, wq, users, out, stalled>>

\* Any exception that is no packet_error: close() and the end of the thread.
Fail(r) == io' = "ended" /\ TryClose(r)

MUT_Discard(r) == io' = "run" /\ ready' = r /\ UNCHANGED <<open, ops>>

\* A packet_error: read the next header, and look at is_running().
Discard(r) ==
    /\ io' = IF running THEN "run" ELSE "ended"
    /\ AsyncRead(r, <<"header">>)
    /\ UNCHANGED <<open, accepting, writing>>

MUT_DoWriteUnmarked(r, q) ==
    IF q = <<>> THEN ready' = r /\ queue' = q /\ UNCHANGED <<wip, writing>>
    ELSE queue' = Tail(q) /\ wip' = FALSE /\ AsyncWrite(r, Head(q))

MUT_DoWriteAgain(r, q) ==
    IF q = <<>> THEN ready' = r /\ queue' = q /\ UNCHANGED <<wip, writing>>
    ELSE queue' = q /\ wip' = TRUE /\ AsyncWrite(r, Head(q))

DoWrite(r, q) ==
    IF q = <<>> THEN ready' = r /\ queue' = q /\ UNCHANGED <<wip, writing>>
    ELSE queue' = Tail(q) /\ wip' = TRUE /\ AsyncWrite(r, Head(q))

\* The handler that write() posts.
OnPost ==
    /\ Handles("post")
    /\ \/ /\ QueueFull
          /\ Fail(Rest)
          /\ UNCHANGED wq
       \/ /\ ~QueueFull /\ wip
          /\ queue' = Append(queue, Packet) /\ ready' = Rest
          /\ UNCHANGED <<wip, io, open, ops>>
       \/ /\ ~QueueFull /\ ~wip
          /\ DoWrite(Rest, Append(queue, Packet))
          /\ UNCHANGED <<io, open, reads, accepting>>
    /\ UNCHANGED <<thread, users, out, stalled>>

\* The handler of async_write.  size_approx() > 0 and try_dequeue are two steps.
OnWritten ==
    /\ Handles("write")
    /\ \/ /\ Result = "ok"
          /\ IF queue # <<>> THEN io' = "dequeue" /\ UNCHANGED wip
                             ELSE wip' = FALSE /\ UNCHANGED io
          /\ ready' = Rest /\ UNCHANGED <<open, ops>>
       \/ Result = "aborted" /\ ready' = Rest /\ UNCHANGED <<wip, io, open, ops>>
       \/ Result = "err" /\ Fail(Rest) /\ UNCHANGED wip
    /\ UNCHANGED <<thread, queue, users, out, stalled>>

WriteNext ==
    /\ io = "dequeue"
    /\ io' = "run"
    /\ DoWrite(ready, queue)
    /\ stalled' = (stalled \/ queue = <<>>)
    /\ UNCHANGED <<thread, open, reads, accepting, users, out>>

\* The end of a read that brought no packet.  On eof, close(): is_open() ...
ReadEnds ==
    \/ Result = "err" /\ Fail(Rest)
    \/ /\ Result = "eof"
       /\ io' = IF open THEN "closing" ELSE io
       /\ ready' = Rest /\ UNCHANGED <<open, ops>>

\* ... and the rest of it.
CloseAtEof ==
    /\ io = "closing"
    /\ IF ShutdownFails THEN Fail(ready) ELSE io' = "run" /\ CloseSocket(ready, FALSE)
    /\ UNCHANGED <<thread, wq, users, out, stalled>>

\* read_header: parse_header may throw.
OnHeader ==
    /\ Handles("header")
    /\ \/ ReadEnds
       \/ Result = "ok" /\ AsyncRead(Rest, <<"payload">>) /\ UNCHANGED <<io, open, accepting, writing>>
       \/ Result = "ok" /\ Discard(Rest)
    /\ UNCHANGED <<thread, wq, users, out, stalled>>

\* read_payload: parse_payload may throw; a packet that finds the read queue full is dropped.
OnPayload ==
    /\ Handles("payload")
    /\ \/ ReadEnds
       \/ Result = "ok" /\ AsyncRead(Rest, <<"header">>) /\ UNCHANGED <<io, open, accepting, writing>>
       \/ Result = "ok" /\ Discard(Rest)
    /\ UNCHANGED <<thread, wq, users, out, stalled>>

IoThread == RunReturns \/ OnPost \/ OnWritten \/ WriteNext \/ OnHeader \/ OnPayload \/ CloseAtEof
Stop     == StopFlag \/ StopLooks \/ StopCloses \/ Join
Next     == IoThread \/ Start \/ Stop \/ Users \/ ReadCompletes \/ WriteCompletes \/ ConnectionBreaks

Init == TcpInit
Spec == Init /\ [][Next]_tcpVars

\* The I/O thread is scheduled, and stop() goes on once it was called.
FairSpec == Spec /\ WF_tcpVars(IoThread) /\ WF_tcpVars(StopLooks \/ StopCloses \/ Join)

-----------------------------------------------------------------------------
(* Properties.                                                             *)

\* The types of the state; the queues keep to their capacity.
TypeOK == TcpTypeOK

\* The chain of writes (do_write) does not break: while the transport is open a packet in the
\* queue has a write in progress before it whose completion will take it, there is never more
\* than one write, and write_in_progress_ says so.  Only clear_queues between size_approx() and
\* try_dequeue, and handlers of an earlier start(), can break it.
WriteChain ==
    (open /\ io = "run" /\ ~stalled /\ leftover # "handlers") =>
        /\ Writes = (IF wip THEN 1 ELSE 0)
        /\ (queue # <<>> /\ leftover = "nothing") => wip

\* While the transport is open exactly one read is outstanding or being handled, whatever
\* ill-formed packets arrive: the client is never deaf, and never reads twice at once.
ReadArmed ==
    (open /\ io = "run" /\ running /\ leftover # "handlers") =>
        Reads = 1

\* When the thread has ended by itself is_open() is false, so that the Master sees the
\* connection is gone; only the shutdown of a broken connection, which throws, leaves it open.
EndedIsClosed == (io = "ended" /\ owner = "up") => (~open \/ reset)

\* A client that says it is open is listening.
NeverDeaf == TypeOK /\ ReadArmed /\ EndedIsClosed

\* The packets of each writer are sent in order and at most once, across the connections.
InOrder == Promise!Spec

\* stop() returns, or throws: after close() every operation completes and run() returns.
StopReturns == (owner = "close") ~> (owner \in {"idle", "threw"})
=============================================================================
