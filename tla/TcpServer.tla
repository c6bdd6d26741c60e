----------------------------- MODULE TcpServer ------------------------------
(***************************************************************************)
(* transport::tcp::Server (tcp_server.cpp): accepts one connection at a    *)
(* time and listens again when its peer is gone.                           *)
(***************************************************************************)
EXTENDS TcpTransport

VARIABLES
    revived,    \* history: a handler opened the transport again after stop() closed it
    refused     \* history: the last accept has failed

marks == <<revived, refused>>
vars  == <<tcpVars, marks>>

Init == TcpInit /\ revived = FALSE /\ refused = FALSE

\* start(): open() begins to accept, unless a stop() left the socket open; run() notifies.
Start ==
    /\ owner = "idle" /\ ~running /\ starts < MaxStarts
    /\ owner' = "up" /\ starts' = starts + 1
    /\ running' = TRUE /\ io' = "run" /\ wip' = FALSE
    /\ accepting' = ~open
    /\ leftover' = Leftover /\ stalled' = FALSE /\ refused' = FALSE
    /\ UNCHANGED <<reset, open, reads, writing, ready, queue, users, out, revived>>

MUT_Close(r, again) ==
    /\ open' = FALSE /\ accepting' = (again \/ accepting)
    /\ reads' = NoReads /\ writing' = <<>>
    /\ ready' = r \o Aborted

\* close(): the connection, and the accept if there is one.
Close(r, again) == CloseSocket(r, again)

\* stop(): close(), then the flag, then join().  close() calls shutdown() if is_open(), and what
\* was open may be closed by then.
StopLooks ==
    /\ owner = "up"
    /\ IF open THEN owner' = "shut" /\ UNCHANGED sock
               ELSE owner' = "flag" /\ Close(ready, FALSE)
    /\ UNCHANGED <<starts, running, reset, leftover, io, wq, users, out, stalled, marks>>

StopCloses ==
    /\ owner = "shut"
    /\ IF ShutdownFails THEN owner' = "threw" /\ UNCHANGED sock
                        ELSE owner' = "flag" /\ Close(ready, FALSE)
    /\ UNCHANGED <<starts, running, reset, leftover, io, wq, users, out, stalled, marks>>

StopFlag ==
    /\ owner = "flag"
    /\ running' = FALSE
    /\ owner' = "join"
    /\ UNCHANGED <<starts, reset, leftover, io, sock, wq, users, out, stalled, marks>>

Join ==
    /\ owner = "join" /\ io = "ended"
    /\ owner' = "idle" /\ io' = "off"
    /\ UNCHANGED <<starts, running, reset, leftover, sock, wq, users, out, stalled, marks>>

-----------------------------------------------------------------------------
(* run().                                                                  *)

RunReturns ==
    /\ io = "run" /\ NoWork
    /\ io' = "ended"
    /\ UNCHANGED <<thread, sock, wq, users, out, stalled, marks>>

\* Any exception that is neither a packet_error nor a transport_error.
Fail(r) == io' = "ended" /\ IF ShutdownThrows THEN ready' = r /\ UNCHANGED <<open, ops>>
                                              ELSE Close(r, FALSE)

\* The write queue is full: a transport_error, which run() survives while is_running().
DropPacket ==
    /\ io' = IF running THEN "run" ELSE "ended"
    /\ ready' = Rest
    /\ UNCHANGED <<open, ops, wq>>

MUT_DoWrite(r, q) ==
    IF q = <<>> THEN ready' = r /\ queue' = q /\ UNCHANGED <<wip, writing>>
    ELSE queue' = q /\ wip' = TRUE /\ AsyncWrite(r, Head(q))

DoWrite(r, q) ==
    IF q = <<>> THEN ready' = r /\ queue' = q /\ UNCHANGED <<wip, writing>>
    ELSE queue' = Tail(q) /\ wip' = TRUE /\ AsyncWrite(r, Head(q))

MUT_OnPost ==
    /\ Handles("post") /\ ~QueueFull
    /\ DoWrite(Rest, Append(queue, Packet))
    /\ UNCHANGED <<thread, io, open, reads, accepting, users, out, stalled, marks>>

\* The handler that write() posts.
OnPost ==
    /\ Handles("post")
    /\ \/ QueueFull /\ DropPacket
       \/ /\ ~QueueFull /\ wip
          /\ queue' = Append(queue, Packet) /\ ready' = Rest
          /\ UNCHANGED <<wip, io, open, ops>>
       \/ /\ ~QueueFull /\ ~wip
          /\ DoWrite(Rest, Append(queue, Packet))
          /\ UNCHANGED <<io, open, reads, accepting>>
    /\ UNCHANGED <<thread, users, out, stalled, marks>>

\* The handler of async_write.  An aborted write leaves the queue as it is.
OnWritten ==
    /\ Handles("write")
    /\ \/ /\ Result = "ok"
          /\ IF queue # <<>> THEN io' = "dequeue" /\ UNCHANGED wip
                             ELSE wip' = FALSE /\ UNCHANGED io
          /\ ready' = Rest /\ UNCHANGED <<open, ops>>
       \/ Result = "aborted" /\ wip' = FALSE /\ ready' = Rest /\ UNCHANGED <<io, open, ops>>
       \/ Result = "err" /\ Fail(Rest) /\ UNCHANGED wip
    /\ UNCHANGED <<thread, queue, users, out, stalled, marks>>

WriteNext ==
    /\ io = "dequeue"
    /\ io' = "run"
    /\ DoWrite(ready, queue)
    /\ stalled' = (stalled \/ queue = <<>>)
    /\ UNCHANGED <<thread, open, reads, accepting, users, out, marks>>

\* The handler of async_accept: on success the socket is open.  already_open is only logged.
OnAccept ==
    /\ Handles("accept")
    /\ \/ /\ ~open
          /\ open' = TRUE /\ reset' = FALSE
          /\ reads' = [reads EXCEPT !.header = @ + 1]
          /\ revived' = (revived \/ owner \in {"flag", "join"})
       \/ open /\ UNCHANGED <<open, reset, reads, revived>>
    /\ ready' = Rest
    /\ UNCHANGED <<owner, starts, running, leftover, io, accepting, writing, wq, users, out, stalled, refused>>

MUT_Reopen(r) == Close(r, FALSE) /\ UNCHANGED marks

\* close() and open().
Reopen(r) ==
    /\ Close(r, TRUE)
    /\ revived' = (revived \/ owner \in {"flag", "join"}) /\ refused' = FALSE

\* eof: close(), that is is_open() ...
PeerGone(r) ==
    IF open THEN io' = "closing" /\ ready' = r /\ UNCHANGED <<open, ops, marks>>
            ELSE Reopen(r) /\ UNCHANGED io

\* ... and the rest of it, and open().
CloseAtEof ==
    /\ io = "closing"
    /\ IF ShutdownFails THEN Fail(ready) /\ UNCHANGED marks
                        ELSE io' = "run" /\ Reopen(ready)
    /\ UNCHANGED <<thread, wq, users, out, stalled>>

ReadEnds ==
    \/ Result = "err" /\ Fail(Rest) /\ UNCHANGED marks
    \/ Result = "eof" /\ PeerGone(Rest)

\* read_payload after an ill-formed header: the next header and a payload are read at once.
BadHeader == <<"header", "payload">>

OnHeader ==
    /\ Handles("header")
    /\ \/ ReadEnds
       \/ /\ Result = "ok"
          /\ \/ AsyncRead(Rest, <<"payload">>)
             \/ /\ Reads < MaxReads
                /\ AsyncRead(Rest, BadHeader)
          /\ UNCHANGED <<io, open, accepting, writing, marks>>
    /\ UNCHANGED <<thread, wq, users, out, stalled>>

\* Whatever the payload, the next header is read.
OnPayload ==
    /\ Handles("payload")
    /\ \/ ReadEnds
       \/ /\ Result = "ok"
          /\ AsyncRead(Rest, <<"header">>)
          /\ UNCHANGED <<io, open, accepting, writing, marks>>
    /\ UNCHANGED <<thread, wq, users, out, stalled>>

\* A peer connects, or accept() itself fails, which the handler only logs.
AcceptCompletes ==
    /\ accepting
    /\ accepting' = FALSE
    /\ \/ ready' = Append(ready, H("accept", "ok")) /\ UNCHANGED refused
       \/ refused' = TRUE /\ UNCHANGED ready
    /\ UNCHANGED <<thread, io, open, reads, writing, wq, users, out, stalled, revived>>

IoThread == \/ RunReturns \/ OnPost \/ OnWritten \/ WriteNext
            \/ OnAccept \/ OnHeader \/ OnPayload \/ CloseAtEof
Network  ==
    AcceptCompletes \/ ((ReadCompletes \/ WriteCompletes \/ ConnectionBreaks \/ Users) /\ UNCHANGED marks)
Next     == IoThread \/ Start \/ StopLooks \/ StopCloses \/ StopFlag \/ Join \/ Network

Spec == Init /\ [][Next]_vars

\* The I/O thread is scheduled, and stop() goes on once it was called.
FairSpec == Spec /\ WF_vars(IoThread) /\ WF_vars(StopCloses \/ StopFlag \/ Join)

-----------------------------------------------------------------------------
(* Properties.                                                             *)

\* The types of the state; the queues keep to their capacity.
TypeOK == TcpTypeOK /\ revived \in BOOLEAN /\ refused \in BOOLEAN

\* At most one write is in progress and write_in_progress_ says so, through every end and new
\* beginning of a connection (do_write, and the aborted handler that resets the flag).  Only
\* clear_queues between size_approx() and try_dequeue leaves the flag without a write, and
\* what the I/O thread leaves behind when it ends early meets the next start().
OneWrite == (open /\ io = "run" /\ ~stalled /\ ~revived /\ leftover # "handlers") =>
                Writes = (IF wip THEN 1 ELSE 0)

\* A connection that is open is being read: no ill-formed packet makes the device deaf.
Reading == (open /\ io = "run" /\ ~revived) => Reads >= 1

\* Between two connections the server listens: while its thread runs it has a connection or an
\* accept, outstanding or just completed.  Only an accept that fails, which is not repeated,
\* leaves it with neither.
Listens ==
    (io \in {"run", "dequeue", "closing"} /\ owner \in {"up", "shut"} /\ ~refused) =>
        (open \/ accepting \/ Waiting({"accept"}) # {})

\* The server serves: it reads from the peer it has, or waits for the next one.
Serves == TypeOK /\ Reading /\ Listens

\* The packets of each writer are sent in order and at most once, across the connections.
InOrder == Promise!Spec

\* stop() returns, or throws, unless a connection that had just ended or begun when it closed
\* the transport made the I/O thread open it again: then join() waits for the next peer.
StopReturns == (owner \in {"shut", "flag"}) ~> (owner \in {"idle", "threw"} \/ revived)
=============================================================================
