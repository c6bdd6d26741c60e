-------------------------------- MODULE Hdcp --------------------------------
(***************************************************************************)
(* The protocol: a Master and a Slave (master.cpp, master_request.cpp,     *)
(* slave.cpp, slave_request.cpp) over one connection that delivers in      *)
(* order and may lose packets (a full queue, an ill-formed packet, a write *)
(* that throws).                                                           *)
(*                                                                         *)
(* The grain is coarse: what a wakeup does with one packet or one timeout, *)
(* the transition it causes and the first handler of the next state        *)
(* included, is one step.  The races inside a wakeup are in Master, Slave  *)
(* and MasterRequest; the call of send_command is split here too, for a    *)
(* whole restart fits between its steps.  A timer that is armed may expire *)
(* at any time; only the keep-alive interval, which commands postpone, is  *)
(* counted.                                                                *)
(*                                                                         *)
(* Each packet carries, as history, the session of the Master in which it  *)
(* was sent, or in which the packet it answers was.  The code has no such  *)
(* number: it goes by the state it is in and by packet_id_, which starts   *)
(* again from 0 with every session.                                        *)
(***************************************************************************)
EXTENDS Naturals, Sequences, SequencesExt

CONSTANTS
    MaxAttempts,    \* max_connection_attempts, 3 in the code
    MaxSessions,    \* sessions the host begins (bound)
    MaxId,          \* the last packet id before they wrap, 2^16 - 1 in the code
    MaxToSlave,     \* packets on their way to the device, others are lost (bound)
    MaxToMaster     \* packets on their way to the host

ASSUME HdcpAssumption ==
    /\ MaxAttempts \in Nat \ {0} /\ MaxSessions \in Nat /\ MaxId \in Nat \ {0}
    /\ MaxToSlave \in Nat /\ MaxToMaster \in Nat

VARIABLES
    \* the host
    ms,                 \* Master's state
    attempts,           \* connection_attempts_
    packet_id,          \* the manager's packet_id_
    requests,           \* requests_: the id of each command and, as history, its session
    call,               \* where a call of send_command is, with its packet's id and session
    alive,              \* does the manager's thread run?
    kaTimer,            \* is a keep-alive timeout armed?
    kaDue,              \* keepalive_interval passed since the management timer was set
    \* the device
    ss,                 \* Slave's state
    watched,            \* is its keep-alive timer armed?
    kaLeft,             \* first_ka_received is pending: the session of its handshake, or 0
    \* the connection, both directions, with the queues at its ends
    toSlave, toMaster,
    \* history
    session,            \* the host's sessions so far
    served,             \* the session of the HIP the device answered, 0 in disconnected
    confirmed,          \* that of the handshake whose keep-alive connected the device, or 0
    ownDip,             \* the host is connected, by a DIP that answers a HIP of this session
    reached,            \* the last session in which the host was connected
    overtaken           \* a call that a restart overtook put its request into this session

manager  == <<alive, kaTimer, kaDue>>
commands == <<requests, call, overtaken>>
sessions == <<session, ownDip, reached>>
host     == <<ms, attempts, packet_id, manager, commands, sessions>>
device   == <<ss, watched, kaLeft, served, confirmed>>
vars     == <<host, device, toSlave, toMaster>>

P(t, id, s)  == [t |-> t, id |-> id, s |-> s]
Types        == {"hip", "dip", "ka", "ka_ack", "cmd", "cmd_ack"}
Packets      == [t : Types, id : 0 .. MaxId, s : 1 .. MaxSessions]
Put(wire, max, p) == IF Len(wire) < max THEN Append(wire, p) ELSE wire

\* What a write adds to each direction.
Down(wire, p) == Put(wire, MaxToSlave, p)
Up(wire, p)   == Put(wire, MaxToMaster, p)

NoCall == [at |-> "idle", id |-> 0, s |-> 0]

Init ==
    /\ ms = "disconnected" /\ attempts = 0 /\ packet_id = 0
    /\ requests = {} /\ call = NoCall
    /\ alive = FALSE /\ kaTimer = FALSE /\ kaDue = FALSE
    /\ ss = "disconnected" /\ watched = FALSE /\ kaLeft = 0
    /\ toSlave = <<>> /\ toMaster = <<>>
    /\ session = 0 /\ served = 0 /\ confirmed = 0
    /\ ownDip = FALSE /\ reached = 0 /\ overtaken = FALSE

-----------------------------------------------------------------------------
(* The host's sessions.                                                    *)

NextId == (packet_id + 1) % (MaxId + 1)

MUT_Cleared == requests

\* RequestManager::clear()
Cleared == {}

\* A connection is requested: clear_queues() empties what has arrived and what has not left,
\* the manager starts anew, and the first HIP is sent.
Connect ==
    /\ ms = "disconnected" /\ session < MaxSessions
    /\ ms' = "connecting" /\ session' = session + 1
    /\ attempts' = 1 /\ packet_id' = 1
    /\ alive' = TRUE /\ kaTimer' = FALSE /\ kaDue' = FALSE
    /\ requests' = Cleared /\ overtaken' = FALSE
    /\ toMaster' \in Suffixes(toMaster)
    /\ \E w \in Prefixes(toSlave) : toSlave' = Down(w, P("hip", 1, session'))
    /\ UNCHANGED <<call, ownDip, reached, device>>

\* The manager is stopped on entering disconnected.
Leave ==
    /\ ms' = "disconnected"
    /\ alive' = FALSE /\ kaTimer' = FALSE /\ kaDue' = FALSE
    /\ ownDip' = FALSE

\* dip_timeout: the next attempt, or the end of connecting.  One that arrives between
\* check_dip_timeout and the next handler makes another attempt whatever their number.
DipTimeout ==
    /\ ms = "connecting" /\ alive
    /\ \/ /\ attempts' = Min({attempts + 1, MaxAttempts})
          /\ packet_id' = NextId
          /\ toSlave' = Down(toSlave, P("hip", NextId, session))
          /\ UNCHANGED <<ms, manager, ownDip>>
       \/ /\ attempts >= MaxAttempts
          /\ Leave
          /\ UNCHANGED <<attempts, packet_id, toSlave>>
    /\ UNCHANGED <<commands, session, reached, device, toMaster>>

MasterReads(state) == ms = state /\ toMaster # <<>> /\ toMaster' = Tail(toMaster)
ToMaster           == Head(toMaster)

\* A DIP in connecting: connected, and the first keep-alive.  When its write throws no timeout
\* is armed for it; the management timer is set before.
ReadDip ==
    /\ MasterReads("connecting") /\ ToMaster.t = "dip"
    /\ ms' = "connected" /\ reached' = session
    /\ ownDip' = (ToMaster.s = session)
    /\ packet_id' = NextId
    /\ \/ kaTimer' = TRUE /\ toSlave' = Down(toSlave, P("ka", NextId, session))
       \/ UNCHANGED <<kaTimer, toSlave>>
    /\ UNCHANGED <<attempts, commands, alive, kaDue, session, device>>

\* A packet that is only logged, or an acknowledgement that finds no request.
MasterDrops ==
    /\ \/ MasterReads("connecting") /\ ToMaster.t # "dip"
       \/ /\ MasterReads("connected") /\ ToMaster.t \notin {"ka_ack"}
          /\ ToMaster.t = "cmd_ack" => \A r \in requests : r.id # ToMaster.id
    /\ UNCHANGED <<host, device, toSlave>>

\* ack_command: the request with that id is done.
AckCommand ==
    /\ MasterReads("connected") /\ ToMaster.t = "cmd_ack"
    /\ \E r \in requests : r.id = ToMaster.id
    /\ requests' = {r \in requests : r.id # ToMaster.id}
    /\ UNCHANGED <<ms, attempts, packet_id, call, overtaken, manager, sessions, device, toSlave>>

AckKeepalive ==
    /\ MasterReads("connected") /\ ToMaster.t = "ka_ack"
    /\ kaTimer' = FALSE
    /\ UNCHANGED <<ms, attempts, packet_id, commands, alive, kaDue, sessions, device, toSlave>>

\* ka_timeout.
KaTimeout ==
    /\ ms = "connected" /\ alive /\ kaTimer
    /\ Leave
    /\ UNCHANGED <<attempts, packet_id, commands, session, reached, device, toSlave, toMaster>>

\* The application asks for it, or a ka_timeout of an earlier session was left behind.
Disconnect ==
    /\ ms = "connected"
    /\ Leave
    /\ UNCHANGED <<attempts, packet_id, commands, session, reached, device, toSlave, toMaster>>

-----------------------------------------------------------------------------
(* The host's commands and keep-alives.                                    *)

\* Master::send_command finds the state connected ...
BeginCommand ==
    /\ ms = "connected" /\ call.at = "idle"
    /\ call' = [call EXCEPT !.at = "checked"]
    /\ UNCHANGED <<ms, attempts, packet_id, requests, overtaken, manager, sessions, device,
                   toSlave, toMaster>>

\* ... the keep-alive is put off and the command written, in whatever state the Master is by
\* now; the call ends here if the write throws ...
WriteCommand ==
    /\ call.at = "checked"
    /\ kaDue' = FALSE /\ packet_id' = NextId
    /\ \/ /\ toSlave' = Down(toSlave, P("cmd", NextId, session))
          /\ call' = [at |-> "written", id |-> NextId, s |-> session]
       \/ call' = NoCall /\ UNCHANGED toSlave
    /\ UNCHANGED <<ms, attempts, requests, overtaken, alive, kaTimer, sessions, device, toMaster>>

\* ... and its request inserted, unless one with its id is pending: request_overrun.
InsertCommand ==
    /\ call.at = "written" /\ call' = NoCall
    /\ IF \A r \in requests : r.id # call.id
       THEN /\ requests' = requests \cup {[id |-> call.id, s |-> call.s]}
            /\ overtaken' = (overtaken \/ call.s # session)
       ELSE UNCHANGED <<requests, overtaken>>
    /\ UNCHANGED <<ms, attempts, packet_id, manager, sessions, device, toSlave, toMaster>>

\* cmd_timeout_cb with a retry left: the command is sent again, and the keep-alive put off.
RetryCommand ==
    /\ alive /\ kaDue' = FALSE
    /\ \E r \in requests : toSlave' = Down(toSlave, P("cmd", r.id, session))
    /\ UNCHANGED <<ms, attempts, packet_id, commands, alive, kaTimer, sessions, device, toMaster>>

\* cmd_timeout_cb without: the command is given up.
FailCommand ==
    /\ alive
    /\ \E r \in requests : requests' = requests \ {r}
    /\ UNCHANGED <<ms, attempts, packet_id, call, overtaken, manager, sessions, device, toSlave,
                   toMaster>>

\* keepalive_interval passes without a command or a retry.
Tick ==
    /\ ms = "connected" /\ alive /\ ~kaDue
    /\ kaDue' = TRUE
    /\ UNCHANGED <<ms, attempts, packet_id, commands, alive, kaTimer, sessions, device, toSlave,
                   toMaster>>

MUT_SendKeepalive ==
    /\ ms = "connected" /\ alive /\ kaDue
    /\ kaDue' = FALSE
    /\ packet_id' = NextId
    /\ toSlave' = Down(toSlave, P("ka", NextId, session))
    /\ UNCHANGED <<ms, attempts, commands, alive, kaTimer, sessions, device, toMaster>>

\* ka_mngt_timeout_cb
SendKeepalive ==
    /\ ms = "connected" /\ alive /\ kaDue
    /\ kaDue' = FALSE /\ kaTimer' = TRUE
    /\ packet_id' = NextId
    /\ toSlave' = Down(toSlave, P("ka", NextId, session))
    /\ UNCHANGED <<ms, attempts, commands, alive, sessions, device, toMaster>>

\* An exception ends the manager's thread (a write that throws, a timeout that finds no
\* request); nothing replaces it before the next session.
ManagerDies ==
    /\ alive
    /\ alive' = FALSE /\ kaTimer' = FALSE /\ kaDue' = FALSE
    /\ UNCHANGED <<ms, attempts, packet_id, commands, sessions, device, toSlave, toMaster>>

-----------------------------------------------------------------------------
(* The device.                                                             *)

SlaveReads(states) == ss \in states /\ toSlave # <<>> /\ toSlave' = Tail(toSlave)
ToSlave            == Head(toSlave)

\* A HIP in disconnected or connected: connecting, and the DIP; when its write throws no
\* keep-alive timer is armed either.  (A HIP whose wakeup also takes a keep-alive timeout passes
\* through disconnected on its way: the same, but for packets that clear_queues() loses.)
ReadHip ==
    /\ SlaveReads({"disconnected", "connected"}) /\ ToSlave.t = "hip"
    /\ ss' = "connecting" /\ served' = ToSlave.s /\ confirmed' = 0
    /\ \/ watched' = TRUE /\ toMaster' = Up(toMaster, P("dip", 1, ToSlave.s))
       \/ watched' = FALSE /\ UNCHANGED toMaster
    /\ UNCHANGED <<host, kaLeft>>

MUT_Answered(state) == IF state = "connecting" THEN {"ka", "hip"} ELSE {"ka", "cmd"}

\* The packets that keep the session alive in each state; the others are only logged.
Answered(state) == IF state = "connecting" THEN {"ka"} ELSE {"ka", "cmd"}

KaAck == Up(toMaster, P("ka_ack", 0, ToSlave.s))

\* keepalive(), and send_cmd_ack for a command.  In connecting check_connected takes the event
\* first_ka_received, whoever left it.
ReadAlive ==
    /\ SlaveReads({"connecting", "connected"}) /\ ToSlave.t \in Answered(ss)
    /\ ss' = "connected" /\ kaLeft' = 0
    /\ confirmed' = IF ss = "connecting" THEN served ELSE confirmed
    /\ toMaster' = IF ToSlave.t = "cmd" THEN Up(KaAck, P("cmd_ack", ToSlave.id, ToSlave.s))
                                        ELSE KaAck
    /\ UNCHANGED <<host, watched, served>>

\* The manager is stopped on entering disconnected.
GiveUp == ss' = "disconnected" /\ watched' = FALSE /\ served' = 0 /\ confirmed' = 0

\* The wakeup that reads the keep-alive in connecting also finds a timeout, and
\* check_ka_timeout comes before check_connected: the event stays for a later handshake.
ReadAliveTooLate ==
    /\ ss = "connecting" /\ watched
    /\ toSlave # <<>> /\ ToSlave.t \in Answered(ss)
    /\ GiveUp /\ kaLeft' = served
    /\ toSlave' \in Suffixes(Tail(toSlave)) /\ toMaster' \in Prefixes(KaAck)
    /\ UNCHANGED host

\* The handshake that finds the event left behind is over without a keep-alive.
ConnectLeft ==
    /\ ss = "connecting" /\ kaLeft # 0
    /\ ss' = "connected" /\ confirmed' = kaLeft
    /\ kaLeft' = 0
    /\ UNCHANGED <<host, watched, served, toSlave, toMaster>>

SlaveDrops ==
    /\ \/ SlaveReads({"disconnected"}) /\ ToSlave.t # "hip"
       \/ SlaveReads({"connecting"}) /\ ToSlave.t \notin Answered("connecting")
    /\ UNCHANGED <<host, device, toMaster>>

\* ka_timeout_cb, and the clear_queues() of disconnected.
SlaveKaTimeout ==
    /\ ss # "disconnected" /\ watched
    /\ GiveUp
    /\ toSlave' \in Suffixes(toSlave) /\ toMaster' \in Prefixes(toMaster)
    /\ UNCHANGED <<host, kaLeft>>

-----------------------------------------------------------------------------

Lose ==
    \/ \E i \in DOMAIN toSlave : toSlave' = RemoveAt(toSlave, i) /\ UNCHANGED <<host, device, toMaster>>
    \/ \E i \in DOMAIN toMaster : toMaster' = RemoveAt(toMaster, i) /\ UNCHANGED <<host, device, toSlave>>

MasterRead  == ReadDip \/ MasterDrops \/ AckCommand \/ AckKeepalive
SlaveRead   == ReadHip \/ ReadAlive \/ SlaveDrops
SendCommand == BeginCommand \/ WriteCommand \/ InsertCommand

Next == \/ Connect \/ DipTimeout \/ MasterRead \/ KaTimeout \/ Disconnect
        \/ SendCommand \/ RetryCommand \/ FailCommand \/ Tick \/ SendKeepalive \/ ManagerDies
        \/ SlaveRead \/ ReadAliveTooLate \/ ConnectLeft \/ SlaveKaTimeout \/ Lose

Spec == Init /\ [][Next]_vars

\* Each side reads what arrives and time passes for the manager of the host while it lives: its
\* keep-alives are sent when they are due, their timeouts expire unless acknowledged, and so
\* does the timer of a device to which nothing is on its way.
FairSpec ==
    /\ Spec
    /\ WF_vars(MasterRead) /\ WF_vars(SlaveRead)
    /\ WF_vars(Tick) /\ WF_vars(SendKeepalive) /\ WF_vars(KaTimeout)
    /\ WF_vars(toSlave = <<>> /\ SlaveKaTimeout)

-----------------------------------------------------------------------------
(* Properties.                                                             *)

\* The types of the state; packet ids are unique among the pending commands.
TypeOK ==
    /\ ms \in {"disconnected", "connecting", "connected"}
    /\ ss \in {"disconnected", "connecting", "connected"}
    /\ attempts \in 0 .. MaxAttempts /\ packet_id \in 0 .. MaxId
    /\ requests \subseteq [id : 0 .. MaxId, s : 1 .. MaxSessions]
    /\ \A q, r \in requests : q.id = r.id => q = r
    /\ call \in [at : {"idle", "checked", "written"}, id : 0 .. MaxId, s : 0 .. MaxSessions]
    /\ alive \in BOOLEAN /\ kaTimer \in BOOLEAN /\ kaDue \in BOOLEAN
    /\ watched \in BOOLEAN /\ ownDip \in BOOLEAN /\ overtaken \in BOOLEAN
    /\ session \in 0 .. MaxSessions /\ served \in 0 .. MaxSessions /\ reached \in 0 .. MaxSessions
    /\ kaLeft \in 0 .. MaxSessions /\ confirmed \in 0 .. MaxSessions
    /\ toSlave \in Seq(Packets) /\ toMaster \in Seq(Packets)
    /\ Len(toSlave) <= MaxToSlave /\ Len(toMaster) <= MaxToMaster

Crossed == AckCommand /\ \E r \in requests : r.id = ToMaster.id /\ r.s # ToMaster.s

\* An acknowledgement resolves only a command of the session it was sent in, although ids start
\* again with every session and wrap: what the device sent for an earlier one comes before the
\* DIP and is dropped in connecting.  Only a session that was connected by a late DIP, one that
\* answers a HIP of an earlier session, can take another session's acknowledgement; and a
\* request that a call overtaken by the restart puts into the new session can take one that is
\* not its own.
AckIsOwn == [][Crossed => ~ownDip \/ overtaken]_vars

\* A device is connected only if the host was, in the session of the HIP the device answered or
\* a later one: the keep-alive is the host's confirmation that it has read an identification.
\* For a device that an event left behind connects, it is the host of the handshake that left
\* it that was connected.
ConfirmedByHost == ss = "connected" => confirmed \in 1 .. reached

\* The two sides agree on the sessions that were established.
SessionsAgree == TypeOK /\ ConfirmedByHost

\* A session that only one side is in ends: the keep-alive timer of that side expires.  This
\* takes a manager that lives and has no command to send or to repeat for a keepalive_interval,
\* and a device whose DIP was written.
HalfOpenEnds ==
    /\ \/ []<><<WriteCommand \/ RetryCommand>>_vars
       \/ (ms = "connected" /\ ss = "disconnected" /\ alive)
             ~> (ms # "connected" \/ ss # "disconnected" \/ ~alive)
    /\ (ss = "connected" /\ ms = "disconnected" /\ watched)
             ~> (ss # "connected" \/ ms # "disconnected")
=============================================================================
