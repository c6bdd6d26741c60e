------------------------------ MODULE SendData ------------------------------
(***************************************************************************)
(* Slave::send_data and slave::RequestManager::send_data (slave.cpp,       *)
(* slave_request.cpp) with Packet::make_data (packet.cpp): one call by an  *)
(* application thread that groups blocks into packets, while the Slave     *)
(* thread sends acknowledgements over the same transport with ids from the *)
(* same counter packet_id_.                                                *)
(*                                                                         *)
(* A block is its size, block header included (BlockView::size); what is   *)
(* in it is Content.  The packets are made and parsed as Packet says.      *)
(* The vector payload always holds a run of consecutive blocks: those from *)
(* first to next - 1.  A call may come when any number of ids are taken,   *)
(* and packet_id_ comes round.                                             *)
(***************************************************************************)
EXTENDS Packet

CONSTANTS
    IdMod,         \* 2^16 in the code: the range of Packet::Id
    FirstIds,      \* what earlier packets may have left in packet_id_: any id in the code
    Sizes,         \* the sizes a block can have
    MaxBlocks,     \* blocks in one call (bound)
    MaxAcks        \* acknowledgements the Slave thread sends meanwhile (bound)

ASSUME SendAssumption ==
    /\ Sizes \subseteq {n \in Nat : n >= SizeofBHeader}
    /\ MaxBlocks \in Nat /\ MaxAcks \in Nat
    /\ IdMod \in Nat \ {0} /\ IdMod <= Word
    /\ FirstIds \subseteq 0 .. IdMod - 1

\* max_pl_size can be counted by Header::len, and an identification fits a packet.
ASSUME RoomAssumption == MaxPl < Word /\ MaxPl >= 12 /\ CountMod > 4

VARIABLES
    pc,                     \* the application thread
    blocks,                 \* the argument of the call
    next, first,            \* the block the loop is at; the first block of payload
    payload_size,
    packets,                \* the packets written, as [from, to] of their blocks
    packet_id,
    taken,                  \* history: the ids taken since packet_id_ was 0
    data_id, ack_id,        \* the ids the two threads have taken, and which ones they were
    acks,
    wire                    \* the same of the packets in the transport's write queue, in order

locals == <<blocks, next, first, payload_size, packets>>
ids    == <<packet_id, taken>>
vars   == <<pc, locals, ids, data_id, ack_id, acks, wire>>

TakenId == [id : 0 .. IdMod - 1, nth : Nat]
NoId    == [id |-> 0, nth |-> 0]

Failures == {"write_while_disconnected", "data_too_big", "packet", "transport"}
Running  == {"idle", "loop", "write"}

Init ==
    /\ pc = "idle"
    /\ blocks \in UNION {[1 .. n -> Sizes] : n \in 0 .. MaxBlocks}
    /\ next = 1 /\ first = 1
    /\ payload_size = 0
    /\ packets = <<>>
    /\ packet_id \in FirstIds /\ taken = packet_id
    /\ data_id = NoId /\ ack_id = NoId
    /\ acks = 0
    /\ wire = <<>>

-----------------------------------------------------------------------------

\* ++packet_id_, of an atomic<uint16_t>.
NextId == [id |-> (packet_id + 1) % IdMod, nth |-> taken + 1]
TakeId == packet_id' = NextId.id /\ taken' = NextId.nth

\* Slave::send_data: the state is looked at once, before the loop.
SendData ==
    /\ pc = "idle"
    /\ pc' \in {"loop", "write_while_disconnected"}
    /\ UNCHANGED <<locals, ids, data_id, ack_id, acks, wire>>

AtBlock == next <= Len(blocks) /\ blocks[next] <= MaxPl

\* A block that fits no packet: what was written before stays written.
DataTooBig ==
    /\ pc = "loop" /\ next <= Len(blocks) /\ blocks[next] > MaxPl
    /\ pc' = "data_too_big"
    /\ UNCHANGED <<locals, ids, data_id, ack_id, acks, wire>>

MUT_FullEarly == payload_size + blocks[next] >= MaxPl
MUT_FullLate == payload_size > MaxPl
Full == payload_size + blocks[next] > MaxPl

\* push_back.
Push ==
    /\ pc = "loop" /\ AtBlock /\ ~Full
    /\ next' = next + 1
    /\ payload_size' = payload_size + blocks[next]
    /\ UNCHANGED <<pc, blocks, first, packets, ids, data_id, ack_id, acks, wire>>

\* The packet is full, or the loop is over and blocks are left.
FlushDue == (AtBlock /\ Full) \/ (next > Len(blocks) /\ first < next)

\* The blocks of the call, each with its own content.  One that has the size for it holds a
\* whole packet: the data of an application can be anything.
Content(i) ==
    IF blocks[i] = SizeofBHeader + SizeofHeader THEN make_keepalive(i)
    ELSE [j \in 1 .. blocks[i] - SizeofBHeader |-> (i + j) % Byte]
BlockAt(i)       == [type |-> i % 4, data |-> Content(i)]
Blocks(from, to) == [k \in 1 .. to + 1 - from |-> BlockAt(from - 1 + k)]

\* make_data ends in the constructor of Packet, which parses what was made.  It counts the
\* blocks again, and compares the number with n_block, which make_header cut to 8 bits.
MadeVerdict == Verdict(make_data(NextId.id, Blocks(first, next - 1)))

\* ++packet_id_ and make_data.
MakeData ==
    /\ pc = "loop" /\ FlushDue
    /\ TakeId
    /\ data_id' = NextId
    /\ pc' = IF MadeVerdict = "none" THEN "write" ELSE "packet"
    /\ UNCHANGED <<locals, ack_id, acks, wire>>

MUT_Write ==
    /\ pc = "write"
    /\ wire' = Append(wire, data_id)
    /\ packets' = Append(packets, [from |-> first, to |-> next - 1])
    /\ first' = IF next > Len(blocks) THEN next ELSE first
    /\ payload_size' = 0
    /\ pc' = "loop"
    /\ UNCHANGED <<blocks, next, ids, data_id, ack_id, acks>>

\* transport_->write, then payload.clear() and payload_size = 0.
Write ==
    /\ pc = "write"
    /\ wire' = Append(wire, data_id)
    /\ packets' = Append(packets, [from |-> first, to |-> next - 1])
    /\ first' = next
    /\ payload_size' = 0
    /\ pc' = "loop"
    /\ UNCHANGED <<blocks, next, ids, data_id, ack_id, acks>>

\* The transport is closed, or its queue is full.
WriteThrows ==
    /\ pc = "write"
    /\ pc' = "transport"
    /\ UNCHANGED <<locals, ids, data_id, ack_id, acks, wire>>

Return ==
    /\ pc = "loop" /\ next > Len(blocks) /\ first = next
    /\ pc' = "returned"
    /\ UNCHANGED <<locals, ids, data_id, ack_id, acks, wire>>

\* The Slave thread in send_cmd_ack and keepalive: an id first, the write after it.
TakeAckId ==
    /\ ack_id = NoId /\ acks < MaxAcks
    /\ TakeId
    /\ ack_id' = NextId
    /\ acks' = acks + 1
    /\ UNCHANGED <<pc, locals, data_id, wire>>

WriteAck ==
    /\ ack_id # NoId
    /\ wire' = Append(wire, ack_id)
    /\ ack_id' = NoId
    /\ UNCHANGED <<pc, locals, ids, data_id, acks>>

Next == \/ SendData \/ DataTooBig \/ Push \/ MakeData \/ Write \/ WriteThrows \/ Return
        \/ TakeAckId \/ WriteAck

Spec == Init /\ [][Next]_vars

-----------------------------------------------------------------------------
(* Properties.                                                             *)

\* The cells of the first blocks of the call, and of a run of them.
Total[i \in 0 .. Len(blocks)] == IF i = 0 THEN 0 ELSE Total[i - 1] + blocks[i]
Bytes(from, to) == Total[to] - Total[from - 1]

\* The values of the variables; what is counted for a packet never exceeds max_pl_size.
TypeOK ==
    /\ pc \in Running \cup Failures \cup {"returned"}
    /\ blocks \in Seq(Sizes)
    /\ first \in 1 .. next /\ next \in 1 .. Len(blocks) + 1
    /\ payload_size \in 0 .. MaxPl
    /\ packets \in Seq([from : Nat, to : Nat])
    /\ packet_id \in 0 .. IdMod - 1 /\ taken \in Nat
    /\ data_id \in TakenId /\ ack_id \in TakenId
    /\ acks \in 0 .. MaxAcks
    /\ wire \in Seq(TakenId)

\* Every block is in exactly one packet and in the order of the call: the packets written so
\* far are consecutive runs of blocks, none is empty, and send_data returns only when the
\* last block is written (the flush after the loop, the clear after each write).
EveryBlockOnce ==
    /\ \A k \in 1 .. Len(packets) :
          /\ packets[k].from = IF k = 1 THEN 1 ELSE packets[k - 1].to + 1
          /\ packets[k].from <= packets[k].to
    /\ first = IF packets = <<>> THEN 1 ELSE packets[Len(packets)].to + 1
    /\ pc = "returned" => first = Len(blocks) + 1

\* No packet is larger than a packet can be, and none is written early: the block that
\* follows it would not have fitted.
PacketsFilled ==
    \A k \in 1 .. Len(packets) :
        LET bytes == Bytes(packets[k].from, packets[k].to)
        IN  /\ bytes <= MaxPl
            /\ packets[k].to < Len(blocks) => bytes + blocks[packets[k].to + 1] > MaxPl

\* A packet of every other kind that the two sides send.
OneOfEach(id) ==
    {make_cmd_ack(id, 1, id), make_keepalive_ack(id), make_keepalive(id),
     make_command(id, 1, <<SOP, id>>),
     make_hip(id, <<<<1>>, <<>>, <<SOP>>, <<2, 3>>>>),
     make_dip(id, <<<<>>, <<1>>, <<2, 3>>, <<SOP>>>>)}

\* The packets that are about to be written: the data packet, and one of every kind with the
\* id that an acknowledgement has taken before the call.
ToWrite ==
    (IF pc # "write" THEN {} ELSE {make_data(data_id.id, Blocks(first, next - 1))})
    \cup (IF ack_id = NoId \/ pc # "idle" THEN {} ELSE OneOfEach(ack_id.id))

\* An id comes again only when packet_id_ has come round: the application's thread and the Slave
\* thread take their ids and write in any order, and two packets that have the same id took
\* theirs IdMod ids apart, or more.
IdsApart ==
    \A i, j \in DOMAIN wire :
        (i # j /\ wire[i].id = wire[j].id) =>
            \/ wire[i].nth + IdMod <= wire[j].nth
            \/ wire[j].nth + IdMod <= wire[i].nth

\* The other side reads what is written: each packet is accepted, cell for cell, a data packet
\* gives back its blocks with their types, lengths and contents, and those that have the same id
\* are a round of the counter apart.
HostReads ==
    /\ IdsApart
    /\ \A p \in ToWrite :
          /\ Verdict(p) = "none" /\ Copied(p) = p
          /\ type_of(p) = Types.data => blocks_of(payload_of(p)) = Blocks(first, next - 1)

Damaged(p, at) == {[p EXCEPT ![i] = (@ + d) % Byte] : i \in at, d \in 1 .. Byte - 1}
Swapped(p) ==
    {[p EXCEPT ![i] = p[i + 1], ![i + 1] = p[i]] :
        i \in {j \in 1 .. Len(p) - 1 : p[j] % Byte # p[j + 1] % Byte}}
CutShort(p) == {SubSeq(p, 1, n) : n \in 0 .. Len(p) - 1}

\* A packet begins somewhere behind the first cell of this one.
PacketInside(p) == \E i \in 2 .. Len(p) : Verdict(SubSeq(p, i, Len(p))) = "none"

\* A packet that was damaged on the way is refused: one cell has changed, two neighbours have
\* changed places (compute_crc's second sum), or its end is missing.  Only the loss of its start
\* may go unseen, and only when a whole packet stands in it: find(sop) goes on to that one.
DamageRefused ==
    \A p \in ToWrite :
        /\ \A v \in Damaged(p, 2 .. Len(p)) \cup Swapped(p) \cup CutShort(p) : Verdict(v) # "none"
        /\ \A v \in Damaged(p, {1}) : Verdict(v) = "none" => PacketInside(p)

\* As the comments of the constructor say, it finds the start of the packet, and copies the
\* buffer it has found to be valid: what comes before the packet does not change what is read.
JunkIsSkipped == \A p \in ToWrite : Verdict(<<0>> \o p) = "none" => Copied(<<0>> \o p) = p
=============================================================================
