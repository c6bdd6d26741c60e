------------------------------- MODULE Packet -------------------------------
(***************************************************************************)
(* The packet codec (packet.h, packet.cpp): how a packet is put together   *)
(* and what the constructor of Packet and the two parse functions refuse.  *)
(*                                                                         *)
(* A buffer is a sequence of cells.  A field of the header or of a block   *)
(* header is one cell, whatever its width; a CRC is two, CRCA and CRCB.    *)
(***************************************************************************)
EXTENDS Naturals, Sequences

CONSTANTS
    MaxPl,       \* Packet::max_pl_size, 2035 in the code
    CountMod,    \* 2^8 in the code: the range of Header::n_block
    Word,        \* 2^16 in the code: the range of an id, of Header::len and BHeader::len
    Byte         \* 2^8 in the code: what compute_crc adds up is taken modulo it

ASSUME PacketAssumption ==
    /\ MaxPl \in Nat \ {0}
    /\ CountMod \in Nat \ {0}
    /\ Word \in Nat \ {0}
    /\ Byte \in Nat /\ Byte > 8

Cell  == 0 .. Byte - 1
SOP   == Byte - 1
VER   == 1
Types == [hip |-> 1, ka |-> 2, cmd |-> 3, dip |-> 4, ka_ack |-> 5, cmd_ack |-> 6, data |-> 7]

\* The fields of Header in their order: the place of each.
len     == 3
type    == 5
n_block == 6

SizeofHeader  == 10
SizeofBHeader == 2

Cells(v, from, n) == SubSeq(v, from, from + n - 1)

MUT_compute_crc(v) ==
    LET f[i \in 0 .. Len(v)] == IF i = 0 THEN 0 ELSE (f[i - 1] + v[i]) % Byte
    IN  <<f[Len(v)], f[Len(v)]>>

compute_crc(v) ==
    LET f[i \in 0 .. Len(v)] ==
          IF i = 0 THEN <<0, 0>>
          ELSE LET crc == f[i - 1] IN <<(crc[1] + v[i]) % Byte, (crc[2] + crc[1] + v[i]) % Byte>>
    IN  f[Len(v)]

-----------------------------------------------------------------------------
(* Making packets.  A block is [type, data].                               *)

MUT_make_block(b) == <<b.type, Len(b.data) + SizeofBHeader>> \o b.data

make_block(b) == <<b.type, Len(b.data) % Word>> \o b.data

make_payload(bs) ==
    LET f[i \in 0 .. Len(bs)] == IF i = 0 THEN <<>> ELSE f[i - 1] \o make_block(bs[i])
    IN  f[Len(bs)]

make_header(id, t, n, payload) ==
    LET h == <<SOP, VER, Len(payload) % Word, id % Word, t, n % CountMod>> \o compute_crc(payload)
    IN  h \o compute_crc(h)

Make(id, t, bs) == make_header(id, t, Len(bs), make_payload(bs)) \o make_payload(bs)

make_command(id, t, data)   == Make(id, Types.cmd, <<[type |-> t, data |-> data]>>)
make_cmd_ack(id, t, cmd_id) == Make(id, Types.cmd_ack, <<[type |-> t, data |-> <<cmd_id % Word>>]>>)
make_data(id, bs)           == Make(id, Types.data, bs)
make_keepalive(id)          == Make(id, Types.ka, <<>>)
make_keepalive_ack(id)      == Make(id, Types.ka_ack, <<>>)

\* name, serial_number, hw_version and sw_version are blocks of types 1 to 4.
Identification(s)  == [i \in 1 .. 4 |-> [type |-> i, data |-> s[i]]]
make_hip(id, host) == Make(id, Types.hip, Identification(host))
make_dip(id, dev)  == Make(id, Types.dip, Identification(dev))

-----------------------------------------------------------------------------
(* Reading packets.                                                        *)

\* blocks(): the blocks from position i on; one that is cut short ends the list.
blocks_of(payload) ==
    LET f[i \in 1 .. Len(payload) + 1] ==
          IF i + 1 > Len(payload) \/ i + 1 + payload[i + 1] > Len(payload) THEN <<>>
          ELSE <<[type |-> payload[i], data |-> Cells(payload, i + 2, payload[i + 1])]>>
                   \o f[i + 2 + payload[i + 1]]
    IN  f[1]

\* What parse_header throws for the cells of a header, "none" if nothing.
parse_header(h) ==
    IF compute_crc(SubSeq(h, 1, 8)) # SubSeq(h, 9, 10) THEN "invalid_header_crc"
    ELSE IF h[1] # SOP THEN "sop_not_found"
    ELSE IF h[2] # VER THEN "invalid_protocol_version"
    ELSE IF \A k \in DOMAIN Types : h[type] # Types[k] THEN "invalid_packet_type"
    ELSE IF h[len] > MaxPl THEN "payload_exceed_max_size"
    ELSE "none"

parse_payload(v, h) ==
    IF h[len] # Len(v) THEN "invalid_buffer_size"
    ELSE IF SubSeq(h, 7, 8) # compute_crc(v) THEN "invalid_payload_crc"
    ELSE IF h[n_block] # Len(blocks_of(v)) THEN "invalid_number_of_block"
    ELSE "none"

\* v.find(sop): the place of the first start of packet; Len(v) + 1 stands for npos.
find_sop(v) == CHOOSE i \in 1 .. Len(v) + 1 :
                  /\ i <= Len(v) => v[i] = SOP
                  /\ \A j \in 1 .. i - 1 : v[j] # SOP

\* What the constructor throws for a buffer, and what it copies otherwise: it looks at the
\* packet at pos and copies as many cells from the beginning of the buffer.
Verdict(v) ==
    LET pos == find_sop(v)
        h   == Cells(v, pos, SizeofHeader)
        end == pos - 1 + SizeofHeader
    IN  IF pos > Len(v) THEN "sop_not_found"
        ELSE IF end > Len(v) THEN "invalid_buffer_size"
        ELSE IF parse_header(h) # "none" THEN parse_header(h)
        ELSE IF end + h[len] > Len(v) THEN "invalid_buffer_size"
        ELSE parse_payload(Cells(v, end + 1, h[len]), h)

Copied(v) == Cells(v, 1, SizeofHeader + v[find_sop(v) - 1 + len])

\* A constructed packet's type() and payload().
type_of(p)    == p[type]
payload_of(p) == Cells(p, SizeofHeader + 1, p[len])
=============================================================================
