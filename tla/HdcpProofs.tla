----------------------------- MODULE HdcpProofs -----------------------------
(***************************************************************************)
(* What the protocol guarantees over a connection that loses packets, for  *)
(* any number of sessions, attempts and packet ids and any length of the   *)
(* wires: the two sides agree on the sessions that were established, and   *)
(* an acknowledgement is taken for a command of another session only where *)
(* a late identification connected the host or a call was overtaken by a   *)
(* restart.                                                                *)
(***************************************************************************)
EXTENDS Hdcp, TLAPS

Wires == Seq(Packets)

-----------------------------------------------------------------------------
(* The wires.                                                              *)

\* v is what is left of w when packets are lost or taken: no packet is new, and no two have
\* changed places.
Thins(v, w) ==
    /\ v \in Wires /\ Len(v) <= Len(w)
    /\ \A i, j \in DOMAIN v : i <= j =>
          \E k, l \in DOMAIN w : k <= l /\ v[i] = w[k] /\ v[j] = w[l]

LEMMA TailThins ==
    ASSUME NEW w \in Wires, w # <<>>
    PROVE  /\ Thins(Tail(w), w)
           /\ Head(w) = w[1] /\ 1 \in DOMAIN w /\ Head(w) \in Packets
  BY DEF Thins, Wires

LEMMA SubSeqThins ==
    ASSUME NEW w \in Wires, NEW m \in Nat, NEW n \in 0 .. Len(w), m > 0
    PROVE  Thins(SubSeq(w, m, n), w)
  BY DEF Thins, Wires

LEMMA PrefixThins == ASSUME NEW w \in Wires, NEW v \in Prefixes(w) PROVE Thins(v, w)
  <1>1. PICK n \in 0 .. Len(w) : v = SubSeq(w, 1, n)
    BY DEF Prefixes
  <1> QED
    BY <1>1, SubSeqThins

LEMMA SuffixThins == ASSUME NEW w \in Wires, NEW v \in Suffixes(w) PROVE Thins(v, w)
  <1>1. CASE v = <<>>
    BY <1>1 DEF Thins, Wires
  <1>2. CASE v # <<>>
    <2>1. PICK m \in 1 .. Len(w) : v = SubSeq(w, m, Len(w))
      BY <1>2 DEF Suffixes
    <2>2. m \in Nat /\ m > 0 /\ Len(w) \in 0 .. Len(w)
      BY DEF Wires
    <2> QED
      BY <2>1, <2>2, SubSeqThins
  <1> QED
    BY <1>1, <1>2

LEMMA RemoveThins ==
    ASSUME NEW w \in Wires, NEW n \in DOMAIN w
    PROVE  Thins(RemoveAt(w, n), w)
  <1> DEFINE a == SubSeq(w, 1, n - 1)
             b == SubSeq(w, n + 1, Len(w))
             at(i) == IF i < n THEN i ELSE i + 1
  <1>1. Len(w) \in Nat /\ n \in 1 .. Len(w)
    BY DEF Wires
  <1>2. /\ a \in Wires /\ Len(a) = n - 1
        /\ \A i \in 1 .. n - 1 : a[i] = w[i]
    BY <1>1 DEF Wires
  <1>3. /\ b \in Wires /\ Len(b) = Len(w) - n
        /\ \A i \in 1 .. Len(w) - n : b[i] = w[n + i]
    BY <1>1 DEF Wires
  <1> HIDE DEF a, b
  <1> DEFINE r == a \o b
  <1>4. r \in Wires /\ Len(r) = Len(w) - 1 /\ DOMAIN r = 1 .. Len(w) - 1
    BY <1>1, <1>2, <1>3 DEF Wires
  <1>5. ASSUME NEW i \in 1 .. Len(w) - 1
        PROVE  at(i) \in DOMAIN w /\ r[i] = w[at(i)]
    <2>1. CASE i < n
      BY <1>1, <1>2, <1>3, <2>1 DEF Wires
    <2>2. CASE ~(i < n)
      <3>1. r[i] = b[i - (n - 1)]
        BY SMTT(20), <1>1, <1>2, <1>3, <2>2 DEF Wires
      <3> QED
        BY <1>1, <1>3, <2>2, <3>1 DEF Wires
    <2> QED
      BY <2>1, <2>2
  <1>6. \A i, j \in 1 .. Len(w) - 1 : i <= j => at(i) <= at(j)
    BY <1>1
  <1>7. RemoveAt(w, n) = r
    BY DEF RemoveAt, a, b
  <1> HIDE DEF at, r
  <1>8. \A i, j \in DOMAIN r : i <= j =>
           \E k, l \in DOMAIN w : k <= l /\ r[i] = w[k] /\ r[j] = w[l]
    BY <1>4, <1>5, <1>6
  <1>9. Len(r) <= Len(w)
    BY <1>1, <1>4
  <1>10. Thins(r, w)
    BY <1>4, <1>8, <1>9 DEF Thins
  <1> QED
    BY <1>7, <1>10

LEMMA ThinsTrans ==
    ASSUME NEW w \in Wires, NEW v, NEW u, Thins(v, w), Thins(u, v)
    PROVE  Thins(u, w)
  <1>1. Len(w) \in Nat /\ Len(v) \in Nat /\ Len(u) \in Nat /\ u \in Wires
    BY DEF Thins, Wires
  <1>2. Len(u) <= Len(w)
    BY <1>1 DEF Thins
  <1>3. ASSUME NEW i \in DOMAIN u, NEW j \in DOMAIN u, i <= j
        PROVE  \E k, l \in DOMAIN w : k <= l /\ u[i] = w[k] /\ u[j] = w[l]
    <2>1. PICK k \in DOMAIN v, l \in DOMAIN v : k <= l /\ u[i] = v[k] /\ u[j] = v[l]
      BY <1>3 DEF Thins
    <2> QED
      BY <2>1 DEF Thins
  <1> QED
    BY <1>1, <1>2, <1>3 DEF Thins

LEMMA MinOfTwo == ASSUME NEW a \in Nat, NEW b \in Nat
                  PROVE  Min({a, b}) \in {a, b} /\ Min({a, b}) <= a /\ Min({a, b}) <= b
  <1> DEFINE Least(x) == x \in {a, b} /\ \A y \in {a, b} : x =< y
  <1>1. \E x : Least(x)
    BY DEF Least
  <1>2. Least(CHOOSE x : Least(x))
    BY <1>1
  <1> QED
    BY <1>2 DEF Min

-----------------------------------------------------------------------------
(* The invariant.                                                          *)

Sorted(w)   == \A i, j \in DOMAIN w : i <= j => w[i].s <= w[j].s
Below(w, n) == \A i \in DOMAIN w : w[i].s <= n
Above(w, n) == \A i \in DOMAIN w : n <= w[i].s

\* What is on its way to the device, and before it what the device has answered, belongs to
\* sessions in the order in which the host began them.
WireOrder ==
    /\ Sorted(toSlave) /\ Sorted(toMaster)
    /\ Below(toSlave, session) /\ Below(toMaster, session)
    /\ \A i \in DOMAIN toMaster, j \in DOMAIN toSlave : toMaster[i].s <= toSlave[j].s

\* The host's own account of its session: its pending commands are of the current one unless a
\* call was overtaken.
HostInv ==
    /\ ~overtaken => \A r \in requests : r.s = session
    /\ call.at = "written" => call.s > 0
    /\ ms # "disconnected" \/ call.at # "idle" => session > 0
    /\ alive => ms # "disconnected"
    /\ reached <= session
    /\ ms = "connected" => reached = session
    /\ ownDip => ms = "connected"

\* Nothing that comes before the HIP the device answered is still on its way to it, and an
\* event it left behind is of a handshake that a connected host confirmed.
DeviceInv ==
    /\ served <= session /\ Above(toSlave, served)
    /\ ss # "disconnected" => served > 0
    /\ kaLeft <= reached

\* Keep-alives are sent only in a session in which the host was connected.
ConfirmSent ==
    \A i \in DOMAIN toSlave : toSlave[i].t = "ka" => toSlave[i].s <= reached

\* Behind a DIP of the host's own session there is nothing of an earlier one.
OwnWires ==
    (ms = "connected" /\ ownDip) => Above(toSlave, session) /\ Above(toMaster, session)

HInv == WireOrder /\ HostInv /\ DeviceInv /\ ConfirmSent /\ OwnWires /\ ConfirmedByHost

-----------------------------------------------------------------------------
(* What the operations on a wire keep.                                     *)

LEMMA ThinsKeeps ==
    ASSUME NEW w \in Wires, NEW v, Thins(v, w)
    PROVE  /\ \A i \in DOMAIN v : \E k \in DOMAIN w : v[i] = w[k]
           /\ Sorted(w) => Sorted(v)
           /\ \A n : Below(w, n) => Below(v, n)
           /\ \A n : Above(w, n) => Above(v, n)
  <1>1. DOMAIN v = 1 .. Len(v) /\ Len(v) \in Nat
    BY DEF Thins, Wires
  <1>2. \A i \in DOMAIN v : \E k \in DOMAIN w : v[i] = w[k]
    BY <1>1 DEF Thins
  <1>3. Sorted(w) => Sorted(v)
    BY DEF Thins, Sorted
  <1> QED
    BY <1>2, <1>3 DEF Below, Above

LEMMA SelfThins == ASSUME NEW w \in Wires PROVE Thins(w, w)
  BY DEF Thins, Wires

LEMMA PutKeeps ==
    ASSUME NEW w \in Wires, NEW max \in Nat, NEW p \in Packets, NEW u, u = Put(w, max, p)
    PROVE  /\ u \in Wires
           /\ Len(w) <= max => Len(u) <= max
           /\ \A i \in DOMAIN u : u[i] = p \/ \E k \in DOMAIN w : u[i] = w[k]
           /\ Sorted(w) /\ Below(w, p.s) => Sorted(u)
           /\ \A n : Below(w, n) /\ p.s <= n => Below(u, n)
           /\ \A n : Above(w, n) /\ n <= p.s => Above(u, n)
  <1>2. CASE u = w
    BY <1>2
  <1>3. CASE u # w
    <2>1. Len(w) < max /\ u = Append(w, p)
      BY <1>3 DEF Put
    <2>2. /\ u \in Wires /\ Len(u) = Len(w) + 1 /\ Len(w) \in Nat
          /\ DOMAIN u = 1 .. Len(w) + 1 /\ DOMAIN w = 1 .. Len(w)
          /\ u[Len(w) + 1] = p
          /\ \A i \in 1 .. Len(w) : u[i] = w[i]
      BY <2>1 DEF Wires
    <2> HIDE <2>1
    <2>3. \A i \in DOMAIN u : i = Len(w) + 1 \/ i \in DOMAIN w
      BY <2>2
    <2>4. \A i \in DOMAIN u : u[i] = p \/ (i \in DOMAIN w /\ u[i] = w[i])
      BY <2>2, <2>3
    <2>5. \A n : Below(w, n) /\ p.s <= n => Below(u, n)
      BY <2>4 DEF Below
    <2>6. \A n : Above(w, n) /\ n <= p.s => Above(u, n)
      BY <2>4 DEF Above
    <2>7. p.s <= p.s
      BY HdcpAssumption DEF Packets
    <2>8. ASSUME Sorted(w), Below(w, p.s), NEW i \in DOMAIN u, NEW j \in DOMAIN u, i <= j
          PROVE  u[i].s <= u[j].s
      BY <2>2, <2>3, <2>7, <2>8 DEF Sorted, Below
    <2>9. Sorted(w) /\ Below(w, p.s) => Sorted(u)
      BY <2>8 DEF Sorted
    <2> QED
      BY <2>1, <2>2, <2>4, <2>5, <2>6, <2>9
  <1> QED
    BY <1>2, <1>3

-----------------------------------------------------------------------------
(* What a step does to the wires: packets are read or lost, the host sends *)
(* one, or the device reads one and answers it (and may lose more).        *)

Loses == Thins(toSlave', toSlave) /\ Thins(toMaster', toMaster)

HostSends ==
    /\ \E v \in Wires, p \in Packets :
          /\ Thins(v, toSlave) /\ toSlave' = Down(v, p)
          /\ p.s = session' /\ (p.t = "ka" => reached' = session')
    /\ Thins(toMaster', toMaster)

Answers ==
    /\ toSlave # <<>> /\ Thins(toSlave', toSlave)
    /\ \E p, q \in Packets, w \in Wires :
          /\ p.s = Head(toSlave).s /\ q.s = p.s
          /\ w \in {Up(toMaster, p), Up(Up(toMaster, p), q)}
          /\ Thins(toMaster', w)

\* PutKeeps for the two directions.
LEMMA DownKeeps ==
    ASSUME NEW w \in Wires, NEW p \in Packets, NEW u, u = Down(w, p)
    PROVE  /\ u \in Wires
           /\ Len(w) <= MaxToSlave => Len(u) <= MaxToSlave
           /\ \A i \in DOMAIN u : u[i] = p \/ \E k \in DOMAIN w : u[i] = w[k]
           /\ Sorted(w) /\ Below(w, p.s) => Sorted(u)
           /\ \A n : Below(w, n) /\ p.s <= n => Below(u, n)
           /\ \A n : Above(w, n) /\ n <= p.s => Above(u, n)
  <1>1. MaxToSlave \in Nat /\ u = Put(w, MaxToSlave, p)
    BY HdcpAssumption DEF Down
  <1> QED
    BY <1>1, PutKeeps

LEMMA UpKeeps ==
    ASSUME NEW w \in Wires, NEW p \in Packets, NEW u, u = Up(w, p)
    PROVE  /\ u \in Wires
           /\ Len(w) <= MaxToMaster => Len(u) <= MaxToMaster
           /\ Sorted(w) /\ Below(w, p.s) => Sorted(u)
           /\ \A n : Below(w, n) /\ p.s <= n => Below(u, n)
           /\ \A n : Above(w, n) /\ n <= p.s => Above(u, n)
  <1>1. MaxToMaster \in Nat /\ u = Put(w, MaxToMaster, p)
    BY HdcpAssumption DEF Up
  <1> QED
    BY <1>1, PutKeeps

LEMMA PacketType ==
    ASSUME NEW t \in Types, NEW id \in 0 .. MaxId, NEW n \in 1 .. MaxSessions
    PROVE  P(t, id, n) \in Packets /\ P(t, id, n).t = t /\ P(t, id, n).s = n
  BY DEF P, Packets

LEMMA NextIdType == ASSUME TypeOK PROVE NextId \in 0 .. MaxId
  BY HdcpAssumption DEF TypeOK, NextId

LEMMA WireTypes ==
    ASSUME TypeOK
    PROVE  /\ toSlave \in Wires /\ toMaster \in Wires
           /\ Thins(toSlave, toSlave) /\ Thins(toMaster, toMaster)
           /\ toSlave # <<>> => Thins(Tail(toSlave), toSlave)
           /\ toMaster # <<>> => Thins(Tail(toMaster), toMaster)
  BY SelfThins, TailThins DEF TypeOK, Wires

LEMMA WireStep ==
    ASSUME TypeOK, HInv, [Next]_vars
    PROVE  Loses \/ HostSends \/ Answers
  <1> USE WireTypes
  <1>1. MaxSessions \in Nat /\ MaxId \in Nat /\ MaxId > 0 /\ "hip" \in Types /\ "ka" \in Types
        /\ "cmd" \in Types /\ "dip" \in Types /\ "ka_ack" \in Types /\ "cmd_ack" \in Types
    BY HdcpAssumption DEF Types
  <1>2. /\ session \in 0 .. MaxSessions
        /\ ms # "disconnected" \/ alive \/ call.at # "idle" => session \in 1 .. MaxSessions
    BY <1>1 DEF TypeOK, HInv, HostInv
  <1>3. CASE Connect
    <2>1. session' \in 1 .. MaxSessions /\ 1 \in 0 .. MaxId
      BY <1>1, <1>2, <1>3 DEF Connect
    <2>2. PICK v \in Prefixes(toSlave) : toSlave' = Down(v, P("hip", 1, session'))
      BY <1>3 DEF Connect
    <2>3. Thins(v, toSlave) /\ v \in Wires
      BY PrefixThins DEF Thins
    <2>4. Thins(toMaster', toMaster)
      BY <1>3, SuffixThins DEF Connect
    <2>5. /\ P("hip", 1, session') \in Packets /\ P("hip", 1, session').s = session'
          /\ P("hip", 1, session').t = "hip"
      BY <1>1, <2>1, PacketType
    <2> QED
      BY <2>2, <2>3, <2>4, <2>5 DEF HostSends
  <1>4. ASSUME NEW t \in {"hip", "ka", "cmd"}, NEW id \in 0 .. MaxId,
               toSlave' = Down(toSlave, P(t, id, session)), session' = session,
               session \in 1 .. MaxSessions, t = "ka" => reached' = session,
               Thins(toMaster', toMaster)
        PROVE  HostSends
    <2>1. P(t, id, session) \in Packets /\ P(t, id, session).s = session /\ P(t, id, session).t = t
      BY <1>1, <1>4, PacketType DEF Types
    <2> QED
      BY <1>4, <2>1 DEF HostSends
  <1>5. CASE DipTimeout
    <2>1. CASE toSlave' = Down(toSlave, P("hip", NextId, session))
      BY <1>2, <1>4, <1>5, <2>1, NextIdType DEF DipTimeout, sessions
    <2>2. CASE UNCHANGED toSlave
      BY <1>5, <2>2 DEF DipTimeout, Loses
    <2> QED
      BY <1>5, <2>1, <2>2 DEF DipTimeout
  <1>6. CASE ReadDip
    <2>1. CASE toSlave' = Down(toSlave, P("ka", NextId, session))
      BY <1>2, <1>4, <1>6, <2>1, NextIdType DEF ReadDip, MasterReads
    <2>2. CASE UNCHANGED toSlave
      BY <1>6, <2>2 DEF ReadDip, MasterReads, Loses
    <2> QED
      BY <1>6, <2>1, <2>2 DEF ReadDip
  <1>7. CASE WriteCommand
    <2>1. CASE toSlave' = Down(toSlave, P("cmd", NextId, session))
      BY <1>2, <1>4, <1>7, <2>1, NextIdType DEF WriteCommand, sessions
    <2>2. CASE UNCHANGED toSlave
      BY <1>7, <2>2 DEF WriteCommand, Loses
    <2> QED
      BY <1>7, <2>1, <2>2 DEF WriteCommand
  <1>8. CASE RetryCommand
    <2>1. PICK r \in requests : toSlave' = Down(toSlave, P("cmd", r.id, session))
      BY <1>8 DEF RetryCommand
    <2>2. r.id \in 0 .. MaxId
      BY DEF TypeOK
    <2> QED
      BY <1>2, <1>4, <1>8, <2>1, <2>2 DEF RetryCommand, sessions
  <1>9. CASE SendKeepalive
    BY <1>2, <1>4, <1>9, NextIdType DEF SendKeepalive, sessions, HInv, HostInv
  <1>10. CASE \/ MasterDrops \/ AckCommand \/ AckKeepalive \/ KaTimeout \/ Disconnect
              \/ BeginCommand \/ InsertCommand \/ FailCommand \/ Tick \/ ManagerDies
              \/ SlaveDrops \/ ConnectLeft
    BY <1>10 DEF MasterDrops, AckCommand, AckKeepalive, KaTimeout, Disconnect, BeginCommand,
                 InsertCommand, FailCommand, Tick, ManagerDies, SlaveDrops, ConnectLeft,
                 MasterReads, SlaveReads, Loses
  <1>11. CASE SlaveKaTimeout
    BY <1>11, SuffixThins, PrefixThins DEF SlaveKaTimeout, Loses
  <1>12. CASE Lose
    BY <1>12, RemoveThins DEF Lose, Loses
  <1>13. ASSUME toSlave # <<>>
         PROVE  Head(toSlave).s \in 1 .. MaxSessions /\ Head(toSlave).id \in 0 .. MaxId
    <2>1. Head(toSlave) \in Packets
      BY <1>13, TailThins
    <2> QED
      BY <2>1 DEF Packets
  <1>14. CASE ReadHip
    <2> DEFINE p == P("dip", 1, Head(toSlave).s)
    <2>1. toSlave # <<>> /\ Thins(toSlave', toSlave)
      BY <1>14 DEF ReadHip, SlaveReads
    <2>2. p \in Packets /\ p.s = Head(toSlave).s
      BY <1>1, <1>13, <2>1, PacketType
    <2>3. toMaster' = Up(toMaster, p) \/ toMaster' = toMaster
      BY <1>14 DEF ReadHip, ToSlave
    <2> HIDE DEF p
    <2>4. CASE toMaster' = toMaster
      BY <2>1, <2>4 DEF Loses
    <2>5. CASE toMaster' = Up(toMaster, p)
      <3>1. toMaster' \in Wires /\ Thins(toMaster', toMaster')
        BY <2>2, <2>5, UpKeeps, SelfThins
      <3> QED
        BY <2>1, <2>2, <2>5, <3>1 DEF Answers
    <2> QED
      BY <2>3, <2>4, <2>5
  <1>15. CASE ReadAlive \/ ReadAliveTooLate
    <2> DEFINE p == P("ka_ack", 0, Head(toSlave).s)
               q == P("cmd_ack", Head(toSlave).id, Head(toSlave).s)
    <2>1. toSlave # <<>>
      BY <1>15 DEF ReadAlive, ReadAliveTooLate, SlaveReads
    <2>2. p \in Packets /\ p.s = Head(toSlave).s /\ q \in Packets /\ q.s = Head(toSlave).s
      BY <1>1, <1>13, <2>1, PacketType
    <2>3. KaAck = Up(toMaster, p)
      BY DEF KaAck, ToSlave
    <2>4. /\ ReadAlive => toMaster' \in {Up(toMaster, p), Up(Up(toMaster, p), q)}
          /\ ReadAliveTooLate => toMaster' \in Prefixes(Up(toMaster, p))
      BY <2>3 DEF ReadAlive, ReadAliveTooLate, ToSlave
    <2> HIDE DEF p, q
    <2>5. Up(toMaster, p) \in Wires /\ Up(Up(toMaster, p), q) \in Wires
      BY <2>2, UpKeeps
    <2>6. \E w \in Wires : w \in {Up(toMaster, p), Up(Up(toMaster, p), q)} /\ Thins(toMaster', w)
      BY <1>15, <2>4, <2>5, SelfThins, PrefixThins
    <2>7. Thins(toSlave', toSlave)
      <3>1. CASE ReadAlive
        BY <2>1, <3>1 DEF ReadAlive, SlaveReads
      <3>2. CASE ReadAliveTooLate
        <4>1. Thins(Tail(toSlave), toSlave) /\ Tail(toSlave) \in Wires
          BY <2>1 DEF Thins
        <4>2. Thins(toSlave', Tail(toSlave))
          BY <3>2, <4>1, SuffixThins DEF ReadAliveTooLate
        <4> QED
          BY <4>1, <4>2, ThinsTrans
      <3> QED
        BY <1>15, <3>1, <3>2
    <2> QED
      BY <2>1, <2>2, <2>6, <2>7 DEF Answers
  <1>16. CASE UNCHANGED vars
    BY <1>16 DEF vars, Loses
  <1> QED
    BY <1>3, <1>5, <1>6, <1>7, <1>8, <1>9, <1>10, <1>11, <1>12, <1>14, <1>15, <1>16
       DEF Next, MasterRead, SlaveRead, SendCommand

-----------------------------------------------------------------------------
(* Type correctness.                                                       *)

\* However it changes, a wire keeps its type and its capacity.
LEMMA WiresKept ==
    ASSUME TypeOK, Loses \/ HostSends \/ Answers
    PROVE  /\ toSlave' \in Wires /\ Len(toSlave') <= MaxToSlave
           /\ toMaster' \in Wires /\ Len(toMaster') <= MaxToMaster
  <1>1. /\ toSlave \in Wires /\ Len(toSlave) <= MaxToSlave
        /\ toMaster \in Wires /\ Len(toMaster) <= MaxToMaster
        /\ MaxToSlave \in Nat /\ MaxToMaster \in Nat
    BY HdcpAssumption DEF TypeOK, Wires
  <1>2. ASSUME NEW w \in Wires, NEW max \in Nat, Len(w) <= max, NEW v, Thins(v, w)
        PROVE  v \in Wires /\ Len(v) <= max
    <2>1. v \in Wires /\ Len(v) <= Len(w) /\ Len(w) \in Nat /\ Len(v) \in Nat
      BY <1>2 DEF Thins, Wires
    <2> QED
      BY <1>2, <2>1
  <1>3. CASE Loses
    BY <1>1, <1>2, <1>3 DEF Loses
  <1>4. CASE HostSends
    <2>1. PICK v \in Wires, p \in Packets : Thins(v, toSlave) /\ toSlave' = Down(v, p)
      BY <1>4 DEF HostSends
    <2>2. Len(v) <= MaxToSlave
      BY <1>1, <1>2, <2>1
    <2>3. toSlave' \in Wires /\ Len(toSlave') <= MaxToSlave
      BY <2>1, <2>2, DownKeeps
    <2>4. Thins(toMaster', toMaster)
      BY <1>4 DEF HostSends
    <2> QED
      BY <1>1, <1>2, <2>3, <2>4
  <1>5. CASE Answers
    <2>1. PICK p \in Packets, q \in Packets, w \in Wires :
              w \in {Up(toMaster, p), Up(Up(toMaster, p), q)} /\ Thins(toMaster', w)
      BY <1>5 DEF Answers
    <2>2. Up(toMaster, p) \in Wires /\ Len(Up(toMaster, p)) <= MaxToMaster
      BY <1>1, UpKeeps
    <2>3. Up(Up(toMaster, p), q) \in Wires /\ Len(Up(Up(toMaster, p), q)) <= MaxToMaster
      BY <2>2, UpKeeps
    <2>4. Len(w) <= MaxToMaster
      BY <2>1, <2>2, <2>3
    <2>5. Thins(toSlave', toSlave)
      BY <1>5 DEF Answers
    <2>6. toMaster' \in Wires /\ Len(toMaster') <= MaxToMaster
      BY <1>1, <1>2, <2>1, <2>4
    <2> QED
      BY <1>1, <1>2, <2>5, <2>6
  <1> QED
    BY <1>3, <1>4, <1>5

\* TypeOK without the wires.
States ==
    /\ ms \in {"disconnected", "connecting", "connected"}
    /\ ss \in {"disconnected", "connecting", "connected"}
    /\ alive \in BOOLEAN /\ kaTimer \in BOOLEAN /\ kaDue \in BOOLEAN
    /\ watched \in BOOLEAN /\ ownDip \in BOOLEAN /\ overtaken \in BOOLEAN

Counts ==
    /\ attempts \in 0 .. MaxAttempts /\ packet_id \in 0 .. MaxId
    /\ session \in 0 .. MaxSessions /\ served \in 0 .. MaxSessions /\ reached \in 0 .. MaxSessions
    /\ kaLeft \in 0 .. MaxSessions /\ confirmed \in 0 .. MaxSessions

Requests ==
    /\ requests \subseteq [id : 0 .. MaxId, s : 1 .. MaxSessions]
    /\ \A q, r \in requests : q.id = r.id => q = r
    /\ call \in [at : {"idle", "checked", "written"}, id : 0 .. MaxId, s : 0 .. MaxSessions]

LEMMA StatesStep == ASSUME TypeOK, [Next]_vars PROVE States'
  <1> USE DEF TypeOK, States, host, device, manager, commands, sessions
  <1>1. CASE Connect \/ MasterDrops \/ AckCommand \/ AckKeepalive
    BY <1>1 DEF Connect, MasterDrops, AckCommand, AckKeepalive
  <1>2. CASE ReadDip
    BY <1>2 DEF ReadDip
  <1>3. CASE DipTimeout \/ KaTimeout \/ Disconnect
    BY <1>3 DEF DipTimeout, KaTimeout, Disconnect, Leave
  <1>4. CASE BeginCommand \/ WriteCommand \/ RetryCommand \/ FailCommand \/ Tick
             \/ SendKeepalive \/ ManagerDies
    BY <1>4 DEF BeginCommand, WriteCommand, RetryCommand, FailCommand, Tick, SendKeepalive,
                ManagerDies
  <1>5. CASE InsertCommand
    BY <1>5 DEF InsertCommand
  <1>6. CASE ReadHip \/ ReadAlive \/ ReadAliveTooLate \/ ConnectLeft
    BY <1>6 DEF ReadHip, ReadAlive, ReadAliveTooLate, ConnectLeft, GiveUp
  <1>7. CASE SlaveDrops \/ SlaveKaTimeout \/ Lose \/ UNCHANGED vars
    BY <1>7 DEF SlaveDrops, SlaveKaTimeout, GiveUp, Lose, vars
  <1> QED
    BY <1>1, <1>2, <1>3, <1>4, <1>5, <1>6, <1>7 DEF Next, MasterRead, SlaveRead, SendCommand

LEMMA CountsStep == ASSUME TypeOK, HInv, [Next]_vars PROVE Counts'
  <1>1. /\ MaxAttempts \in Nat /\ MaxAttempts > 0 /\ MaxSessions \in Nat
        /\ MaxId \in Nat /\ MaxId > 0
    BY HdcpAssumption
  <1>2. Counts
    BY DEF TypeOK, Counts
  <1>3. NextId \in 0 .. MaxId
    BY NextIdType
  <1>4. Min({attempts + 1, MaxAttempts}) \in 0 .. MaxAttempts
    <2>1. attempts + 1 \in Nat
      BY <1>1, <1>2 DEF Counts
    <2> QED
      BY <1>1, <2>1, MinOfTwo
  <1> USE DEF Counts, host, device, manager, commands, sessions
  <1>5. CASE Connect
    BY <1>1, <1>2, <1>5 DEF Connect
  <1>6. CASE DipTimeout \/ ReadDip
    BY <1>2, <1>3, <1>4, <1>6 DEF DipTimeout, ReadDip
  <1>7. CASE SendKeepalive \/ WriteCommand
    BY <1>2, <1>3, <1>7 DEF SendKeepalive, WriteCommand
  <1>8. CASE ReadHip
    <2>1. Head(toSlave) \in Packets /\ served' = Head(toSlave).s
      BY <1>8, WireTypes, TailThins DEF ReadHip, SlaveReads, ToSlave
    <2>2. served' \in 0 .. MaxSessions
      BY <2>1 DEF Packets
    <2> QED
      BY <1>1, <1>2, <1>8, <2>2 DEF ReadHip
  <1>9. CASE ReadAlive \/ ReadAliveTooLate \/ ConnectLeft \/ SlaveKaTimeout
    BY <1>1, <1>2, <1>9 DEF ReadAlive, ReadAliveTooLate, ConnectLeft, SlaveKaTimeout, GiveUp
  <1>10. CASE \/ MasterDrops \/ AckCommand \/ AckKeepalive \/ KaTimeout \/ Disconnect
              \/ BeginCommand \/ InsertCommand \/ RetryCommand \/ FailCommand \/ Tick
              \/ ManagerDies \/ SlaveDrops \/ Lose \/ UNCHANGED vars
    BY <1>2, <1>10 DEF MasterDrops, AckCommand, AckKeepalive, KaTimeout, Disconnect, BeginCommand,
       InsertCommand, RetryCommand, FailCommand, Tick, ManagerDies, SlaveDrops, Lose, vars
  <1> QED
    BY <1>5, <1>6, <1>7, <1>8, <1>9, <1>10 DEF Next, MasterRead, SlaveRead, SendCommand

LEMMA RequestsStep == ASSUME TypeOK, HInv, [Next]_vars PROVE Requests'
  <1>1. Requests /\ MaxSessions \in Nat /\ MaxId \in Nat
    BY HdcpAssumption DEF TypeOK, Requests
  <1>2. CASE Connect
    BY <1>1, <1>2 DEF Connect, Cleared, Requests
  <1>3. CASE BeginCommand
    BY <1>1, <1>3 DEF BeginCommand, Requests
  <1>4. CASE WriteCommand
    <2>1. NextId \in 0 .. MaxId /\ session \in 0 .. MaxSessions
      BY NextIdType DEF TypeOK
    <2>2. call' \in [at : {"idle", "checked", "written"}, id : 0 .. MaxId, s : 0 .. MaxSessions]
      BY <1>1, <1>4, <2>1 DEF WriteCommand, NoCall
    <2> QED
      BY <1>1, <1>4, <2>2 DEF WriteCommand, Requests
  <1>5. CASE InsertCommand
    <2> DEFINE r == [id |-> call.id, s |-> call.s]
    <2>1. call' \in [at : {"idle", "checked", "written"}, id : 0 .. MaxId, s : 0 .. MaxSessions]
      BY <1>1, <1>5 DEF InsertCommand, NoCall
    <2>2. r \in [id : 0 .. MaxId, s : 1 .. MaxSessions] /\ r.id = call.id
      BY <1>1, <1>5 DEF InsertCommand, Requests, HInv, HostInv
    <2>3. \/ requests' = requests
          \/ requests' = requests \cup {r} /\ \A q \in requests : q.id # r.id
      BY <1>5 DEF InsertCommand, commands
    <2> HIDE DEF r
    <2> QED
      BY <1>1, <2>1, <2>2, <2>3 DEF Requests
  <1>6. CASE requests' \subseteq requests /\ call' = call
    BY <1>1, <1>6 DEF Requests
  <1> QED
    BY <1>2, <1>3, <1>4, <1>5, <1>6 DEF Next, MasterRead, SlaveRead, SendCommand, DipTimeout, ReadDip,
       MasterDrops, AckCommand, AckKeepalive, KaTimeout, Disconnect, RetryCommand, FailCommand,
       Tick, SendKeepalive, ManagerDies, ReadHip, ReadAlive, ReadAliveTooLate, ConnectLeft,
       SlaveDrops, SlaveKaTimeout, Lose, host, commands, vars

LEMMA TypeStep == ASSUME TypeOK, HInv, [Next]_vars PROVE TypeOK'
  BY WireStep, WiresKept, StatesStep, CountsStep, RequestsStep
     DEF TypeOK, States, Counts, Requests, Wires

-----------------------------------------------------------------------------
(* The invariant is kept.                                                  *)

\* Who may change what of the host's history.
LEMMA HistoryStep ==
    ASSUME TypeOK, HInv, [Next]_vars
    PROVE  /\ session \in Nat /\ session' \in Nat /\ session <= session'
           /\ reached \in Nat /\ reached' \in Nat /\ reached <= reached' /\ reached' <= session'
           /\ ms' = "connected" => reached' = session'
           /\ ms' # "disconnected" => session' > 0
           /\ ownDip' => session' = session /\ ms' = "connected"
           /\ alive' => ms' # "disconnected"
           /\ Connect \/ session' = session
  <1>1. /\ session \in Nat /\ reached \in Nat /\ reached <= session /\ ownDip \in BOOLEAN
        /\ ms = "connected" => reached = session
        /\ ms # "disconnected" => session > 0
        /\ ownDip => ms = "connected"
        /\ alive => ms # "disconnected"
    BY HdcpAssumption DEF TypeOK, HInv, HostInv
  <1>2. CASE Connect
    BY <1>1, <1>2 DEF Connect
  <1>3. CASE ReadDip
    BY <1>1, <1>3 DEF ReadDip, MasterReads
  <1>4. CASE UNCHANGED <<session, reached, ms, ownDip>> /\ (alive' => alive)
    BY <1>1, <1>4
  <1>5. CASE UNCHANGED <<session, reached>> /\ Leave
    BY <1>1, <1>5 DEF Leave
  <1> QED
    BY <1>2, <1>3, <1>4, <1>5 DEF Next, MasterRead, SlaveRead, SendCommand, DipTimeout, MasterDrops,
       AckCommand, AckKeepalive, KaTimeout, Disconnect, BeginCommand, WriteCommand, InsertCommand,
       RetryCommand, FailCommand, Tick, SendKeepalive, ManagerDies, ReadHip, ReadAlive,
       ReadAliveTooLate, ConnectLeft, SlaveDrops, SlaveKaTimeout, Lose, host, manager, commands,
       sessions, vars

LEMMA PacketSession ==
    ASSUME TypeOK
    PROVE  /\ \A i \in DOMAIN toSlave : toSlave[i] \in Packets /\ toSlave[i].s \in Nat
           /\ \A i \in DOMAIN toMaster : toMaster[i] \in Packets /\ toMaster[i].s \in Nat
           /\ \A p \in Packets : p.s \in Nat
  <1>1. \A p \in Packets : p.s \in Nat
    BY HdcpAssumption DEF Packets
  <1>2. \A w \in Wires : \A i \in DOMAIN w : w[i] \in Packets
    BY DEF Wires
  <1> QED
    BY <1>1, <1>2, WireTypes

LEMMA BelowGrows ==
    ASSUME NEW w \in Wires, NEW m \in Nat, NEW n \in Nat, m <= n, Below(w, m)
    PROVE  Below(w, n)
  <1>1. \A i \in DOMAIN w : w[i] \in Packets
    BY DEF Wires
  <1>2. \A p \in Packets : p.s \in Nat
    BY HdcpAssumption DEF Packets
  <1> QED
    BY <1>1, <1>2 DEF Below

LEMMA OrderStep == ASSUME TypeOK, HInv, [Next]_vars PROVE WireOrder'
  <1> USE WireTypes, PacketSession, HistoryStep
  <1>1. /\ Sorted(toSlave) /\ Sorted(toMaster)
        /\ Below(toSlave, session') /\ Below(toMaster, session')
        /\ \A i \in DOMAIN toMaster, j \in DOMAIN toSlave : toMaster[i].s <= toSlave[j].s
    BY BelowGrows DEF HInv, WireOrder
  <1>2. CASE Loses
    <2>1. /\ Sorted(toSlave') /\ Sorted(toMaster')
          /\ Below(toSlave', session') /\ Below(toMaster', session')
          /\ \A i \in DOMAIN toSlave' : \E k \in DOMAIN toSlave : toSlave'[i] = toSlave[k]
          /\ \A i \in DOMAIN toMaster' : \E k \in DOMAIN toMaster : toMaster'[i] = toMaster[k]
      BY <1>1, <1>2, ThinsKeeps DEF Loses
    <2> QED
      BY <1>1, <2>1 DEF WireOrder
  <1>3. CASE HostSends
    <2>1. PICK v \in Wires, p \in Packets :
              Thins(v, toSlave) /\ toSlave' = Down(v, p) /\ p.s = session'
      BY <1>3 DEF HostSends
    <2>2. /\ Sorted(v) /\ Below(v, session')
          /\ \A i \in DOMAIN v : \E k \in DOMAIN toSlave : v[i] = toSlave[k]
      BY <1>1, <2>1, ThinsKeeps
    <2>3. /\ Sorted(toSlave') /\ Below(toSlave', session')
          /\ \A i \in DOMAIN toSlave' : toSlave'[i] = p \/ \E k \in DOMAIN v : toSlave'[i] = v[k]
      <3>1. session' <= session'
        OBVIOUS
      <3> QED
        BY <2>1, <2>2, <3>1, DownKeeps
    <2>4. /\ Sorted(toMaster') /\ Below(toMaster', session')
          /\ \A i \in DOMAIN toMaster' : \E k \in DOMAIN toMaster : toMaster'[i] = toMaster[k]
      BY <1>1, <1>3, ThinsKeeps DEF HostSends
    <2>5. ASSUME NEW i \in DOMAIN toMaster', NEW j \in DOMAIN toSlave'
          PROVE  toMaster'[i].s <= toSlave'[j].s
      <3>1. CASE toSlave'[j] = p
        BY <2>1, <2>4, <3>1 DEF Below
      <3>2. CASE \E k \in DOMAIN toSlave : toSlave'[j] = toSlave[k]
        BY <1>1, <2>4, <3>2
      <3> QED
        BY <2>2, <2>3, <3>1, <3>2
    <2> QED
      BY <2>3, <2>4, <2>5 DEF WireOrder
  <1>4. CASE Answers
    <2> DEFINE n == Head(toSlave).s
    <2>1. PICK p \in Packets, q \in Packets, w \in Wires :
              /\ p.s = n /\ q.s = n
              /\ w \in {Up(toMaster, p), Up(Up(toMaster, p), q)} /\ Thins(toMaster', w)
      BY <1>4 DEF Answers
    <2>2. /\ Head(toSlave) = toSlave[1] /\ 1 \in DOMAIN toSlave
          /\ \A j \in DOMAIN toSlave : j >= 1
      BY <1>4, TailThins DEF Answers, Wires
    <2>3. n \in Nat /\ n <= session' /\ Below(toMaster, n) /\ Above(toSlave, n)
      BY <1>1, <2>2 DEF Below, Above, Sorted
    <2> HIDE DEF n
    <2>4. /\ Sorted(toSlave') /\ Below(toSlave', session') /\ Above(toSlave', n)
      BY <1>1, <1>4, <2>3, ThinsKeeps DEF Answers
    <2>5. n <= n
      BY <2>3
    <2>6. Up(toMaster, p) \in Wires /\ Sorted(Up(toMaster, p)) /\ Below(Up(toMaster, p), n)
      BY <1>1, <2>1, <2>3, <2>5, UpKeeps
    <2>7. Sorted(w) /\ Below(w, n)
      BY <2>1, <2>5, <2>6, UpKeeps
    <2>8. Sorted(toMaster') /\ Below(toMaster', n)
      BY <2>1, <2>7, ThinsKeeps
    <2>9. toMaster' \in Wires /\ toSlave' \in Wires
      BY <1>4, <2>1 DEF Answers, Thins
    <2>10. Below(toMaster', session')
      BY <2>3, <2>8, <2>9, BelowGrows
    <2>11. ASSUME NEW i \in DOMAIN toMaster', NEW j \in DOMAIN toSlave'
           PROVE  toMaster'[i].s <= toSlave'[j].s
      <3>1. toMaster'[i].s <= n /\ n <= toSlave'[j].s
        BY <2>4, <2>8 DEF Below, Above
      <3>2. toMaster'[i].s \in Nat /\ toSlave'[j].s \in Nat
        BY <2>9 DEF Wires
      <3> QED
        BY <2>3, <3>1, <3>2
    <2> QED
      BY <2>4, <2>8, <2>10, <2>11 DEF WireOrder
  <1> QED
    BY <1>2, <1>3, <1>4, WireStep

LEMMA HostStep == ASSUME TypeOK, HInv, [Next]_vars PROVE HostInv'
  <1>1. /\ ~overtaken => \A r \in requests : r.s = session
        /\ call.at = "written" => call.s > 0
        /\ ms # "disconnected" \/ call.at # "idle" => session > 0
        /\ session \in Nat
    BY HdcpAssumption DEF HInv, HostInv, TypeOK
  <1>2. (~overtaken)' => \A r \in requests' : r.s = session'
    <2>1. CASE Connect
      BY <2>1 DEF Connect, Cleared
    <2>2. CASE InsertCommand
      <3>1. session' = session /\ overtaken \in BOOLEAN
        BY <2>2 DEF InsertCommand, sessions, TypeOK
      <3>2. CASE UNCHANGED <<requests, overtaken>>
        BY <1>1, <3>1, <3>2
      <3>3. CASE /\ requests' = requests \cup {[id |-> call.id, s |-> call.s]}
                 /\ overtaken' = (overtaken \/ call.s # session)
        <4>1. (~overtaken)' => ~overtaken /\ call.s = session
          BY <3>3
        <4>2. (~overtaken)' => \A r \in requests' : r \in requests \/ r.s = call.s
          BY <3>3
        <4> QED
          BY <1>1, <3>1, <4>1, <4>2
      <3> QED
        BY <2>2, <3>2, <3>3 DEF InsertCommand
    <2>3. CASE requests' \subseteq requests /\ UNCHANGED <<session, overtaken>>
      BY <1>1, <2>3
    <2> QED
      BY <2>1, <2>2, <2>3 DEF Next, MasterRead, SlaveRead, SendCommand, DipTimeout, ReadDip,
         MasterDrops, AckCommand, AckKeepalive, KaTimeout, Disconnect, BeginCommand, WriteCommand,
         RetryCommand, FailCommand, Tick, SendKeepalive, ManagerDies, ReadHip, ReadAlive,
         ReadAliveTooLate, ConnectLeft, SlaveDrops, SlaveKaTimeout, Lose, host, commands, sessions,
         vars
  <1>3. /\ call'.at = "written" => call'.s > 0
        /\ call'.at # "idle" => session' > 0
    <2>1. CASE BeginCommand
      <3>1. call'.at = "checked" /\ session' = session
        BY <2>1 DEF BeginCommand, sessions, TypeOK
      <3> QED
        BY <1>1, <2>1, <3>1 DEF BeginCommand
    <2>2. CASE WriteCommand
      BY <1>1, <2>2 DEF WriteCommand, NoCall, sessions
    <2>3. CASE InsertCommand
      BY <1>1, <2>3 DEF InsertCommand, NoCall, sessions
    <2>4. CASE call' = call
      BY <1>1, <2>4, HistoryStep
    <2> QED
      BY <2>1, <2>2, <2>3, <2>4 DEF Next, MasterRead, SlaveRead, SendCommand, Connect, DipTimeout,
         ReadDip, MasterDrops, AckCommand, AckKeepalive, KaTimeout, Disconnect, RetryCommand,
         FailCommand, Tick, SendKeepalive, ManagerDies, ReadHip, ReadAlive, ReadAliveTooLate,
         ConnectLeft, SlaveDrops, SlaveKaTimeout, Lose, host, commands, vars
  <1> QED
    BY <1>2, <1>3, HistoryStep DEF HostInv

\* served is the session of the packet read, and everything behind that packet is later.
LEMMA ServedStep ==
    ASSUME TypeOK, HInv, [Next]_vars
    PROVE  served' <= session' /\ Above(toSlave', served')
  <1> USE WireTypes, PacketSession, HistoryStep
  <1>1. served \in Nat /\ served <= session' /\ Above(toSlave, served)
    BY HdcpAssumption DEF HInv, DeviceInv, TypeOK
  <1>2. CASE ReadHip
    <2>1. /\ served' = toSlave[1].s /\ 1 \in DOMAIN toSlave /\ Thins(toSlave', toSlave)
          /\ \A j \in DOMAIN toSlave : j >= 1
      BY <1>2, TailThins DEF ReadHip, SlaveReads, ToSlave, Wires
    <2>2. served' \in Nat /\ served' <= session /\ Above(toSlave, served')
      BY <2>1 DEF HInv, WireOrder, Sorted, Below, Above
    <2>3. Above(toSlave', served')
      BY <2>1, <2>2, ThinsKeeps
    <2> QED
      BY <2>2, <2>3
  <1>3. Above(toSlave', served)
    <2>1. CASE Loses \/ Answers
      BY <1>1, <2>1, ThinsKeeps DEF Loses, Answers
    <2>2. CASE HostSends
      <3>1. PICK v \in Wires, p \in Packets :
                Thins(v, toSlave) /\ toSlave' = Down(v, p) /\ p.s = session'
        BY <2>2 DEF HostSends
      <3>2. Above(v, served)
        BY <1>1, <3>1, ThinsKeeps
      <3> QED
        BY <1>1, <3>1, <3>2, DownKeeps
    <2> QED
      BY <2>1, <2>2, WireStep
  <1>4. CASE served' = served
    BY <1>1, <1>3, <1>4
  <1>5. CASE GiveUp
    <2>1. toSlave' \in Wires
      BY WireStep, WiresKept
    <2>2. \A i \in DOMAIN toSlave' : toSlave'[i] \in Packets
      BY <2>1 DEF Wires
    <2> QED
      BY <1>1, <1>5, <2>2 DEF GiveUp, Above
  <1> QED
    BY <1>2, <1>4, <1>5 DEF Next, MasterRead, SlaveRead, SendCommand, Connect, DipTimeout, ReadDip,
       MasterDrops, AckCommand, AckKeepalive, KaTimeout, Disconnect, BeginCommand, WriteCommand,
       InsertCommand, RetryCommand, FailCommand, Tick, SendKeepalive, ManagerDies, ReadAlive,
       ReadAliveTooLate, ConnectLeft, SlaveDrops, SlaveKaTimeout, Lose, device, vars

\* A keep-alive that the device reads in connecting confirms the HIP it answered.
LEMMA Confirms ==
    ASSUME TypeOK, HInv, toSlave # <<>>, Head(toSlave).t = "ka"
    PROVE  served <= reached
  <1>1. Head(toSlave) = toSlave[1] /\ 1 \in DOMAIN toSlave
    BY TailThins, WireTypes
  <1>2. served <= toSlave[1].s /\ toSlave[1].s <= reached /\ toSlave[1].s \in Nat
    BY <1>1, PacketSession DEF HInv, DeviceInv, ConfirmSent, Above
  <1>3. served \in Nat /\ reached \in Nat
    BY HdcpAssumption DEF TypeOK
  <1> QED
    BY <1>2, <1>3

LEMMA DeviceStep == ASSUME TypeOK, HInv, [Next]_vars PROVE DeviceInv'
  <1>1. (ss # "disconnected" => served > 0) /\ kaLeft <= reached /\ kaLeft \in Nat
    BY HdcpAssumption DEF HInv, DeviceInv, TypeOK
  <1>2. reached \in Nat /\ reached' \in Nat /\ reached <= reached'
    BY HistoryStep
  <1>3. kaLeft <= reached'
    BY <1>1, <1>2
  <1>4. CASE ReadHip
    <2>1. served' = Head(toSlave).s /\ kaLeft' = kaLeft /\ Head(toSlave) \in Packets
      BY <1>4, TailThins, WireTypes DEF ReadHip, SlaveReads, ToSlave
    <2>2. served' > 0
      BY <2>1, HdcpAssumption DEF Packets
    <2> QED
      BY <1>3, <2>1, <2>2, ServedStep DEF DeviceInv
  <1>5. CASE ReadAliveTooLate
    <2>1. toSlave # <<>> /\ Head(toSlave).t = "ka" /\ kaLeft' = served /\ ss' = "disconnected"
      BY <1>5 DEF ReadAliveTooLate, Answered, ToSlave, GiveUp
    <2>2. served <= reached /\ served \in Nat
      BY <2>1, Confirms, HdcpAssumption DEF TypeOK
    <2> QED
      BY <1>2, <2>1, <2>2, ServedStep DEF DeviceInv
  <1>6. CASE ReadAlive \/ ConnectLeft
    <2>1. kaLeft' = 0 /\ served' = served /\ ss # "disconnected"
      BY <1>6 DEF ReadAlive, ConnectLeft, SlaveReads
    <2> QED
      BY <1>1, <1>2, <2>1, ServedStep DEF DeviceInv
  <1>7. CASE SlaveKaTimeout
    BY <1>3, <1>7, ServedStep DEF SlaveKaTimeout, GiveUp, DeviceInv
  <1>8. CASE UNCHANGED <<ss, served, kaLeft>>
    BY <1>1, <1>3, <1>8, ServedStep DEF DeviceInv
  <1> QED
    BY <1>4, <1>5, <1>6, <1>7, <1>8 DEF Next, MasterRead, SlaveRead, SendCommand, Connect, DipTimeout,
       ReadDip, MasterDrops, AckCommand, AckKeepalive, KaTimeout, Disconnect, BeginCommand,
       WriteCommand, InsertCommand, RetryCommand, FailCommand, Tick, SendKeepalive, ManagerDies,
       SlaveDrops, Lose, device, vars

LEMMA ConfirmStep == ASSUME TypeOK, HInv, [Next]_vars PROVE ConfirmSent'
  <1> USE WireTypes, PacketSession, HistoryStep
  <1>1. \A i \in DOMAIN toSlave : toSlave[i].t = "ka" => toSlave[i].s <= reached'
    BY DEF HInv, ConfirmSent
  <1>2. CASE Loses \/ Answers
    <2>1. Thins(toSlave', toSlave)
      BY <1>2 DEF Loses, Answers
    <2>2. \A i \in DOMAIN toSlave' : \E k \in DOMAIN toSlave : toSlave'[i] = toSlave[k]
      BY <2>1, ThinsKeeps
    <2> QED
      BY <1>1, <2>2 DEF ConfirmSent
  <1>3. CASE HostSends
    <2>1. PICK v \in Wires, p \in Packets :
              /\ Thins(v, toSlave) /\ toSlave' = Down(v, p) /\ p.s = session'
              /\ p.t = "ka" => reached' = session'
      BY <1>3 DEF HostSends
    <2>2. \A i \in DOMAIN v : \E k \in DOMAIN toSlave : v[i] = toSlave[k]
      BY <2>1, ThinsKeeps
    <2>3. \A i \in DOMAIN toSlave' : toSlave'[i] = p \/ \E k \in DOMAIN v : toSlave'[i] = v[k]
      BY <2>1, DownKeeps
    <2>4. p.t = "ka" => p.s <= reached'
      BY <2>1
    <2> QED
      BY <1>1, <2>2, <2>3, <2>4 DEF ConfirmSent
  <1> QED
    BY <1>2, <1>3, WireStep

\* While one session lasts, wires without packets of earlier sessions stay so.
LEMMA AboveStep ==
    ASSUME TypeOK, Loses \/ HostSends \/ Answers, session' = session,
           Above(toSlave, session), Above(toMaster, session)
    PROVE  Above(toSlave', session) /\ Above(toMaster', session)
  <1> USE WireTypes, PacketSession
  <1>1. session \in Nat /\ session <= session
    BY HdcpAssumption DEF TypeOK
  <1>2. CASE Loses
    BY <1>2, ThinsKeeps DEF Loses
  <1>3. CASE HostSends
    <2>1. PICK v \in Wires, p \in Packets :
              Thins(v, toSlave) /\ toSlave' = Down(v, p) /\ p.s = session
      BY <1>3 DEF HostSends
    <2>2. Above(v, session)
      BY <2>1, ThinsKeeps
    <2>3. Above(toSlave', session)
      BY <1>1, <2>1, <2>2, DownKeeps
    <2> QED
      BY <1>3, <2>3, ThinsKeeps DEF HostSends
  <1>4. CASE Answers
    <2>1. PICK p \in Packets, q \in Packets, w \in Wires :
              /\ p.s = Head(toSlave).s /\ q.s = p.s
              /\ w \in {Up(toMaster, p), Up(Up(toMaster, p), q)} /\ Thins(toMaster', w)
      BY <1>4 DEF Answers
    <2>2. session <= p.s
      BY <1>4, <2>1, TailThins DEF Answers, Above
    <2>3. Up(toMaster, p) \in Wires /\ Above(Up(toMaster, p), session)
      BY <2>2, UpKeeps
    <2>4. Above(w, session)
      BY <2>1, <2>2, <2>3, UpKeeps
    <2>5. Above(toMaster', session)
      BY <2>1, <2>4, ThinsKeeps
    <2> QED
      BY <1>4, <2>5, ThinsKeeps DEF Answers
  <1> QED
    BY <1>2, <1>3, <1>4

\* The DIP that connects the host is the first packet of the wire: if it answers a HIP of this
\* session, so does everything behind it.
LEMMA OwnStep == ASSUME TypeOK, HInv, [Next]_vars PROVE OwnWires'
  <1> SUFFICES ASSUME ms' = "connected", ownDip'
               PROVE  Above(toSlave', session') /\ Above(toMaster', session')
    BY DEF OwnWires
  <1>1. session' = session
    BY HistoryStep
  <1>2. CASE ReadDip
    <2>1. toMaster # <<>> /\ ToMaster.s = session
      BY <1>2 DEF ReadDip, MasterReads
    <2>2. /\ toMaster[1].s = session /\ 1 \in DOMAIN toMaster
          /\ \A i \in DOMAIN toMaster : i >= 1
      BY <2>1, TailThins, WireTypes DEF ToMaster, Wires
    <2>3. Above(toSlave, session) /\ Above(toMaster, session)
      BY <2>2 DEF HInv, WireOrder, Sorted, Above
    <2> QED
      BY <1>1, <2>3, AboveStep, WireStep
  <1>3. CASE ms = "connected" /\ ownDip
    BY <1>1, <1>3, AboveStep, WireStep DEF HInv, OwnWires
  <1> QED
    BY <1>2, <1>3 DEF Next, MasterRead, SlaveRead, SendCommand, Connect, DipTimeout, MasterDrops,
       AckCommand, AckKeepalive, KaTimeout, Disconnect, Leave, BeginCommand, WriteCommand,
       InsertCommand, RetryCommand, FailCommand, Tick, SendKeepalive, ManagerDies, ReadHip,
       ReadAlive, ReadAliveTooLate, ConnectLeft, SlaveDrops, SlaveKaTimeout, Lose, host, sessions,
       vars

\* The device becomes connected by a keep-alive, which only a connected host sends, or by one
\* that an earlier handshake read.
LEMMA ConfirmedStep == ASSUME TypeOK, HInv, [Next]_vars PROVE ConfirmedByHost'
  <1> SUFFICES ASSUME ss' = "connected" PROVE confirmed' \in 1 .. reached'
    BY DEF ConfirmedByHost
  <1>1. /\ served \in Nat /\ kaLeft \in Nat /\ reached \in Nat /\ reached' \in Nat
        /\ reached <= reached'
    BY HistoryStep, HdcpAssumption DEF TypeOK
  <1>2. \A n \in 1 .. reached : n \in 1 .. reached'
    BY <1>1
  <1>3. CASE ReadAlive /\ ss = "connecting"
    <2>1. confirmed' = served /\ toSlave # <<>> /\ Head(toSlave).t = "ka"
      BY <1>3 DEF ReadAlive, SlaveReads, ToSlave, Answered
    <2>2. served <= reached /\ served > 0
      BY <1>3, <2>1, Confirms DEF HInv, DeviceInv
    <2> QED
      BY <1>1, <1>2, <2>1, <2>2
  <1>4. CASE ConnectLeft
    <2>1. confirmed' = kaLeft /\ kaLeft # 0 /\ kaLeft <= reached
      BY <1>4 DEF ConnectLeft, HInv, DeviceInv
    <2> QED
      BY <1>1, <1>2, <2>1
  <1>5. CASE ss = "connected" /\ confirmed' = confirmed
    BY <1>2, <1>5 DEF HInv, ConfirmedByHost
  <1> QED
    BY <1>3, <1>4, <1>5 DEF Next, MasterRead, SlaveRead, SendCommand, Connect, DipTimeout, ReadDip,
       MasterDrops, AckCommand, AckKeepalive, KaTimeout, Disconnect, BeginCommand, WriteCommand,
       InsertCommand, RetryCommand, FailCommand, Tick, SendKeepalive, ManagerDies, ReadHip,
       ReadAlive, ReadAliveTooLate, SlaveReads, SlaveDrops, SlaveKaTimeout, GiveUp, Lose, device, vars

\* Types and order together, for the types of the packets depend on the session's number.
THEOREM HInvHolds == Spec => [](TypeOK /\ HInv)
  <1>1. Init => TypeOK
    <2>1. Init => /\ attempts \in 0 .. MaxAttempts /\ packet_id \in 0 .. MaxId
                  /\ session \in 0 .. MaxSessions /\ served \in 0 .. MaxSessions
                  /\ reached \in 0 .. MaxSessions /\ kaLeft \in 0 .. MaxSessions
                  /\ confirmed \in 0 .. MaxSessions
                  /\ call \in [at : {"idle", "checked", "written"}, id : 0 .. MaxId,
                              s : 0 .. MaxSessions]
      BY HdcpAssumption DEF Init, NoCall
    <2>2. Init => toSlave \in Seq(Packets) /\ toMaster \in Seq(Packets)
      BY DEF Init
    <2>3. Init => Len(toSlave) <= MaxToSlave /\ Len(toMaster) <= MaxToMaster
      BY HdcpAssumption DEF Init
    <2> QED
      BY <2>1, <2>2, <2>3 DEF Init, TypeOK
  <1>2. Init => HInv
    BY DEF Init, NoCall, HInv, WireOrder, HostInv, DeviceInv, ConfirmSent, OwnWires,
           ConfirmedByHost, Sorted, Below, Above
  <1>3. TypeOK /\ HInv /\ [Next]_vars => (TypeOK /\ HInv)'
    BY TypeStep, OrderStep, HostStep, DeviceStep, ConfirmStep, OwnStep, ConfirmedStep DEF HInv
  <1> QED
    BY <1>1, <1>2, <1>3, PTL DEF Spec

\* A device that is connected was confirmed by a host that was, in the session of the HIP it
\* answered or a later one (or of the handshake whose event was left behind), whatever packets
\* were lost.
THEOREM SessionsAgreeHolds == Spec => []SessionsAgree
  <1>1. TypeOK /\ HInv => SessionsAgree
    BY DEF HInv, SessionsAgree
  <1> QED
    BY <1>1, HInvHolds, PTL

\* packet_id_ starts again from 0 with every session and the code compares nothing else, and
\* yet a host that its own DIP connected takes no acknowledgement of another session: the
\* wires are in order, so all of those came before the DIP and were dropped in connecting; and
\* clear() left no request of another session, unless a call was overtaken by it.
THEOREM AckIsOwnHolds == Spec => AckIsOwn
  <1>1. ASSUME TypeOK, HInv, Crossed PROVE ~ownDip \/ overtaken
    <2> SUFFICES ASSUME ownDip, ~overtaken PROVE FALSE
      BY DEF TypeOK
    <2>1. PICK r \in requests : r.s # ToMaster.s
      BY <1>1 DEF Crossed
    <2>2. ms = "connected" /\ toMaster # <<>> /\ r.s = session
      BY <1>1 DEF Crossed, AckCommand, MasterReads, HInv, HostInv
    <2>3. ToMaster = toMaster[1] /\ 1 \in DOMAIN toMaster /\ toMaster[1].s \in Nat
      BY <1>1, <2>2, TailThins, WireTypes, PacketSession DEF ToMaster
    <2>4. session <= toMaster[1].s /\ toMaster[1].s <= session /\ session \in Nat
      BY <1>1, <2>2, <2>3, HdcpAssumption DEF HInv, OwnWires, WireOrder, Above, Below, TypeOK
    <2> QED
      BY <2>1, <2>2, <2>3, <2>4
  <1>2. TypeOK /\ HInv => [Crossed => ~ownDip \/ overtaken]_vars
    BY <1>1
  <1> QED
    BY <1>2, HInvHolds, PTL DEF AckIsOwn
=============================================================================
