-------------------------- MODULE TcpServerProofs ---------------------------
(***************************************************************************)
(* The proofs about TcpServer, along the lines of those about TcpClient:   *)
(* first what a step does to the io_context's queue of handlers and to the *)
(* packets in hand, for any sequences, then the steps of the server.       *)
(***************************************************************************)
EXTENDS TcpServer, FiniteSetTheorems, TLAPS

-----------------------------------------------------------------------------
(* A queue of handlers that grows at its end.                              *)

\* r2 is r with handlers of S behind it.
Grows(r, r2, S) ==
    /\ r2 \in Seq(Handler)
    /\ Len(r) <= Len(r2)
    /\ \A i \in DOMAIN r2 : IF i <= Len(r) THEN r2[i] = r[i] ELSE r2[i] \in S

NoneOf(r, kinds) == \A i \in DOMAIN r : r[i].k \notin kinds
OneOf(r, kinds)  == \E i \in DOMAIN r :
                       /\ r[i].k \in kinds
                       /\ \A j \in DOMAIN r : r[j].k \in kinds => j = i

\* One handler is put behind the others (post, and every completion).
LEMMA GrowsByOne ==
    ASSUME NEW r \in Seq(Handler), NEW h \in Handler
    PROVE  Grows(r, Append(r, h), {h})
BY DEF Grows

\* The handlers of the aborted writes are put behind the others (close).
LEMMA GrowsByMore ==
    ASSUME NEW r \in Seq(Handler), NEW S \in SUBSET Handler, NEW e \in Seq(S)
    PROVE  Grows(r, r \o e, S)
<1>1. e \in Seq(Handler)
  OBVIOUS
<1>2. r \o e \in Seq(Handler) /\ Len(r \o e) = Len(r) + Len(e)
  BY <1>1
<1>3. ASSUME NEW i \in DOMAIN (r \o e)
      PROVE  IF i <= Len(r) THEN (r \o e)[i] = r[i] ELSE (r \o e)[i] \in S
  BY <1>1, <1>2
<1> QED
  BY <1>2, <1>3 DEF Grows

\* Handlers of other kinds make no difference to those that are counted.
LEMMA GrowsOthers ==
    ASSUME NEW r \in Seq(Handler), NEW r2, NEW S, NEW kinds,
           Grows(r, r2, S), \A h \in S : h.k \notin kinds
    PROVE  /\ NoneOf(r, kinds) => NoneOf(r2, kinds)
           /\ OneOf(r, kinds) => OneOf(r2, kinds)
<1>1. NoneOf(r, kinds) => NoneOf(r2, kinds)
  BY DEF Grows, NoneOf
<1>2. ASSUME OneOf(r, kinds) PROVE OneOf(r2, kinds)
  <2>1. PICK i \in DOMAIN r : r[i].k \in kinds /\ \A j \in DOMAIN r : r[j].k \in kinds => j = i
    BY <1>2 DEF OneOf
  <2>2. i \in DOMAIN r2 /\ r2[i].k \in kinds
    BY <2>1 DEF Grows
  <2>3. ASSUME NEW j \in DOMAIN r2, r2[j].k \in kinds PROVE j = i
    <3>1. j <= Len(r) /\ r2[j] = r[j]
      BY <2>3 DEF Grows
    <3> QED
      BY <2>1, <2>3, <3>1 DEF Grows
  <2> QED
    BY <2>2, <2>3 DEF OneOf
<1> QED
  BY <1>1, <1>2

\* The first handler that counts.
LEMMA GrowsFirst ==
    ASSUME NEW r \in Seq(Handler), NEW h \in Handler, NEW kinds,
           NoneOf(r, kinds), h.k \in kinds
    PROVE  OneOf(Append(r, h), kinds)
<1> DEFINE a == Append(r, h)
<1>1. /\ DOMAIN a = 1 .. Len(r) + 1 /\ DOMAIN r = 1 .. Len(r)
      /\ a[Len(r) + 1] = h /\ \A i \in 1 .. Len(r) : a[i] = r[i]
  OBVIOUS
<1> HIDE DEF a
<1>2. \A j \in DOMAIN a : a[j].k \in kinds => j = Len(r) + 1
  BY <1>1 DEF NoneOf
<1> QED
  BY <1>1, <1>2 DEF OneOf, a

\* The head is taken: it counts, or another does.
LEMMA TailOf ==
    ASSUME NEW r \in Seq(Handler), r # <<>>, NEW kinds
    PROVE  /\ NoneOf(r, kinds) => NoneOf(Tail(r), kinds)
           /\ (OneOf(r, kinds) /\ Head(r).k \in kinds) => NoneOf(Tail(r), kinds)
           /\ (OneOf(r, kinds) /\ Head(r).k \notin kinds) => OneOf(Tail(r), kinds)
<1> DEFINE t == Tail(r)
<1>1. /\ DOMAIN t = 1 .. Len(r) - 1 /\ DOMAIN r = 1 .. Len(r) /\ Len(r) \in Nat \ {0}
      /\ \A i \in 1 .. Len(r) - 1 : t[i] = r[i + 1] /\ i + 1 \in DOMAIN r
      /\ Head(r) = r[1]
  OBVIOUS
<1> HIDE DEF t
<1>2. NoneOf(r, kinds) => NoneOf(t, kinds)
  BY <1>1 DEF NoneOf
<1>3. ASSUME OneOf(r, kinds) PROVE
        /\ Head(r).k \in kinds => NoneOf(t, kinds)
        /\ Head(r).k \notin kinds => OneOf(t, kinds)
  <2>1. PICK i \in DOMAIN r : r[i].k \in kinds /\ \A j \in DOMAIN r : r[j].k \in kinds => j = i
    BY <1>3 DEF OneOf
  <2>2. CASE i = 1
    <3>1. \A j \in DOMAIN t : t[j].k \notin kinds
      BY <1>1, <2>1, <2>2
    <3> QED
      BY <1>1, <2>1, <2>2, <3>1 DEF NoneOf
  <2>3. CASE i # 1
    <3>1. i - 1 \in DOMAIN t /\ t[i - 1].k \in kinds
      BY <1>1, <2>1, <2>3
    <3>2. ASSUME NEW j \in DOMAIN t, t[j].k \in kinds PROVE j = i - 1
      <4>1. j + 1 \in DOMAIN r /\ r[j + 1].k \in kinds /\ j \in Nat
        BY <1>1, <3>2
      <4>2. j + 1 = i
        BY <2>1, <4>1
      <4> QED
        BY <4>1, <4>2
    <3>3. Head(r).k \notin kinds
      BY <1>1, <2>1, <2>3
    <3> QED
      BY <3>1, <3>2, <3>3 DEF OneOf
  <2> QED
    BY <2>2, <2>3
<1> QED
  BY <1>2, <1>3 DEF t

\* How many handlers are waiting.
LEMMA WaitingIs ==
    ASSUME NEW kinds
    PROVE  /\ NoneOf(ready, kinds) => Cardinality(Waiting(kinds)) = 0
           /\ OneOf(ready, kinds) => Cardinality(Waiting(kinds)) = 1
<1>1. ASSUME NoneOf(ready, kinds) PROVE Cardinality(Waiting(kinds)) = 0
  <2>1. Waiting(kinds) = {}
    BY <1>1 DEF NoneOf, Waiting
  <2> QED
    BY <2>1, FS_EmptySet
<1>2. ASSUME OneOf(ready, kinds) PROVE Cardinality(Waiting(kinds)) = 1
  <2>1. PICK i \in DOMAIN ready :
          ready[i].k \in kinds /\ \A j \in DOMAIN ready : ready[j].k \in kinds => j = i
    BY <1>2 DEF OneOf
  <2>2. Waiting(kinds) = {i}
    BY <2>1 DEF Waiting
  <2> QED
    BY <2>2, FS_Singleton
<1> QED
  BY <1>1, <1>2

-----------------------------------------------------------------------------
(* The packets in hand: the writes that are outstanding, then the write    *)
(* queue, then the posted handlers.                                        *)

\* p was written before q, if one thread wrote both.
Before(p, q) == p[1] = q[1] => p[2] < q[2]

Rising(s)   == \A i, j \in DOMAIN s : i < j => Before(s[i], s[j])
Apart(s, t) == \A i \in DOMAIN s, j \in DOMAIN t : Before(s[i], t[j])

PostsOf(r)     == {i \in DOMAIN r : r[i].k = "post"}
PostsRise(r)   == \A i, j \in PostsOf(r) : i < j => Before(r[i].p, r[j].p)
Below(s, r)    == \A i \in DOMAIN s, j \in PostsOf(r) : Before(s[i], r[j].p)

\* One line of packets, in the order in which each thread wrote its own.
Line(wr, q, r) ==
    Rising(wr) /\ Rising(q) /\ Apart(wr, q) /\ PostsRise(r) /\ Below(wr, r) /\ Below(q, r)

Held(wr, q, r) ==
    {wr[i] : i \in DOMAIN wr} \cup {q[i] : i \in DOMAIN q} \cup {r[i].p : i \in PostsOf(r)}

\* The line goes on as a line, and no packet comes to it.
Kept(wr, q, r, wr2, q2, r2) ==
    Line(wr, q, r) => Line(wr2, q2, r2) /\ Held(wr2, q2, r2) \subseteq Held(wr, q, r)

\* Two such steps are one.
LEMMA KeptTwice ==
    ASSUME NEW wr, NEW q, NEW r, NEW wr1, NEW q1, NEW r1, NEW wr2, NEW q2, NEW r2,
           Kept(wr, q, r, wr1, q1, r1), Kept(wr1, q1, r1, wr2, q2, r2)
    PROVE  Kept(wr, q, r, wr2, q2, r2)
BY DEF Kept

\* Handlers that bring no packet.
LEMMA KeptGrowing ==
    ASSUME NEW wr \in Seq(Packets), NEW q \in Seq(Packets), NEW r \in Seq(Handler), NEW r2, NEW S,
           Grows(r, r2, S), \A h \in S : h.k # "post"
    PROVE  Kept(wr, q, r, wr, q, r2)
<1>1. PostsOf(r2) = PostsOf(r) /\ \A i \in PostsOf(r) : r2[i] = r[i]
  BY DEF Grows, PostsOf
<1>2. PostsRise(r) => PostsRise(r2)
  BY <1>1 DEF PostsRise
<1>3. \A s : Below(s, r) => Below(s, r2)
  BY <1>1 DEF Below
<1>4. Held(wr, q, r2) = Held(wr, q, r)
  BY <1>1 DEF Held
<1> QED
  BY <1>2, <1>3, <1>4 DEF Kept, Line

\* The head of the handlers is taken, whatever it is.
LEMMA KeptTail ==
    ASSUME NEW wr \in Seq(Packets), NEW q \in Seq(Packets), NEW r \in Seq(Handler), r # <<>>
    PROVE  Kept(wr, q, r, wr, q, Tail(r))
<1> DEFINE t == Tail(r)
<1>1. /\ DOMAIN t = 1 .. Len(r) - 1 /\ DOMAIN r = 1 .. Len(r) /\ Len(r) \in Nat \ {0}
      /\ \A i \in DOMAIN t : t[i] = r[i + 1] /\ i + 1 \in DOMAIN r
  OBVIOUS
<1> HIDE DEF t
<1>2. \A i \in PostsOf(t) : i + 1 \in PostsOf(r) /\ t[i] = r[i + 1] /\ i \in Nat
  BY <1>1 DEF PostsOf
<1>3. PostsRise(r) => PostsRise(t)
  BY <1>2 DEF PostsRise
<1>4. \A s : Below(s, r) => Below(s, t)
  BY <1>2 DEF Below
<1>5. {t[i].p : i \in PostsOf(t)} \subseteq {r[i].p : i \in PostsOf(r)}
  BY <1>2
<1>6. Held(wr, q, t) \subseteq Held(wr, q, r)
  BY <1>5 DEF Held
<1>7. Kept(wr, q, r, wr, q, t)
  BY <1>3, <1>4, <1>6 DEF Kept, Line
<1> QED
  BY <1>7 DEF t

\* The head is a posted packet, which goes to the end of the queue.
LEMMA KeptQueued ==
    ASSUME NEW wr \in Seq(Packets), NEW q \in Seq(Packets), NEW r \in Seq(Handler), r # <<>>,
           Head(r).k = "post", Head(r).p \in Packets
    PROVE  Kept(wr, q, r, wr, Append(q, Head(r).p), Tail(r))
<1> SUFFICES ASSUME Line(wr, q, r)
             PROVE  /\ Line(wr, Append(q, Head(r).p), Tail(r))
                    /\ Held(wr, Append(q, Head(r).p), Tail(r)) \subseteq Held(wr, q, r)
  BY DEF Kept
<1> DEFINE t == Tail(r)
           p == Head(r).p
           a == Append(q, p)
<1>1. /\ DOMAIN t = 1 .. Len(r) - 1 /\ DOMAIN r = 1 .. Len(r) /\ Len(r) \in Nat \ {0}
      /\ \A i \in DOMAIN t : t[i] = r[i + 1] /\ i + 1 \in DOMAIN r /\ i \in Nat \ {0}
      /\ 1 \in DOMAIN r /\ r[1] = Head(r) /\ p = r[1].p /\ r[1].k = "post"
  OBVIOUS
<1>2. /\ DOMAIN a = 1 .. Len(q) + 1 /\ DOMAIN q = 1 .. Len(q) /\ Len(q) \in Nat
      /\ a[Len(q) + 1] = p /\ \A i \in DOMAIN q : a[i] = q[i]
  OBVIOUS
<1> HIDE DEF t, p, a
<1>3. \A i \in PostsOf(t) : i + 1 \in PostsOf(r) /\ t[i] = r[i + 1] /\ i \in Nat \ {0}
  BY <1>1 DEF PostsOf
<1>4. 1 \in PostsOf(r)
  BY <1>1 DEF PostsOf
<1>5. Line(wr, q, t) /\ Held(wr, q, t) \subseteq Held(wr, q, r)
  BY KeptTail DEF Kept, t
<1>6. \A i \in PostsOf(t) : Before(p, t[i].p)
  BY <1>1, <1>3, <1>4 DEF Line, PostsRise
<1>7. (\A i \in DOMAIN q : Before(q[i], p)) /\ (\A i \in DOMAIN wr : Before(wr[i], p))
  BY <1>1, <1>4 DEF Line, Below
<1>8. \A i \in DOMAIN a : i \in DOMAIN q \/ (i = Len(q) + 1 /\ a[i] = p)
  BY <1>2
<1>9. Rising(a)
  <2>1. ASSUME NEW i \in DOMAIN a, NEW j \in DOMAIN a, i < j PROVE Before(a[i], a[j])
    <3>1. i \in DOMAIN q /\ a[i] = q[i]
      BY <1>2, <2>1
    <3> QED
      BY <1>2, <1>5, <1>7, <1>8, <2>1, <3>1 DEF Line, Rising
  <2> QED
    BY <2>1 DEF Rising
<1>10. Apart(wr, a)
  BY <1>2, <1>5, <1>7, <1>8 DEF Line, Apart
<1>11. Below(a, t)
  BY <1>2, <1>5, <1>6, <1>8 DEF Line, Below
<1>12. {a[i] : i \in DOMAIN a} \subseteq {q[i] : i \in DOMAIN q} \cup {p}
  BY <1>2, <1>8
<1>13. p \in Held(wr, q, r)
  BY <1>1, <1>4 DEF Held
<1>14. Held(wr, a, t) \subseteq Held(wr, q, t) \cup {p}
  BY <1>12 DEF Held
<1>15. Line(wr, a, t)
  BY <1>5, <1>9, <1>10, <1>11 DEF Line
<1>16. Held(wr, a, t) \subseteq Held(wr, q, r)
  BY <1>5, <1>13, <1>14
<1> QED
  BY <1>15, <1>16 DEF a, t, p

\* The first packet of the queue becomes the last of the writes.
LEMMA KeptWriting ==
    ASSUME NEW wr \in Seq(Packets), NEW q \in Seq(Packets), NEW r \in Seq(Handler), q # <<>>
    PROVE  Kept(wr, q, r, Append(wr, Head(q)), Tail(q), r)
<1> SUFFICES ASSUME Line(wr, q, r)
             PROVE  /\ Line(Append(wr, Head(q)), Tail(q), r)
                    /\ Held(Append(wr, Head(q)), Tail(q), r) \subseteq Held(wr, q, r)
  BY DEF Kept
<1> DEFINE t == Tail(q)
           p == Head(q)
           a == Append(wr, p)
<1>1. /\ DOMAIN t = 1 .. Len(q) - 1 /\ DOMAIN q = 1 .. Len(q) /\ Len(q) \in Nat \ {0}
      /\ \A i \in DOMAIN t : t[i] = q[i + 1] /\ i + 1 \in DOMAIN q /\ i \in Nat \ {0}
      /\ 1 \in DOMAIN q /\ p = q[1]
  OBVIOUS
<1>2. /\ DOMAIN a = 1 .. Len(wr) + 1 /\ DOMAIN wr = 1 .. Len(wr) /\ Len(wr) \in Nat
      /\ a[Len(wr) + 1] = p /\ \A i \in DOMAIN wr : a[i] = wr[i]
  OBVIOUS
<1> HIDE DEF t, p, a
<1>3. \A i \in DOMAIN a : i \in DOMAIN wr \/ (i = Len(wr) + 1 /\ a[i] = p)
  BY <1>2
<1>4. Rising(a)
  <2>1. ASSUME NEW i \in DOMAIN a, NEW j \in DOMAIN a, i < j PROVE Before(a[i], a[j])
    <3>1. i \in DOMAIN wr /\ a[i] = wr[i]
      BY <1>2, <2>1
    <3> QED
      BY <1>1, <1>2, <1>3, <2>1, <3>1 DEF Line, Rising, Apart
  <2> QED
    BY <2>1 DEF Rising
<1>5. Rising(t)
  BY <1>1 DEF Line, Rising
<1>6. \A i \in DOMAIN t : Before(p, t[i])
  BY <1>1 DEF Line, Rising
<1>7. Apart(a, t)
  BY <1>1, <1>2, <1>3, <1>6 DEF Line, Apart
<1>8. Below(a, r) /\ Below(t, r)
  BY <1>1, <1>2, <1>3 DEF Line, Below
<1>9. p \in Held(wr, q, r)
  BY <1>1 DEF Held
<1>10. {t[i] : i \in DOMAIN t} \subseteq {q[i] : i \in DOMAIN q}
  BY <1>1
<1>11. {a[i] : i \in DOMAIN a} \subseteq {wr[i] : i \in DOMAIN wr} \cup {p}
  BY <1>2, <1>3
<1>12. Held(a, t, r) \subseteq Held(wr, q, r)
  BY <1>9, <1>10, <1>11 DEF Held
<1>13. Line(a, t, r)
  BY <1>4, <1>5, <1>7, <1>8 DEF Line
<1> QED
  BY <1>12, <1>13 DEF a, t, p

\* Packets are lost: the first of the queue, the first of the writes, all writes.
LEMMA KeptLosing ==
    ASSUME NEW wr \in Seq(Packets), NEW q \in Seq(Packets), NEW r
    PROVE  /\ q # <<>> => Kept(wr, q, r, wr, Tail(q), r)
           /\ wr # <<>> => Kept(wr, q, r, Tail(wr), q, r)
           /\ Kept(wr, q, r, <<>>, q, r)
<1>1. ASSUME q # <<>> PROVE Kept(wr, q, r, wr, Tail(q), r)
  <2> DEFINE t == Tail(q)
  <2>1. /\ DOMAIN t = 1 .. Len(q) - 1 /\ DOMAIN q = 1 .. Len(q) /\ Len(q) \in Nat \ {0}
        /\ \A i \in DOMAIN t : t[i] = q[i + 1] /\ i + 1 \in DOMAIN q /\ i \in Nat
    BY <1>1
  <2> HIDE DEF t
  <2>2. Rising(q) => Rising(t)
    BY <2>1 DEF Rising
  <2>3. Apart(wr, q) => Apart(wr, t)
    BY <2>1 DEF Apart
  <2>4. Below(q, r) => Below(t, r)
    BY <2>1 DEF Below
  <2>5. {t[i] : i \in DOMAIN t} \subseteq {q[i] : i \in DOMAIN q}
    BY <2>1
  <2>6. Held(wr, t, r) \subseteq Held(wr, q, r)
    BY <2>5 DEF Held
  <2>7. Kept(wr, q, r, wr, t, r)
    BY <2>2, <2>3, <2>4, <2>6 DEF Kept, Line
  <2> QED
    BY <2>7 DEF t
<1>2. ASSUME wr # <<>> PROVE Kept(wr, q, r, Tail(wr), q, r)
  <2> DEFINE t == Tail(wr)
  <2>1. /\ DOMAIN t = 1 .. Len(wr) - 1 /\ DOMAIN wr = 1 .. Len(wr) /\ Len(wr) \in Nat \ {0}
        /\ \A i \in DOMAIN t : t[i] = wr[i + 1] /\ i + 1 \in DOMAIN wr /\ i \in Nat
    BY <1>2
  <2> HIDE DEF t
  <2>2. Rising(wr) => Rising(t)
    BY <2>1 DEF Rising
  <2>3. Apart(wr, q) => Apart(t, q)
    BY <2>1 DEF Apart
  <2>4. Below(wr, r) => Below(t, r)
    BY <2>1 DEF Below
  <2>5. {t[i] : i \in DOMAIN t} \subseteq {wr[i] : i \in DOMAIN wr}
    BY <2>1
  <2>6. Held(t, q, r) \subseteq Held(wr, q, r)
    BY <2>5 DEF Held
  <2>7. Kept(wr, q, r, t, q, r)
    BY <2>2, <2>3, <2>4, <2>6 DEF Kept, Line
  <2> QED
    BY <2>7 DEF t
<1>3. Kept(wr, q, r, <<>>, q, r)
  <2> DEFINE e == <<>>
  <2>1. DOMAIN e = {}
    OBVIOUS
  <2> HIDE DEF e
  <2>2. Rising(e) /\ Apart(e, q) /\ Below(e, r)
    BY <2>1 DEF Rising, Apart, Below
  <2>3. Held(e, q, r) \subseteq Held(wr, q, r)
    BY <2>1 DEF Held
  <2>4. Kept(wr, q, r, e, q, r)
    BY <2>2, <2>3 DEF Kept, Line
  <2> QED
    BY <2>4 DEF e
<1> QED
  BY <1>1, <1>2, <1>3

-----------------------------------------------------------------------------
(* The types, in three parts.                                              *)

Flags ==
    /\ owner \in {"idle", "up", "flag", "close", "shut", "join", "threw"}
    /\ starts \in 0 .. MaxStarts
    /\ io \in {"off", "run", "dequeue", "closing", "ended"}
    /\ {running, open, accepting, reset, wip, stalled} \subseteq BOOLEAN
    /\ leftover \in {"nothing", "packets", "handlers"}

Data ==
    /\ reads \in [header : Nat, payload : Nat]
    /\ writing \in Seq(Packets)
    /\ queue \in Seq(Packets)
    /\ Len(queue) <= QueueMax
    /\ ready \in Seq(Handler)

\* A writer that is about to post has packets left.
Calls ==
    /\ caller \in [Writers -> {"out", "post"}]
    /\ count \in [Writers -> 0 .. MaxPackets]
    /\ out \in [Writers -> 0 .. MaxPackets]
    /\ \A w \in Writers : caller[w] = "post" => count[w] < MaxPackets

ReadKinds  == {"header", "payload"}
WriteKinds == {"write"}

-----------------------------------------------------------------------------
(* What the operators of TcpTransport do to the queue of handlers.         *)

LEMMA HandlerTypes ==
    /\ \A k \in {"header", "payload", "write", "accept"}, x \in Results : H(k, x) \in Handler
    /\ \A p \in Packets : [k |-> "post", p |-> p] \in Handler
    /\ \A h \in Handler : h.k = "post" => h.p \in Packets
    /\ \A h \in Handler : h.k # "post" => h.x \in Results
<1>1. \A k \in {"header", "payload", "write", "accept"}, x \in Results : H(k, x) \in Handler
  BY DEF H, Handler
<1>2. \A p \in Packets : [k |-> "post", p |-> p] \in Handler
  BY DEF Handler
<1>3. ASSUME NEW h \in Handler PROVE (h.k = "post" => h.p \in Packets) /\ (h.k # "post" => h.x \in Results)
  BY DEF Handler
<1> QED
  BY <1>1, <1>2, <1>3

LEMMA CloseShape ==
    ASSUME Data, NEW r \in Seq(Handler), NEW again, CloseSocket(r, again)
    PROVE  /\ open' = FALSE /\ accepting' = again
           /\ reads' = NoReads /\ writing' = <<>>
           /\ Grows(r, ready', {H("write", "aborted")})
           /\ Len(writing) = 0 => ready' = r
           /\ Len(writing) = 1 => ready' = Append(r, H("write", "aborted"))
<1> DEFINE h == H("write", "aborted")
<1>1. {h} \in SUBSET Handler
  BY HandlerTypes DEF Results
<1>2. writing \in Seq(Packets) /\ DOMAIN writing = 1 .. Len(writing) /\ Len(writing) \in Nat
  BY DEF Data
<1>3. Aborted = [i \in 1 .. Len(writing) |-> h]
  BY <1>2 DEF Aborted
<1> HIDE DEF h
<1>4. Aborted \in Seq({h}) /\ Len(Aborted) = Len(writing)
  BY <1>2, <1>3
<1>5. Grows(r, r \o Aborted, {h})
  BY <1>1, <1>4, GrowsByMore
<1>6. Len(writing) = 0 => r \o Aborted = r
  BY <1>1, <1>4
<1>7. ASSUME Len(writing) = 1 PROVE r \o Aborted = Append(r, h)
  <2>1. Aborted = <<h>>
    BY <1>3, <1>7
  <2> QED
    BY <2>1
<1> QED
  BY <1>5, <1>6, <1>7 DEF CloseSocket, h

\* Reads of some kinds are asked for: of one, or of two after an ill-formed header.
LEMMA ReadShape ==
    ASSUME Data, NEW r \in Seq(Handler), NEW kinds,
           kinds \in {<<"header">>, <<"payload">>, <<"header", "payload">>}, AsyncRead(r, kinds)
    PROVE  /\ reads' \in [header : Nat, payload : Nat]
           /\ \/ open /\ ready' = r /\ reads'.header + reads'.payload > 0
              \/ ~open /\ UNCHANGED reads /\ Grows(r, ready', {H("header", "err"), H("payload", "err")})
<1>0. kinds \in Seq(ReadKinds) /\ Len(kinds) \in Nat \ {0}
  <2>1. "header" \in ReadKinds /\ "payload" \in ReadKinds
    BY DEF ReadKinds
  <2>2. CASE kinds = <<"header">>
    BY <2>1, <2>2
  <2>3. CASE kinds = <<"payload">>
    BY <2>1, <2>3
  <2>4. CASE kinds = <<"header", "payload">>
    BY <2>1, <2>4
  <2> QED
    BY <2>2, <2>3, <2>4
<1>1. /\ kinds \in Seq(ReadKinds) /\ DOMAIN kinds = 1 .. Len(kinds) /\ Len(kinds) \in Nat
      /\ \A i \in DOMAIN kinds : kinds[i] \in ReadKinds
      /\ 1 \in DOMAIN kinds
  BY <1>0
<1>2. DOMAIN reads = {"header", "payload"} /\ reads.header \in Nat /\ reads.payload \in Nat
  BY DEF Data
<1>3. CASE open
  <2>1. ready' = r /\ reads' = [j \in {"header", "payload"} |->
                                  IF \E i \in DOMAIN kinds : kinds[i] = j THEN reads[j] + 1 ELSE reads[j]]
    BY <1>2, <1>3 DEF AsyncRead
  <2>2. reads' \in [header : Nat, payload : Nat]
    BY <1>2, <2>1
  <2>3. /\ reads'.header \in {reads.header, reads.header + 1} /\ reads'.payload \in {reads.payload, reads.payload + 1}
        /\ reads'.header = reads.header + 1 \/ reads'.payload = reads.payload + 1
    BY <1>1, <1>2, <2>1 DEF ReadKinds
  <2>4. reads'.header + reads'.payload > 0
    BY <1>2, <2>3
  <2> QED
    BY <1>3, <2>1, <2>2, <2>4
<1>4. CASE ~open
  <2> DEFINE S == {H("header", "err"), H("payload", "err")}
             e == [i \in DOMAIN kinds |-> H(kinds[i], "err")]
  <2>1. UNCHANGED reads /\ ready' = r \o e
    BY <1>4 DEF AsyncRead
  <2>2. S \in SUBSET Handler
    BY HandlerTypes DEF Results
  <2>3. \A i \in DOMAIN kinds : H(kinds[i], "err") \in S
    BY <1>1 DEF ReadKinds
  <2> HIDE DEF S
  <2>4. e \in Seq(S)
    BY <1>1, <2>3
  <2> HIDE DEF e
  <2>5. Grows(r, ready', S)
    BY <2>1, <2>2, <2>4, GrowsByMore
  <2> QED
    BY <1>4, <2>1, <2>5 DEF S, Data
<1> QED
  BY <1>3, <1>4

-----------------------------------------------------------------------------
(* The steps of the server, by what they do to the socket and the queues.  *)

\* The socket is closed, r are the handlers that were there; or shutdown() throws.
Closed(r, again) ==
    /\ open' = FALSE /\ accepting' = again /\ reads' = NoReads /\ writing' = <<>>
    /\ Grows(r, ready', {H("write", "aborted")})
    /\ Len(writing) = 0 => ready' = r
    /\ Len(writing) = 1 => ready' = Append(r, H("write", "aborted"))

Threw(r) == open /\ reset /\ ready' = r /\ UNCHANGED <<open, accepting, reads, writing>>

\* A handler of a read has run, and asks for the next.
ReadRearms ==
    /\ reads' \in [header : Nat, payload : Nat]
    /\ UNCHANGED <<io, open, accepting, writing, revived, refused>>
    /\ \/ open /\ ready' = Rest /\ reads'.header + reads'.payload > 0
       \/ ~open /\ UNCHANGED reads /\ Grows(Rest, ready', {H("header", "err"), H("payload", "err")})

\* The peer has gone from a socket that is open still.
AtEof ==
    /\ open /\ io' = "closing" /\ ready' = Rest
    /\ UNCHANGED <<accepting, open, reads, writing, revived, refused>>

\* The server listens again.
Reopened(r) ==
    /\ Closed(r, TRUE)
    /\ revived' = (revived \/ owner \in {"flag", "join"}) /\ refused' = FALSE

LEMMA FailStep ==
    ASSUME Data, NEW r \in Seq(Handler), Fail(r)
    PROVE  io' = "ended" /\ (Closed(r, FALSE) \/ Threw(r))
BY CloseShape DEF Fail, Close, ShutdownThrows, ops, Closed, Threw

LEMMA ReopenStep ==
    ASSUME Data, NEW r \in Seq(Handler), Reopen(r)
    PROVE  Reopened(r)
<1>1. ASSUME CloseSocket(r, TRUE) PROVE Closed(r, TRUE)
  BY <1>1, CloseShape DEF Closed
<1> QED
  BY <1>1 DEF Reopen, Reopened, Close

LEMMA ReadStep ==
    ASSUME Data, OnHeader \/ OnPayload
    PROVE  /\ io = "run" /\ ready # <<>> /\ Head(ready).k \in ReadKinds
           /\ UNCHANGED <<thread, wq, users, out, stalled>>
           /\ \/ (Closed(Rest, FALSE) \/ Threw(Rest)) /\ io' = "ended" /\ UNCHANGED <<revived, refused>>
              \/ Reopened(Rest) /\ UNCHANGED io
              \/ AtEof
              \/ ReadRearms
<1>1. io = "run" /\ ready # <<>> /\ Head(ready).k \in ReadKinds /\ Rest \in Seq(Handler)
  BY DEF OnHeader, OnPayload, Handles, ReadKinds, Data, Rest
<1>2. UNCHANGED <<thread, wq, users, out, stalled>>
  BY DEF OnHeader, OnPayload
<1>3. ASSUME PeerGone(Rest) PROVE AtEof \/ (Reopened(Rest) /\ UNCHANGED io)
  BY <1>1, <1>3, ReopenStep DEF PeerGone, AtEof, ops, marks
<1>4. ASSUME NEW kinds, kinds \in {<<"header">>, <<"payload">>, <<"header", "payload">>},
             AsyncRead(Rest, kinds), UNCHANGED <<io, open, accepting, writing, marks>>
      PROVE  ReadRearms
  BY <1>1, <1>4, ReadShape DEF ReadRearms, marks
<1>5. ASSUME ReadEnds
      PROVE  \/ (Closed(Rest, FALSE) \/ Threw(Rest)) /\ io' = "ended" /\ UNCHANGED <<revived, refused>>
             \/ Reopened(Rest) /\ UNCHANGED io
             \/ AtEof
  BY <1>1, <1>3, <1>5, FailStep DEF ReadEnds, marks
<1>6. \/ ReadEnds
      \/ \E kinds \in {<<"header">>, <<"payload">>, <<"header", "payload">>} :
            AsyncRead(Rest, kinds) /\ UNCHANGED <<io, open, accepting, writing, marks>>
  BY DEF OnHeader, OnPayload, BadHeader
<1> QED
  BY <1>1, <1>2, <1>4, <1>5, <1>6

LEMMA EofStep ==
    ASSUME Data, CloseAtEof
    PROVE  /\ io = "closing"
           /\ UNCHANGED <<thread, wq, users, out, stalled>>
           /\ \/ (Closed(ready, FALSE) \/ Threw(ready)) /\ io' = "ended" /\ UNCHANGED <<revived, refused>>
              \/ Reopened(ready) /\ io' = "run"
<1>1. ready \in Seq(Handler)
  BY DEF Data
<1> QED
  BY <1>1, FailStep, ReopenStep DEF CloseAtEof, marks

\* The head of the queue of packets is written, or there is none.
Written(r, q) ==
    \/ q = <<>> /\ ready' = r /\ queue' = q /\ UNCHANGED <<wip, writing>>
    \/ /\ q # <<>> /\ queue' = Tail(q) /\ wip' = TRUE
       /\ open /\ ready' = r /\ writing' = Append(writing, Head(q))
    \/ /\ q # <<>> /\ queue' = Tail(q) /\ wip' = TRUE
       /\ ~open /\ ready' = Append(r, H("write", "err")) /\ UNCHANGED writing

LEMMA PostStep ==
    ASSUME Data, OnPost
    PROVE  /\ io = "run" /\ ready # <<>> /\ Head(ready).k = "post" /\ Packet \in Packets
           /\ UNCHANGED <<thread, users, out, stalled, revived, refused, open, accepting, reads>>
           /\ \/ io' \in {"run", "ended"} /\ ready' = Rest /\ UNCHANGED <<writing, wq>>
              \/ /\ wip /\ Len(queue) < QueueMax
                 /\ queue' = Append(queue, Packet) /\ ready' = Rest
                 /\ UNCHANGED <<wip, io, writing>>
              \/ /\ ~wip /\ Len(queue) < QueueMax
                 /\ Written(Rest, Append(queue, Packet))
                 /\ UNCHANGED io
<1>1. io = "run" /\ ready # <<>> /\ Head(ready).k = "post"
  BY DEF OnPost, Handles
<1>2. Head(ready) \in Handler
  BY <1>1 DEF Data
<1>3. Packet \in Packets
  BY <1>1, <1>2, HandlerTypes DEF Packet
<1>4. ASSUME DoWrite(Rest, Append(queue, Packet)) PROVE Written(Rest, Append(queue, Packet))
  BY <1>4 DEF DoWrite, AsyncWrite, Written
<1>5. Len(queue) >= QueueMax \/ Len(queue) < QueueMax
  BY TcpAssumption DEF Data
<1> QED
  BY <1>1, <1>3, <1>4, <1>5 DEF OnPost, QueueFull, DropPacket, ops, marks

LEMMA WrittenStep ==
    ASSUME Data, OnWritten
    PROVE  /\ io = "run" /\ ready # <<>> /\ Head(ready).k = "write"
           /\ UNCHANGED <<thread, queue, users, out, stalled, revived, refused>>
           /\ \/ /\ ready' = Rest /\ UNCHANGED <<open, accepting, reads, writing>>
                 /\ \/ io' = "dequeue" /\ UNCHANGED wip
                    \/ wip' = FALSE /\ UNCHANGED io
              \/ (Closed(Rest, FALSE) \/ Threw(Rest)) /\ io' = "ended" /\ UNCHANGED wip
<1>1. io = "run" /\ ready # <<>> /\ Head(ready).k = "write" /\ Rest \in Seq(Handler)
  BY DEF OnWritten, Handles, Data, Rest
<1> QED
  BY <1>1, FailStep DEF OnWritten, ops, Result, marks

LEMMA NextStep ==
    ASSUME Data, WriteNext
    PROVE  /\ io = "dequeue" /\ io' = "run" /\ Written(ready, queue)
           /\ (~stalled' => ~stalled /\ queue # <<>>)
           /\ UNCHANGED <<thread, open, reads, accepting, users, out, revived, refused>>
BY DEF WriteNext, DoWrite, AsyncWrite, Written, marks

LEMMA StopStep ==
    ASSUME Data, StopLooks \/ StopCloses
    PROVE  /\ owner \in {"up", "shut"}
           /\ \/ Closed(ready, FALSE) /\ owner' = "flag"
              \/ UNCHANGED sock /\ ((owner = "up" /\ owner' = "shut") \/ owner' = "threw")
           /\ UNCHANGED <<starts, running, reset, leftover, io, wq, users, out, stalled, revived, refused>>
<1>1. ready \in Seq(Handler)
  BY DEF Data
<1>2. ASSUME Close(ready, FALSE) PROVE Closed(ready, FALSE)
  BY <1>1, <1>2, CloseShape DEF Close, Closed
<1> QED
  BY <1>2 DEF StopLooks, StopCloses, marks

LEMMA AcceptStep ==
    ASSUME Data, OnAccept
    PROVE  /\ io = "run" /\ ready # <<>> /\ Head(ready).k = "accept" /\ ready' = Rest
           /\ reads' \in [header : Nat, payload : Nat]
           /\ UNCHANGED <<owner, starts, running, leftover, io, accepting, writing, wq, users, out, stalled, refused>>
           /\ \/ /\ ~open /\ open' = TRUE /\ reset' = FALSE
                 /\ reads'.header + reads'.payload > 0
                 /\ revived' = (revived \/ owner \in {"flag", "join"})
              \/ open /\ UNCHANGED <<open, reset, reads, revived>>
<1>1. ASSUME reads' = [reads EXCEPT !.header = @ + 1]
      PROVE  reads' \in [header : Nat, payload : Nat] /\ reads'.header + reads'.payload > 0
  <2>1. reads.header \in Nat /\ reads.payload \in Nat /\ DOMAIN reads = {"header", "payload"}
    BY DEF Data
  <2>2. reads'.header = reads.header + 1 /\ reads'.payload = reads.payload
    BY <1>1, <2>1
  <2>3. reads' \in [header : Nat, payload : Nat]
    BY <1>1, <2>1 DEF Data
  <2> QED
    BY <2>1, <2>2, <2>3
<1> QED
  BY <1>1 DEF OnAccept, Handles, Rest, Data

-----------------------------------------------------------------------------
(* The inductive invariant.                                                *)

\* What the owner's position says: between stop() and start() the socket is closed, unless a
\* handler opened it again.  A closed socket has no write outstanding.
Positions ==
    /\ owner = "idle" => io = "off"
    /\ (owner \in {"flag", "join", "idle"} /\ ~revived) => ~open
    /\ ~open => writing = <<>>

SomeRead == reads.header + reads.payload > 0 \/ ~NoneOf(ready, ReadKinds)

\* A read is outstanding or its handler is waiting.
ReadInv == (open /\ io \in {"run", "dequeue"} /\ ~revived) => SomeRead

NoWriteIn(wr, r)  == Len(wr) = 0 /\ NoneOf(r, WriteKinds)
OneWriteIn(wr, r) == \/ Len(wr) = 1 /\ NoneOf(r, WriteKinds)
                     \/ Len(wr) = 0 /\ OneOf(r, WriteKinds)
NoWrite  == NoWriteIn(writing, ready)
OneWriteNow == OneWriteIn(writing, ready)

\* The flag stands for the one write, also while the socket is closed.  Between size_approx()
\* and try_dequeue it stands for the write that completed.
WriteInv ==
    (~stalled /\ ~revived /\ leftover # "handlers") =>
        /\ io \in {"run", "closing"} => (wip => OneWriteNow) /\ (~wip => NoWrite)
        /\ io = "dequeue" => wip /\ NoWrite

Order ==
    /\ Line(writing, queue, ready)
    /\ \A p \in Held(writing, queue, ready) : p[2] <= count[p[1]]

Bools == Flags /\ revived \in BOOLEAN /\ refused \in BOOLEAN

SInv == Bools /\ Data /\ Calls /\ Positions /\ ReadInv /\ Listens /\ WriteInv /\ Order

-----------------------------------------------------------------------------
(* The types are kept.                                                     *)

LEMMA TypesAre == Bools /\ Data /\ Calls => TypeOK
BY DEF TypeOK, TcpTypeOK, Bools, Flags, Data, Calls

LEMMA FlagsStep ==
    ASSUME Bools, Data, [Next]_vars
    PROVE  Bools'
<1> USE DEF Bools, Flags
<1>1. CASE OnHeader \/ OnPayload
  <2>1. /\ UNCHANGED <<thread, wq, stalled>> /\ io' \in {io, "closing", "ended"}
        /\ open' \in {open, FALSE} /\ accepting' \in {accepting, FALSE, TRUE}
        /\ refused' \in {refused, FALSE}
    BY <1>1, ReadStep DEF Closed, Threw, AtEof, Reopened, ReadRearms
  <2>2. revived' = revived \/ revived' = (revived \/ owner \in {"flag", "join"})
    BY <1>1, ReadStep DEF AtEof, Reopened, ReadRearms
  <2>3. revived' \in BOOLEAN
    BY <2>2
  <2> QED
    BY <2>1, <2>3 DEF thread, wq
<1>12. CASE CloseAtEof
  <2>1. /\ UNCHANGED <<thread, wq, stalled>> /\ io' \in {"run", "ended"}
        /\ open' \in {open, FALSE} /\ accepting' \in {accepting, FALSE, TRUE}
        /\ refused' \in {refused, FALSE}
    BY <1>12, EofStep DEF Closed, Threw, Reopened
  <2>2. revived' = revived \/ revived' = (revived \/ owner \in {"flag", "join"})
    BY <1>12, EofStep DEF Reopened
  <2>3. revived' \in BOOLEAN
    BY <2>2
  <2> QED
    BY <2>1, <2>3 DEF thread, wq
<1>2. CASE OnPost
  <2>1. /\ UNCHANGED <<thread, stalled, open, accepting, revived, refused>> /\ io' \in {io, "run", "ended"}
        /\ wip' \in {wip, TRUE, FALSE}
    BY <1>2, PostStep DEF Written, wq
  <2> QED
    BY <2>1 DEF thread
<1>3. CASE OnWritten
  <2>1. /\ UNCHANGED <<thread, stalled, revived, refused>> /\ io' \in {io, "ended", "dequeue"}
        /\ wip' \in {wip, TRUE, FALSE} /\ open' \in {open, FALSE} /\ accepting' \in {accepting, FALSE}
    BY <1>3, WrittenStep DEF Closed, Threw
  <2> QED
    BY <2>1 DEF thread
<1>4. CASE WriteNext
  <2>1. /\ UNCHANGED <<thread, open, accepting, revived, refused>> /\ io' = "run" /\ wip' \in {wip, TRUE}
    BY <1>4, NextStep DEF Written
  <2>2. stalled' \in BOOLEAN
    BY <1>4 DEF WriteNext
  <2> QED
    BY <2>1, <2>2 DEF thread
<1>5. CASE StopLooks \/ StopCloses
  <2>1. /\ UNCHANGED <<starts, running, reset, leftover, io, wq, stalled, revived, refused>>
        /\ owner' \in {"flag", "shut", "threw"}
        /\ open' \in {open, FALSE} /\ accepting' \in {accepting, FALSE}
    BY <1>5, StopStep DEF Closed, sock, ops
  <2> QED
    BY <2>1 DEF wq
<1>6. CASE OnAccept
  <2>1. /\ UNCHANGED <<owner, starts, running, leftover, io, accepting, wq, stalled, refused>>
        /\ open' \in {open, TRUE} /\ reset' \in {reset, FALSE}
        /\ revived' = revived \/ revived' = (revived \/ owner \in {"flag", "join"})
    BY <1>6, AcceptStep
  <2> QED
    BY <2>1 DEF wq
<1>7. CASE Start
  <2>1. starts' \in 0 .. MaxStarts
    BY <1>7, TcpAssumption DEF Start
  <2>2. owner' = "up" /\ io' = "run" /\ leftover' \in {"nothing", "packets", "handlers"}
    BY <1>7 DEF Start, Leftover
  <2>3. {running', open', accepting', reset', wip', stalled', revived', refused'} \subseteq BOOLEAN
    BY <1>7 DEF Start
  <2> QED
    BY <2>1, <2>2, <2>3
<1>8. CASE RunReturns \/ StopFlag \/ Join
  BY <1>8 DEF RunReturns, StopFlag, Join, thread, sock, ops, wq, marks
<1>9. CASE Users /\ UNCHANGED marks
  BY <1>9 DEF Users, ClearOne, WriteCalled, WritePosts, thread, sock, ops, wq, marks
<1>10. CASE (ReadCompletes \/ WriteCompletes \/ ConnectionBreaks) /\ UNCHANGED marks
  BY <1>10 DEF ReadCompletes, WriteCompletes, ConnectionBreaks, thread, sock, ops, wq, marks
<1>13. CASE AcceptCompletes
  BY <1>13 DEF AcceptCompletes, thread, wq
<1>11. CASE UNCHANGED vars
  BY <1>11 DEF vars, tcpVars, thread, sock, ops, wq, marks
<1> QED
  BY <1>1, <1>2, <1>3, <1>4, <1>5, <1>6, <1>7, <1>8, <1>9, <1>10, <1>11, <1>12, <1>13 DEF Next, IoThread, Network

\* The outstanding operations, and the handlers, after a step of the network or a write().
ReadDone ==
    /\ \E k \in ReadKinds, x \in {"ok", "eof", "err"} : ready' = Append(ready, H(k, x))
    /\ reads' \in [header : Nat, payload : Nat]
    /\ reads'.header + reads'.payload = reads.header + reads.payload - 1
    /\ UNCHANGED <<writing, users, out>>

WriteDone ==
    /\ \E x \in {"ok", "err"} : ready' = Append(ready, H("write", x))
    /\ writing # <<>> /\ writing' = Tail(writing)
    /\ UNCHANGED <<reads, users>>

Posted(w) ==
    /\ caller[w] = "post" /\ count[w] < MaxPackets
    /\ count' = [count EXCEPT ![w] = @ + 1]
    /\ ready' = Append(ready, [k |-> "post", p |-> <<w, count[w] + 1>>])
    /\ UNCHANGED <<reads, writing, out>>

LEMMA NetworkStep ==
    ASSUME Data, Calls, ReadCompletes \/ WriteCompletes \/ \E w \in Writers : WritePosts(w)
    PROVE  /\ UNCHANGED <<thread, io, open, accepting, wq, stalled>>
           /\ ReadDone \/ WriteDone \/ \E w \in Writers : Posted(w)
<1>1. CASE ReadCompletes
  <2>1. DOMAIN reads = ReadKinds /\ reads.header \in Nat /\ reads.payload \in Nat
    BY DEF Data, ReadKinds
  <2>2. PICK k \in ReadKinds, ec \in {"ok", "eof", "err"} :
          /\ reads[k] > 0 /\ reads' = [reads EXCEPT ![k] = @ - 1]
          /\ ready' = Append(ready, H(k, ec))
    BY <1>1, <2>1 DEF ReadCompletes
  <2>3. reads' \in [header : Nat, payload : Nat]
    BY <2>1, <2>2 DEF Data, ReadKinds
  <2>4. reads'.header + reads'.payload = reads.header + reads.payload - 1
    BY <2>1, <2>2 DEF Data, ReadKinds
  <2> QED
    BY <1>1, <2>2, <2>3, <2>4 DEF ReadCompletes, ReadDone
<1>2. CASE WriteCompletes
  BY <1>2 DEF WriteCompletes, WriteDone
<1>3. CASE \E w \in Writers : WritePosts(w)
  <2>1. PICK w \in Writers : WritePosts(w)
    BY <1>3
  <2>2. count'[w] = count[w] + 1 /\ count[w] < MaxPackets
    BY <2>1 DEF WritePosts, Calls
  <2> QED
    BY <2>1, <2>2 DEF WritePosts, Posted, ops
<1> QED
  BY <1>1, <1>2, <1>3

\* The handlers that the network puts into the queue.
LEMMA NetworkHandlers ==
    ASSUME Data, Calls
    PROVE  /\ \A k \in ReadKinds \cup {"write"}, x \in {"ok", "eof", "err"} :
                 H(k, x) \in Handler /\ H(k, x).k = k
           /\ \A w \in Writers : count[w] < MaxPackets =>
                 /\ <<w, count[w] + 1>> \in Packets
                 /\ [k |-> "post", p |-> <<w, count[w] + 1>>] \in Handler
<1>1. \A k \in ReadKinds \cup {"write"}, x \in {"ok", "eof", "err"} : H(k, x) \in Handler /\ H(k, x).k = k
  BY HandlerTypes DEF ReadKinds, Results, H
<1>2. \A w \in Writers : count[w] < MaxPackets => <<w, count[w] + 1>> \in Packets
  BY TcpAssumption DEF Packets, Calls
<1> QED
  BY <1>1, <1>2, HandlerTypes

LEMMA DataStep ==
    ASSUME Data, Calls, [Next]_vars
    PROVE  Data'
<1> USE DEF Data
<1>1. Rest \in Seq(Handler) \/ ready = <<>>
  BY DEF Rest
<1>2. \A r, a : Closed(r, a) => /\ reads' \in [header : Nat, payload : Nat] /\ writing' \in Seq(Packets)
                          /\ ready' \in Seq(Handler)
  BY DEF Closed, Grows, NoReads
<1>3. ASSUME NEW q \in Seq(Packets), NEW r \in Seq(Handler), Written(r, q), Len(q) <= QueueMax + 1
      PROVE  /\ ready' \in Seq(Handler) /\ writing' \in Seq(Packets) /\ queue' \in Seq(Packets)
             /\ Len(queue') <= QueueMax
  <2>1. H("write", "err") \in Handler
    BY HandlerTypes DEF Results
  <2>2. QueueMax \in Nat /\ Len(q) \in Nat
    BY TcpAssumption
  <2>3. CASE q = <<>>
    BY <1>3, <2>2, <2>3 DEF Written
  <2>4. CASE q # <<>>
    <3>1. Head(q) \in Packets /\ Tail(q) \in Seq(Packets) /\ Len(Tail(q)) = Len(q) - 1
      BY <2>4
    <3>2. queue' = Tail(q) /\ Len(queue') <= QueueMax
      BY <1>3, <2>2, <2>4, <3>1 DEF Written
    <3>3. writing' \in {writing, Append(writing, Head(q))} /\ ready' \in {r, Append(r, H("write", "err"))}
      BY <1>3, <2>4 DEF Written
    <3>4. writing' \in Seq(Packets)
      <4>1. writing \in Seq(Packets)
        OBVIOUS
      <4> HIDE DEF Data
      <4> QED
        BY <3>1, <3>3, <4>1
    <3>5. ready' \in Seq(Handler)
      <4> HIDE DEF Data
      <4> QED
        BY <2>1, <3>3
    <3> QED
      BY <3>1, <3>2, <3>4, <3>5
  <2> QED
    BY <2>3, <2>4
<1>4. CASE OnHeader \/ OnPayload
  <2>1. ready' \in Seq(Handler) /\ reads' \in [header : Nat, payload : Nat] /\ writing' \in Seq(Packets)
    BY <1>1, <1>2, <1>4, ReadStep DEF Threw, AtEof, Reopened, ReadRearms, Grows
  <2> QED
    BY <1>4, <2>1, ReadStep DEF wq
<1>5. CASE OnPost
  <2>1. CASE ready' = Rest /\ UNCHANGED <<writing, wq>>
    BY <1>1, <1>5, <2>1, PostStep DEF wq
  <2>2. CASE /\ Len(queue) < QueueMax /\ queue' = Append(queue, Packet) /\ ready' = Rest
             /\ UNCHANGED writing
    BY <1>1, <1>5, <2>2, PostStep, TcpAssumption
  <2>3. CASE /\ Len(queue) < QueueMax /\ Written(Rest, Append(queue, Packet))
    <3>1. /\ Append(queue, Packet) \in Seq(Packets) /\ Len(Append(queue, Packet)) = Len(queue) + 1
      BY <1>5, PostStep
    <3>2. QueueMax \in Nat /\ Len(queue) \in Nat
      BY TcpAssumption
    <3>3. Rest \in Seq(Handler) /\ Len(Append(queue, Packet)) <= QueueMax + 1
      BY <1>1, <1>5, <2>3, <3>1, <3>2, PostStep
    <3>4. /\ ready' \in Seq(Handler) /\ writing' \in Seq(Packets) /\ queue' \in Seq(Packets)
          /\ Len(queue') <= QueueMax
      BY <1>3, <2>3, <3>1, <3>3
    <3> QED
      BY <1>5, <3>4, PostStep
  <2> QED
    BY <1>5, <2>1, <2>2, <2>3, PostStep
<1>6. CASE OnWritten
  BY <1>1, <1>2, <1>6, WrittenStep DEF Threw
<1>7. CASE WriteNext
  <2>1. QueueMax \in Nat /\ Len(queue) \in Nat
    BY TcpAssumption
  <2> QED
    BY <1>3, <1>7, <2>1, NextStep
<1>8. CASE StopLooks \/ StopCloses
  BY <1>2, <1>8, StopStep DEF sock, ops, wq
<1>16. CASE CloseAtEof
  BY <1>2, <1>16, EofStep DEF Threw, Reopened, wq
<1>9. CASE ReadCompletes \/ WriteCompletes \/ \E w \in Writers : WritePosts(w)
  <2>5. \E h \in Handler : ready' = Append(ready, h)
    BY <1>9, NetworkStep, NetworkHandlers DEF ReadDone, WriteDone, Posted
  <2>6. reads' \in [header : Nat, payload : Nat] /\ UNCHANGED queue
    BY <1>9, NetworkStep DEF wq, ReadDone, WriteDone, Posted
  <2>7. writing' = writing \/ (writing # <<>> /\ writing' = Tail(writing))
    BY <1>9, NetworkStep DEF ReadDone, WriteDone, Posted
  <2>8. writing' \in Seq(Packets)
    <3>1. writing \in Seq(Packets)
      OBVIOUS
    <3> HIDE DEF Data
    <3> QED
      BY <2>7, <3>1
  <2> QED
    BY <2>5, <2>6, <2>8
<1>10. CASE OnAccept
  BY <1>1, <1>10, AcceptStep DEF wq
<1>11. CASE ClearOne
  <2>1. queue' \in Seq(Packets) /\ Len(queue') <= Len(queue) /\ Len(queue') \in Nat /\ Len(queue) \in Nat
    BY <1>11 DEF ClearOne
  <2>2. Len(queue') <= QueueMax
    BY <2>1, TcpAssumption
  <2> QED
    BY <1>11, <2>1, <2>2 DEF ClearOne, sock, ops
<1>12. CASE AcceptCompletes
  <2>1. H("accept", "ok") \in Handler
    BY HandlerTypes DEF Results
  <2>2. ready' \in Seq(Handler)
    BY <1>12, <2>1 DEF AcceptCompletes
  <2> QED
    BY <1>12, <2>2 DEF AcceptCompletes, wq
<1>13. CASE Start \/ RunReturns \/ StopFlag \/ Join
  BY <1>13 DEF Start, RunReturns, StopFlag, Join, sock, ops, wq
<1>14. CASE ConnectionBreaks \/ \E w \in Writers : WriteCalled(w)
  BY <1>14 DEF ConnectionBreaks, WriteCalled, sock, ops, wq
<1>15. CASE UNCHANGED vars
  BY <1>15 DEF vars, tcpVars, sock, ops, wq
<1> QED
  BY <1>4, <1>5, <1>6, <1>7, <1>8, <1>9, <1>10, <1>11, <1>12, <1>13, <1>14, <1>15, <1>16
     DEF Next, IoThread, Network, Users

LEMMA CallsStep ==
    ASSUME Data, Calls, [Next]_vars
    PROVE  Calls'
<1>1. CASE WriteCompletes
  <2>1. Head(writing) \in Writers \X (1 .. MaxPackets)
    BY <1>1 DEF WriteCompletes, Data, Packets
  <2>2. out' \in [Writers -> 0 .. MaxPackets]
    BY <1>1, <2>1, TcpAssumption DEF WriteCompletes, Calls
  <2> QED
    BY <1>1, <2>2 DEF WriteCompletes, Calls, users
<1>2. CASE \E w \in Writers : WritePosts(w)
  BY <1>2, TcpAssumption DEF WritePosts, Calls
<1>3. CASE \E w \in Writers : WriteCalled(w)
  BY <1>3 DEF WriteCalled, Calls
<1>4. CASE UNCHANGED <<users, out>>
  BY <1>4 DEF users, Calls
<1>5. IoThread => UNCHANGED <<users, out>>
  BY DEF IoThread, RunReturns, OnPost, OnWritten, WriteNext, OnAccept, OnHeader, OnPayload, CloseAtEof
<1>6. Start \/ StopLooks \/ StopCloses \/ StopFlag \/ Join => UNCHANGED <<users, out>>
  BY DEF Start, StopFlag, StopLooks, StopCloses, Join
<1>7. ClearOne \/ ReadCompletes \/ ConnectionBreaks \/ AcceptCompletes => UNCHANGED <<users, out>>
  BY DEF ClearOne, ReadCompletes, ConnectionBreaks, AcceptCompletes
<1>8. UNCHANGED vars => UNCHANGED <<users, out>>
  BY DEF vars, tcpVars
<1> QED
  BY <1>1, <1>2, <1>3, <1>4, <1>5, <1>6, <1>7, <1>8 DEF Next, Network, Users

-----------------------------------------------------------------------------
(* The invariant is kept, part by part.                                    *)

LEMMA PositionsStep ==
    ASSUME Bools, Data, Calls, Positions, [Next]_vars
    PROVE  Positions'
<1> USE DEF Positions
<1>1. CASE OnHeader \/ OnPayload
  <2>1. /\ io = "run" /\ owner' = owner
        /\ \/ open' = FALSE /\ writing' = <<>>
           \/ UNCHANGED <<open, writing, revived>>
    BY <1>1, ReadStep DEF Closed, Threw, AtEof, Reopened, ReadRearms, thread
  <2> QED
    BY <2>1
<1>12. CASE CloseAtEof
  <2>1. /\ io = "closing" /\ owner' = owner
        /\ \/ open' = FALSE /\ writing' = <<>>
           \/ UNCHANGED <<open, writing, revived>>
    BY <1>12, EofStep DEF Closed, Threw, Reopened, thread
  <2> QED
    BY <2>1
<1>2. CASE OnPost
  <2>1. /\ io = "run" /\ UNCHANGED <<owner, open, revived>>
        /\ open = TRUE \/ UNCHANGED writing
    BY <1>2, PostStep DEF Written, wq, thread, Bools, Flags
  <2> QED
    BY <2>1
<1>3. CASE OnWritten
  <2>1. /\ io = "run" /\ UNCHANGED <<owner, revived>>
        /\ \/ open' = FALSE /\ writing' = <<>>
           \/ UNCHANGED <<open, writing>>
    BY <1>3, WrittenStep DEF Closed, Threw, thread
  <2> QED
    BY <2>1
<1>4. CASE WriteNext
  <2>1. /\ io = "dequeue" /\ UNCHANGED <<owner, open, revived>>
        /\ open = TRUE \/ UNCHANGED writing
    BY <1>4, NextStep DEF Written, thread, Bools, Flags
  <2> QED
    BY <2>1
<1>5. CASE StopLooks \/ StopCloses
  <2>1. \/ open' = FALSE /\ writing' = <<>> /\ owner' = "flag"
        \/ UNCHANGED <<open, writing>> /\ owner' \in {"shut", "threw"}
    BY <1>5, StopStep DEF Closed, sock, ops
  <2> QED
    BY <2>1
<1>6. CASE OnAccept
  <2>1. /\ io = "run" /\ UNCHANGED <<owner, writing>>
        /\ \/ open' = TRUE /\ (owner \in {"flag", "join"} => revived')
           \/ UNCHANGED <<open, revived>>
    BY <1>6, AcceptStep DEF Bools
  <2> QED
    BY <2>1
<1>7. CASE (ReadCompletes \/ WriteCompletes \/ \E w \in Writers : WritePosts(w)) /\ UNCHANGED revived
  <2>1. /\ UNCHANGED <<owner, io, open, revived>>
        /\ writing' = writing \/ (writing # <<>> /\ writing' = Tail(writing))
    BY <1>7, NetworkStep DEF thread, ReadDone, WriteDone, Posted
  <2> QED
    BY <2>1
<1>8. CASE Start
  BY <1>8 DEF Start
<1>9. CASE RunReturns \/ StopFlag \/ Join
  BY <1>9 DEF RunReturns, StopFlag, Join, thread, sock, ops, marks
<1>10. CASE /\ ConnectionBreaks \/ ClearOne \/ AcceptCompletes \/ \E w \in Writers : WriteCalled(w)
            /\ UNCHANGED revived
  BY <1>10 DEF ConnectionBreaks, ClearOne, AcceptCompletes, WriteCalled, thread, sock, ops
<1>11. CASE UNCHANGED vars
  BY <1>11 DEF vars, tcpVars, thread, sock, ops, marks
<1>13. Network => UNCHANGED revived
  BY DEF Network, AcceptCompletes, marks
<1> QED
  BY <1>1, <1>2, <1>3, <1>4, <1>5, <1>6, <1>7, <1>8, <1>9, <1>10, <1>11, <1>12, <1>13
     DEF Next, IoThread, Network, Users

\* The handlers of these kinds that are waiting are as many as before.
Same(kinds) == /\ NoneOf(ready', kinds) <=> NoneOf(ready, kinds)
               /\ OneOf(ready, kinds) => OneOf(ready', kinds)

LEMMA SameKinds ==
    ASSUME ready \in Seq(Handler), NEW kinds,
           \/ ready' = ready
           \/ ready # <<>> /\ Head(ready).k \notin kinds /\ ready' = Tail(ready)
           \/ \E h \in Handler : h.k \notin kinds /\ ready' = Append(ready, h)
    PROVE  Same(kinds)
<1>1. CASE ready' = ready
  BY <1>1 DEF Same
<1>2. CASE ready # <<>> /\ Head(ready).k \notin kinds /\ ready' = Tail(ready)
  <2>1. ASSUME NoneOf(Tail(ready), kinds) PROVE NoneOf(ready, kinds)
    <3>1. \A i \in DOMAIN ready : i = 1 \/ (i - 1 \in DOMAIN Tail(ready) /\ Tail(ready)[i - 1] = ready[i])
      BY <1>2
    <3>2. Head(ready) = ready[1]
      BY <1>2
    <3> QED
      BY <1>2, <2>1, <3>1, <3>2 DEF NoneOf
  <2> QED
    BY <1>2, <2>1, TailOf DEF Same
<1>3. CASE \E h \in Handler : h.k \notin kinds /\ ready' = Append(ready, h)
  <2>1. PICK h \in Handler : h.k \notin kinds /\ ready' = Append(ready, h)
    BY <1>3
  <2>2. Grows(ready, ready', {h})
    BY <2>1, GrowsByOne
  <2>3. NoneOf(ready', kinds) => NoneOf(ready, kinds)
    BY <2>2 DEF Grows, NoneOf
  <2> QED
    BY <2>1, <2>2, <2>3, GrowsOthers DEF Same
<1> QED
  BY <1>1, <1>2, <1>3

\* The completions put one handler behind the others, of a kind that can be told.
LEMMA Completions ==
    ASSUME Data, Calls, NEW kinds
    PROVE  /\ ("header" \notin kinds /\ "payload" \notin kinds) =>
                 (ReadDone => \E h \in Handler : h.k \notin kinds /\ ready' = Append(ready, h))
           /\ "write" \notin kinds =>
                 (WriteDone => \E h \in Handler : h.k \notin kinds /\ ready' = Append(ready, h))
           /\ "post" \notin kinds =>
                 ((\E w \in Writers : Posted(w)) =>
                     \E h \in Handler : h.k \notin kinds /\ ready' = Append(ready, h))
           /\ "accept" \notin kinds =>
                 (AcceptCompletes =>
                     \/ ready' = ready
                     \/ \E h \in Handler : h.k \notin kinds /\ ready' = Append(ready, h))
<1>1. ASSUME "header" \notin kinds, "payload" \notin kinds, ReadDone
      PROVE  \E h \in Handler : h.k \notin kinds /\ ready' = Append(ready, h)
  BY <1>1, NetworkHandlers DEF ReadDone, ReadKinds
<1>2. ASSUME "write" \notin kinds, WriteDone
      PROVE  \E h \in Handler : h.k \notin kinds /\ ready' = Append(ready, h)
  BY <1>2, NetworkHandlers DEF WriteDone
<1>3. ASSUME "post" \notin kinds, NEW w \in Writers, Posted(w)
      PROVE  \E h \in Handler : h.k \notin kinds /\ ready' = Append(ready, h)
  <2>1. [k |-> "post", p |-> <<w, count[w] + 1>>].k \notin kinds
    BY <1>3
  <2> QED
    BY <1>3, <2>1, NetworkHandlers DEF Posted
<1>4. ASSUME "accept" \notin kinds, AcceptCompletes
      PROVE  ready' = ready \/ \E h \in Handler : h.k \notin kinds /\ ready' = Append(ready, h)
  <2>1. H("accept", "ok") \in Handler /\ H("accept", "ok").k \notin kinds
    BY <1>4, HandlerTypes DEF Results, H
  <2> QED
    BY <1>4, <2>1 DEF AcceptCompletes
<1> QED
  BY <1>1, <1>2, <1>3, <1>4

LEMMA ReadInvStep ==
    ASSUME Bools, Data, Calls, Positions, ReadInv, [Next]_vars
    PROVE  ReadInv'
<1> SUFFICES ASSUME open' = TRUE, io' \in {"run", "dequeue"}, revived' = FALSE
             PROVE  SomeRead'
  <2>1. open' \in BOOLEAN /\ revived' \in BOOLEAN
    BY FlagsStep DEF Bools, Flags
  <2> QED
    BY <2>1 DEF ReadInv
<1>0. ready \in Seq(Handler)
  BY DEF Data
<1>1. ASSUME UNCHANGED <<reads, open, revived>>, io \in {"run", "dequeue"}, Same(ReadKinds)
      PROVE  SomeRead'
  <2>1. SomeRead
    BY <1>1 DEF ReadInv
  <2> QED
    BY <1>1, <2>1 DEF SomeRead, Same
<1>2. CASE OnHeader \/ OnPayload
  <2>1. reads'.header + reads'.payload > 0
    BY <1>2, ReadStep DEF Closed, Threw, AtEof, Reopened, ReadRearms
  <2> QED
    BY <2>1 DEF SomeRead
<1>3. CASE OnPost
  <2>1. /\ io = "run" /\ ready # <<>> /\ Head(ready).k = "post"
        /\ ready' = Tail(ready) \/ open' = FALSE
        /\ UNCHANGED <<reads, open, revived>>
    BY <1>3, PostStep DEF Written, Rest, Bools, Flags
  <2>2. Same(ReadKinds)
    BY <1>0, <2>1, SameKinds DEF ReadKinds
  <2> QED
    BY <1>1, <2>1, <2>2
<1>4. CASE OnWritten
  <2>1. /\ io = "run" /\ ready # <<>> /\ Head(ready).k = "write" /\ ready' = Tail(ready)
        /\ UNCHANGED <<reads, open, revived>>
    BY <1>4, WrittenStep DEF Closed, Threw, Rest
  <2>2. Same(ReadKinds)
    BY <1>0, <2>1, SameKinds DEF ReadKinds
  <2> QED
    BY <1>1, <2>1, <2>2
<1>5. CASE WriteNext
  <2>1. io = "dequeue" /\ ready' = ready /\ UNCHANGED <<reads, open, revived>>
    BY <1>5, NextStep DEF Written
  <2> QED
    BY <1>0, <1>1, <2>1, SameKinds
<1>6. CASE StopLooks \/ StopCloses
  <2>1. io' = io /\ ready' = ready /\ UNCHANGED <<reads, open, revived>>
    BY <1>6, StopStep DEF Closed, sock, ops
  <2> QED
    BY <1>0, <1>1, <2>1, SameKinds
<1>7. CASE (ReadCompletes \/ WriteCompletes \/ \E w \in Writers : WritePosts(w)) /\ UNCHANGED revived
  <2>1. UNCHANGED <<io, open, revived>>
    BY <1>7, NetworkStep
  <2>2. CASE ReadDone
    <3>1. PICK k \in ReadKinds, x \in {"ok", "eof", "err"} : ready' = Append(ready, H(k, x))
      BY <2>2 DEF ReadDone
    <3>2. H(k, x) \in Handler /\ H(k, x).k \in ReadKinds
      BY NetworkHandlers
    <3>3. Len(ready) + 1 \in DOMAIN ready' /\ ready'[Len(ready) + 1] = H(k, x)
      BY <1>0, <3>1, <3>2
    <3> QED
      BY <3>2, <3>3 DEF SomeRead, NoneOf
  <2>3. CASE WriteDone \/ \E w \in Writers : Posted(w)
    <3>1. Same(ReadKinds)
      BY <1>0, <2>3, Completions, SameKinds DEF ReadKinds
    <3>2. UNCHANGED reads
      BY <2>3 DEF WriteDone, Posted
    <3> QED
      BY <1>1, <2>1, <3>1, <3>2
  <2> QED
    BY <1>7, <2>2, <2>3, NetworkStep
<1>8. CASE OnAccept
  <2>1. CASE reads'.header + reads'.payload > 0
    BY <2>1 DEF SomeRead
  <2>2. CASE UNCHANGED <<open, reads, revived>>
    <3>1. io = "run" /\ ready # <<>> /\ Head(ready).k = "accept" /\ ready' = Tail(ready)
      BY <1>8, AcceptStep DEF Rest
    <3>2. Same(ReadKinds)
      BY <1>0, <3>1, SameKinds DEF ReadKinds
    <3> QED
      BY <1>1, <2>2, <3>1, <3>2
  <2> QED
    BY <1>8, <2>1, <2>2, AcceptStep
<1>9. CASE Start
  <2>1. owner = "idle" /\ UNCHANGED <<open, revived>>
    BY <1>9 DEF Start
  <2> QED
    BY <2>1 DEF Positions
<1>10. CASE AcceptCompletes
  <2>1. io' = io /\ UNCHANGED <<reads, open, revived>>
    BY <1>10 DEF AcceptCompletes
  <2>2. Same(ReadKinds)
    BY <1>0, <1>10, Completions, SameKinds DEF ReadKinds
  <2> QED
    BY <1>1, <2>1, <2>2
<1>11. CASE StopFlag \/ ((ConnectionBreaks \/ ClearOne \/ \E w \in Writers : WriteCalled(w)) /\ UNCHANGED revived)
  <2>1. io' = io /\ ready' = ready /\ UNCHANGED <<reads, open, revived>>
    BY <1>11 DEF StopFlag, ConnectionBreaks, ClearOne, WriteCalled, thread, sock, ops, marks
  <2> QED
    BY <1>0, <1>1, <2>1, SameKinds
<1>12. ~RunReturns /\ ~Join
  BY DEF RunReturns, Join
<1>14. ~CloseAtEof
  BY EofStep DEF Closed, Threw, Reopened
<1>15. Network => UNCHANGED revived
  BY DEF Network, AcceptCompletes, marks
<1>13. CASE UNCHANGED vars
  <2>1. io' = io /\ ready' = ready /\ UNCHANGED <<reads, open, revived>>
    BY <1>13 DEF vars, tcpVars, thread, sock, ops, marks
  <2> QED
    BY <1>0, <1>1, <2>1, SameKinds
<1> QED
  BY <1>2, <1>3, <1>4, <1>5, <1>6, <1>7, <1>8, <1>9, <1>10, <1>11, <1>12, <1>13, <1>14, <1>15
     DEF Next, IoThread, Network, Users

\* What ends with no such handler began with none.
LEMMA GrowsFrom ==
    ASSUME NEW r \in Seq(Handler), NEW r2, NEW S, NEW kinds, Grows(r, r2, S), NoneOf(r2, kinds)
    PROVE  NoneOf(r, kinds)
BY DEF Grows, NoneOf

Serving   == io \in {"run", "dequeue", "closing"} /\ owner \in {"up", "shut"}
Listening == open \/ accepting \/ ~NoneOf(ready, {"accept"})

\* The property speaks of the set of waiting handlers.
LEMMA ListensIs ==
    /\ Listens <=> ((Serving /\ ~refused) => Listening)
    /\ Listens' <=> ((Serving' /\ ~refused') => Listening')
<1>1. Waiting({"accept"}) # {} <=> ~NoneOf(ready, {"accept"})
  BY DEF Waiting, NoneOf
<1>2. Waiting({"accept"})' # {} <=> ~NoneOf(ready', {"accept"})
  BY DEF Waiting, NoneOf
<1> QED
  BY <1>1, <1>2 DEF Listens, Serving, Listening

LEMMA ListensStep ==
    ASSUME Bools, Data, Calls, Listens, [Next]_vars
    PROVE  Listens'
<1> DEFINE kinds == {"accept"}
<1> SUFFICES ASSUME Serving', refused' = FALSE
             PROVE  Listening'
  <2>1. refused' \in BOOLEAN
    BY FlagsStep DEF Bools
  <2> QED
    BY <2>1, ListensIs
<1> USE DEF Serving
<1>0. ready \in Seq(Handler)
  BY DEF Data
<1>1. ASSUME UNCHANGED <<open, accepting, refused>>, io \in {"run", "dequeue", "closing"},
             owner \in {"up", "shut"}, NoneOf(ready', kinds) => NoneOf(ready, kinds)
      PROVE  Listening'
  <2>1. Listening
    BY <1>1, ListensIs
  <2> QED
    BY <1>1, <2>1 DEF Listening
<1>2. ASSUME ready # <<>>, Head(ready).k # "accept", NoneOf(Tail(ready), kinds)
      PROVE  NoneOf(ready, kinds)
  <2>1. \A i \in DOMAIN ready : i = 1 \/ (i - 1 \in DOMAIN Tail(ready) /\ Tail(ready)[i - 1] = ready[i])
    BY <1>0, <1>2
  <2>2. Head(ready) = ready[1]
    BY <1>0, <1>2
  <2> QED
    BY <1>2, <2>1, <2>2 DEF NoneOf
<1>3. ASSUME ready # <<>>, Head(ready).k # "accept", NoneOf(ready', kinds),
             NEW S, ready' = Rest \/ Grows(Rest, ready', S)
      PROVE  NoneOf(ready, kinds)
  <2>1. Rest \in Seq(Handler)
    BY <1>0, <1>3 DEF Rest
  <2>2. NoneOf(Rest, kinds)
    BY <1>3, <2>1, GrowsFrom
  <2> QED
    BY <1>2, <1>3, <2>2 DEF Rest
<1>4. ASSUME ready' = ready \/ \E h \in Handler : ready' = Append(ready, h), NoneOf(ready', kinds)
      PROVE  NoneOf(ready, kinds)
  <2>1. CASE ready' = ready
    BY <1>4, <2>1
  <2>2. CASE \E h \in Handler : ready' = Append(ready, h)
    <3>1. PICK h \in Handler : ready' = Append(ready, h)
      BY <2>2
    <3> QED
      BY <1>0, <1>4, <3>1, GrowsByOne, GrowsFrom
  <2> QED
    BY <1>4, <2>1, <2>2
<1>5. CASE OnHeader \/ OnPayload
  <2>1. /\ io = "run" /\ ready # <<>> /\ Head(ready).k # "accept" /\ owner' = owner
        /\ \/ accepting' = TRUE
           \/ /\ UNCHANGED <<open, accepting, refused>>
              /\ ready' = Rest \/ Grows(Rest, ready', {H("header", "err"), H("payload", "err")})
    BY <1>5, ReadStep DEF Closed, Threw, AtEof, Reopened, ReadRearms, ReadKinds, thread
  <2>2. CASE accepting' = TRUE
    BY <2>2 DEF Listening
  <2> QED
    BY <1>1, <1>3, <2>1, <2>2
<1>6. CASE OnPost
  <2>1. /\ io = "run" /\ ready # <<>> /\ Head(ready).k # "accept"
        /\ UNCHANGED <<owner, open, accepting, refused>>
        /\ ready' = Rest \/ ready' = Append(Rest, H("write", "err"))
    BY <1>6, PostStep DEF Written, thread
  <2>2. Rest \in Seq(Handler)
    BY <1>0, <2>1 DEF Rest
  <2>3. PICK h \in Handler : h = H("write", "err")
    BY HandlerTypes DEF Results
  <2>4. ready' = Rest \/ Grows(Rest, ready', {h})
    BY <2>1, <2>2, <2>3, GrowsByOne
  <2> QED
    BY <1>1, <1>3, <2>1, <2>4
<1>7. CASE OnWritten
  <2>1. /\ io = "run" /\ ready # <<>> /\ Head(ready).k # "accept"
        /\ UNCHANGED <<owner, open, accepting, refused>> /\ ready' = Rest
    BY <1>7, WrittenStep DEF Closed, Threw, thread
  <2> QED
    BY <1>1, <1>3, <2>1
<1>8. CASE WriteNext
  <2>1. /\ io = "dequeue" /\ UNCHANGED <<owner, open, accepting, refused>>
        /\ ready' = ready \/ ready' = Append(ready, H("write", "err"))
    BY <1>8, NextStep DEF Written, thread
  <2>2. H("write", "err") \in Handler
    BY HandlerTypes DEF Results
  <2> QED
    BY <1>1, <1>4, <2>1, <2>2
<1>9. CASE OnAccept
  <2>1. open' = TRUE
    BY <1>9, AcceptStep DEF Bools, Flags
  <2> QED
    BY <2>1 DEF Listening
<1>10. CASE Start
  <2>1. accepting' = ~open /\ open' = open
    BY <1>10 DEF Start
  <2> QED
    BY <2>1 DEF Listening, Bools, Flags
<1>11. CASE (ReadCompletes \/ WriteCompletes \/ \E w \in Writers : WritePosts(w)) /\ UNCHANGED marks
  <2>1. UNCHANGED <<io, owner, open, accepting, refused>>
    BY <1>11, NetworkStep DEF thread, marks
  <2>2. \E h \in Handler : ready' = Append(ready, h)
    BY <1>11, NetworkStep, NetworkHandlers DEF ReadDone, WriteDone, Posted
  <2> QED
    BY <1>1, <1>4, <2>1, <2>2
<1>12. CASE AcceptCompletes
  <2>1. PICK h \in Handler : h = H("accept", "ok")
    BY HandlerTypes DEF Results
  <2>2. ready' = Append(ready, h) /\ h.k = "accept"
    BY <1>12, <2>1 DEF AcceptCompletes, H
  <2>3. Len(ready) + 1 \in DOMAIN ready' /\ ready'[Len(ready) + 1] = h
    BY <1>0, <2>1, <2>2
  <2> QED
    BY <2>2, <2>3 DEF Listening, NoneOf
<1>13. CASE (ConnectionBreaks \/ ClearOne \/ \E w \in Writers : WriteCalled(w)) /\ UNCHANGED marks
  <2>1. UNCHANGED <<io, owner, open, accepting, ready, refused>>
    BY <1>13 DEF ConnectionBreaks, ClearOne, WriteCalled, thread, sock, ops, marks
  <2> QED
    BY <1>1, <2>1
<1>14. CASE StopLooks \/ StopCloses
  <2>1. /\ owner \in {"up", "shut"} /\ UNCHANGED <<io, refused>>
        /\ owner' \in {"flag", "threw"} \/ UNCHANGED <<open, accepting, ready>>
    BY <1>14, StopStep DEF sock, ops
  <2> QED
    BY <1>1, <2>1
<1>16. CASE CloseAtEof
  <2>1. io' = "ended" \/ accepting' = TRUE
    BY <1>16, EofStep DEF Reopened, Closed
  <2> QED
    BY <2>1 DEF Listening
<1>17. ~RunReturns /\ ~StopFlag /\ ~Join
  BY DEF RunReturns, StopFlag, Join
<1>15. CASE UNCHANGED vars
  <2>1. UNCHANGED <<io, owner, open, accepting, ready, refused>>
    BY <1>15 DEF vars, tcpVars, thread, sock, ops, marks
  <2> QED
    BY <1>1, <2>1
<1> QED
  BY <1>5, <1>6, <1>7, <1>8, <1>9, <1>10, <1>11, <1>12, <1>13, <1>14, <1>15, <1>16, <1>17
     DEF Next, IoThread, Network, Users

-----------------------------------------------------------------------------
(* The write that is in progress.                                          *)

\* The socket is closed: the write is there still, as the handler that says that it was aborted.
LEMMA ClosedWrites ==
    ASSUME Data, NEW r \in Seq(Handler), NEW again, Closed(r, again)
    PROVE  /\ NoWriteIn(writing, r) => NoWrite'
           /\ OneWriteIn(writing, r) => OneWriteNow'
<1>1. writing' = <<>> /\ Len(writing') = 0
  BY DEF Closed
<1>2. Len(writing) = 0 => ready' = r
  BY DEF Closed
<1>3. ASSUME Len(writing) = 1, NoneOf(r, WriteKinds) PROVE OneOf(ready', WriteKinds)
  <2>1. PICK h \in Handler : h = H("write", "aborted")
    BY HandlerTypes DEF Results
  <2>2. ready' = Append(r, h) /\ h.k \in WriteKinds
    BY <1>3, <2>1 DEF Closed, WriteKinds, H
  <2> QED
    BY <1>3, <2>2, GrowsFirst
<1> QED
  BY <1>1, <1>2, <1>3 DEF NoWrite, OneWriteNow, NoWriteIn, OneWriteIn

\* do_write starts the one write.
LEMMA WrittenWrites ==
    ASSUME Data, NEW r \in Seq(Handler), NEW q \in Seq(Packets), q # <<>>,
           Written(r, q), NoWriteIn(writing, r)
    PROVE  wip' = TRUE /\ OneWriteNow'
<1>1. wip' = TRUE
  BY DEF Written
<1>2. Len(writing) = 0 /\ NoneOf(r, WriteKinds) /\ writing \in Seq(Packets) /\ Head(q) \in Packets
  BY DEF NoWriteIn, Data
<1>3. CASE ready' = r /\ writing' = Append(writing, Head(q))
  <2>1. Len(writing') = 1
    BY <1>2, <1>3
  <2> QED
    BY <1>1, <1>2, <1>3, <2>1 DEF OneWriteNow, OneWriteIn
<1>4. CASE ready' = Append(r, H("write", "err")) /\ UNCHANGED writing
  <2>1. PICK h \in Handler : h = H("write", "err")
    BY HandlerTypes DEF Results
  <2>2. ready' = Append(r, h) /\ h.k \in WriteKinds
    BY <1>4, <2>1 DEF WriteKinds, H
  <2>3. OneOf(ready', WriteKinds)
    BY <1>2, <2>2, GrowsFirst
  <2> QED
    BY <1>1, <1>2, <1>4, <2>3 DEF OneWriteNow, OneWriteIn
<1> QED
  BY <1>3, <1>4 DEF Written

\* A handler of another kind is taken.
LEMMA TailWrites ==
    ASSUME Data, ready # <<>>, Head(ready).k \notin WriteKinds
    PROVE  /\ Rest \in Seq(Handler)
           /\ NoWrite => NoWriteIn(writing, Rest)
           /\ OneWriteNow => OneWriteIn(writing, Rest)
<1>1. ready \in Seq(Handler)
  BY DEF Data
<1> QED
  BY <1>1, TailOf DEF Rest, NoWrite, OneWriteNow, NoWriteIn, OneWriteIn

LEMMA WriteInvStep ==
    ASSUME Bools, Data, Calls, Positions, WriteInv, [Next]_vars
    PROVE  WriteInv'
<1> DEFINE Chain == /\ io \in {"run", "closing"} => (wip => OneWriteNow) /\ (~wip => NoWrite)
                    /\ io = "dequeue" => wip /\ NoWrite
<1> SUFFICES ASSUME stalled' = FALSE, revived' = FALSE, leftover' # "handlers"
             PROVE  Chain'
  <2>1. revived' \in BOOLEAN /\ stalled' \in BOOLEAN
    BY FlagsStep DEF Bools, Flags
  <2> QED
    BY <2>1 DEF WriteInv
<1>0. ready \in Seq(Handler) /\ writing \in Seq(Packets) /\ queue \in Seq(Packets)
  BY DEF Data
<1>a. ASSUME UNCHANGED <<stalled, leftover>>, revived' = revived \/ ~revived PROVE Chain
  BY <1>a DEF WriteInv
<1>b. ASSUME UNCHANGED writing, Same(WriteKinds)
      PROVE  (NoWrite => NoWrite') /\ (OneWriteNow => OneWriteNow')
  BY <1>b DEF NoWrite, OneWriteNow, NoWriteIn, OneWriteIn, Same
<1>1. ASSUME UNCHANGED <<stalled, revived, leftover, writing, wip>>, Same(WriteKinds),
             io' = io \/ io' \in {"off", "ended"}
      PROVE  Chain'
  <2>1. Chain
    BY <1>1, <1>a
  <2> QED
    BY <1>1, <1>b, <2>1
<1>2. CASE OnHeader \/ OnPayload
  <2>1. /\ io = "run" /\ ready # <<>> /\ Head(ready).k \notin WriteKinds
        /\ UNCHANGED <<stalled, leftover, wip>>
        /\ io' = io \/ io' \in {"closing", "ended"}
        /\ revived' = revived \/ ~revived
    BY <1>2, ReadStep DEF AtEof, Reopened, ReadRearms, ReadKinds, WriteKinds, thread, wq, Bools
  <2>2. Chain
    BY <2>1, <1>a
  <2>3. ASSUME OneWriteIn(writing, Rest) => OneWriteNow', NoWriteIn(writing, Rest) => NoWrite' PROVE Chain'
    BY <2>1, <2>2, <2>3, TailWrites
  <2>4. ASSUME NEW again, Closed(Rest, again) PROVE Chain'
    BY <2>1, <2>3, <2>4, TailWrites, ClosedWrites
  <2>5. ASSUME ReadRearms PROVE Chain'
    <3> DEFINE S == {H("header", "err"), H("payload", "err")}
    <3>1. \A h \in S : h.k \notin WriteKinds
      BY DEF H, WriteKinds
    <3>2. UNCHANGED writing /\ (ready' = Rest \/ Grows(Rest, ready', S))
      BY <2>5 DEF ReadRearms
    <3> HIDE DEF S
    <3>3. /\ NoneOf(Rest, WriteKinds) => NoneOf(ready', WriteKinds)
          /\ OneOf(Rest, WriteKinds) => OneOf(ready', WriteKinds)
      BY <2>1, <3>1, <3>2, TailWrites, GrowsOthers
    <3> QED
      BY <2>3, <3>2, <3>3 DEF NoWrite, OneWriteNow, NoWriteIn, OneWriteIn
  <2>6. CASE io' = "ended"
    BY <2>6
  <2>7. ASSUME AtEof PROVE Chain'
    BY <2>1, <2>3, <2>7, TailWrites DEF AtEof, NoWrite, OneWriteNow
  <2> QED
    BY <1>2, <2>4, <2>5, <2>6, <2>7, ReadStep DEF Reopened
<1>13. CASE CloseAtEof
  <2>1. /\ io = "closing" /\ UNCHANGED <<stalled, leftover, wip>>
        /\ io' = "ended" \/ (io' = "run" /\ Closed(ready, TRUE))
        /\ revived' = revived \/ ~revived
    BY <1>13, EofStep DEF Reopened, thread, wq, Bools
  <2>2. Chain
    BY <2>1, <1>a
  <2>3. CASE io' = "run" /\ Closed(ready, TRUE)
    BY <1>0, <2>1, <2>2, <2>3, ClosedWrites DEF NoWrite, OneWriteNow
  <2> QED
    BY <2>1, <2>3
<1>3. CASE OnPost
  <2>1. /\ io = "run" /\ ready # <<>> /\ Head(ready).k = "post" /\ Head(ready).k \notin WriteKinds
        /\ UNCHANGED <<stalled, revived, leftover>> /\ Packet \in Packets
    BY <1>3, PostStep DEF thread, WriteKinds
  <2>2. CASE ready' = Rest /\ UNCHANGED <<writing, wip>> /\ io' \in {io, "ended"}
    <3>1. Same(WriteKinds)
      BY <1>0, <2>1, <2>2, SameKinds DEF Rest
    <3> QED
      BY <1>1, <2>1, <2>2, <3>1
  <2>3. CASE ~wip /\ Written(Rest, Append(queue, Packet)) /\ UNCHANGED io
    <3>1. NoWrite
      BY <1>a, <2>1, <2>3
    <3>2. Append(queue, Packet) \in Seq(Packets) /\ Append(queue, Packet) # <<>>
      BY <1>0, <2>1
    <3> QED
      BY <2>1, <2>3, <3>1, <3>2, TailWrites, WrittenWrites
  <2> QED
    BY <1>3, <2>1, <2>2, <2>3, PostStep DEF wq
<1>4. CASE OnWritten
  <2>1. /\ io = "run" /\ ready # <<>> /\ Head(ready).k = "write"
        /\ UNCHANGED <<stalled, revived, leftover>>
    BY <1>4, WrittenStep DEF thread
  <2>2. Chain
    BY <1>a, <2>1
  <2>3. ~NoneOf(ready, WriteKinds)
    BY <1>0, <2>1 DEF NoneOf, WriteKinds
  <2>4. wip /\ Len(writing) = 0 /\ OneOf(ready, WriteKinds)
    BY <2>1, <2>2, <2>3 DEF NoWrite, OneWriteNow, NoWriteIn, OneWriteIn
  <2>5. CASE io' = "ended"
    BY <2>5
  <2>6. CASE /\ ready' = Rest /\ UNCHANGED writing
             /\ \/ io' = "dequeue" /\ UNCHANGED wip
                \/ wip' = FALSE /\ UNCHANGED io
    <3>1. NoneOf(ready', WriteKinds)
      BY <1>0, <2>1, <2>4, <2>6, TailOf DEF WriteKinds, Rest
    <3>2. NoWrite'
      BY <2>4, <2>6, <3>1 DEF NoWrite, NoWriteIn
    <3> QED
      BY <2>1, <2>4, <2>6, <3>2
  <2> QED
    BY <1>4, <2>5, <2>6, WrittenStep
<1>5. CASE WriteNext
  <2>1. /\ io = "dequeue" /\ io' = "run" /\ queue # <<>> /\ Written(ready, queue)
        /\ UNCHANGED <<revived, leftover>> /\ ~stalled
    BY <1>5, NextStep DEF thread
  <2>2. NoWrite
    BY <2>1 DEF WriteInv
  <2> QED
    BY <1>0, <2>1, <2>2, WrittenWrites DEF NoWrite
<1>6. CASE StopLooks \/ StopCloses
  <2>1. UNCHANGED <<stalled, revived, leftover, io, wip>>
    BY <1>6, StopStep DEF wq
  <2>2. Chain
    BY <1>a, <2>1
  <2>3. CASE Closed(ready, FALSE)
    BY <1>0, <2>1, <2>2, <2>3, ClosedWrites DEF NoWrite, OneWriteNow
  <2>4. CASE UNCHANGED sock
    BY <1>0, <1>1, <2>1, <2>4, SameKinds DEF sock, ops
  <2> QED
    BY <1>6, <2>3, <2>4, StopStep
<1>7. CASE (ReadCompletes \/ WriteCompletes \/ \E w \in Writers : WritePosts(w)) /\ UNCHANGED revived
  <2>1. UNCHANGED <<io, stalled, revived, leftover, wip>>
    BY <1>7, NetworkStep DEF thread, wq
  <2>2. CASE WriteDone
    <3>1. PICK h \in Handler : h.k \in WriteKinds /\ ready' = Append(ready, h)
      BY <2>2, NetworkHandlers DEF WriteDone, WriteKinds
    <3>2. writing # <<>> /\ writing' = Tail(writing)
      BY <2>2 DEF WriteDone
    <3>3. Chain
      BY <1>a, <2>1
    <3>4. ASSUME OneWriteNow PROVE OneWriteNow'
      <4>1. Len(writing) = 1 /\ NoneOf(ready, WriteKinds)
        BY <1>0, <3>2, <3>4 DEF OneWriteNow, OneWriteIn
      <4>2. Len(writing') = 0
        BY <1>0, <3>2, <4>1
      <4>3. OneOf(ready', WriteKinds)
        BY <1>0, <3>1, <4>1, GrowsFirst
      <4> QED
        BY <4>2, <4>3 DEF OneWriteNow, OneWriteIn
    <3>5. ~NoWrite
      BY <1>0, <3>2 DEF NoWrite, NoWriteIn
    <3> QED
      BY <2>1, <3>3, <3>4, <3>5
  <2>3. CASE ReadDone \/ \E w \in Writers : Posted(w)
    <3>1. Same(WriteKinds)
      BY <1>0, <2>3, Completions, SameKinds DEF WriteKinds
    <3>2. UNCHANGED writing
      BY <2>3 DEF ReadDone, Posted
    <3> QED
      BY <1>1, <2>1, <3>1, <3>2
  <2> QED
    BY <1>7, <2>2, <2>3, NetworkStep
<1>8. CASE OnAccept
  <2>1. /\ io = "run" /\ ready # <<>> /\ Head(ready).k \notin WriteKinds /\ ready' = Tail(ready)
        /\ UNCHANGED <<io, stalled, leftover, writing, wip>> /\ (revived' = revived \/ ~revived)
    BY <1>8, AcceptStep DEF Rest, WriteKinds, wq, Bools
  <2>2. Same(WriteKinds)
    BY <1>0, <2>1, SameKinds
  <2>3. Chain
    BY <1>a, <2>1
  <2> QED
    BY <1>b, <2>1, <2>2, <2>3
<1>9. CASE Start
  <2>1. owner = "idle" /\ UNCHANGED <<revived, writing, ready>> /\ io' = "run" /\ wip' = FALSE
    BY <1>9 DEF Start
  <2>2. writing = <<>> /\ ready = <<>>
    BY <1>9, <2>1 DEF Positions, Start, Leftover
  <2>3. NoWrite'
    BY <2>1, <2>2 DEF NoWrite, NoWriteIn, NoneOf
  <2> QED
    BY <2>1, <2>3
<1>10. CASE AcceptCompletes
  <2>1. UNCHANGED <<io, stalled, revived, leftover, writing, wip>>
    BY <1>10 DEF AcceptCompletes, thread, wq
  <2>2. Same(WriteKinds)
    BY <1>0, <1>10, Completions, SameKinds DEF WriteKinds
  <2> QED
    BY <1>1, <2>1, <2>2
<1>11. CASE \/ RunReturns \/ StopFlag \/ Join
            \/ (ConnectionBreaks \/ ClearOne \/ \E w \in Writers : WriteCalled(w)) /\ UNCHANGED revived
  <2>1. /\ ready' = ready /\ (io' = io \/ io' \in {"off", "ended"})
        /\ UNCHANGED <<stalled, revived, leftover, writing, wip>>
    BY <1>11 DEF RunReturns, StopFlag, Join, ConnectionBreaks, ClearOne, WriteCalled, thread, sock, ops, wq, marks
  <2> QED
    BY <1>0, <1>1, <2>1, SameKinds
<1>12. CASE UNCHANGED vars
  <2>1. ready' = ready /\ io' = io /\ UNCHANGED <<stalled, revived, leftover, writing, wip>>
    BY <1>12 DEF vars, tcpVars, thread, sock, ops, wq, marks
  <2> QED
    BY <1>0, <1>1, <2>1, SameKinds
<1>14. Network => UNCHANGED revived
  BY DEF Network, AcceptCompletes, marks
<1> QED
  BY <1>2, <1>3, <1>4, <1>5, <1>6, <1>7, <1>8, <1>9, <1>10, <1>11, <1>12, <1>13, <1>14
     DEF Next, IoThread, Network, Users

-----------------------------------------------------------------------------
(* The packets in hand.                                                    *)

\* Packets are taken from the front of the line and lost, but none comes to it, in every step
\* that is not the end of a write().
LEMMA KeptStep ==
    ASSUME Data, Calls, [Next]_vars
    PROVE  \/ UNCHANGED count /\ Kept(writing, queue, ready, writing', queue', ready')
           \/ \E w \in Writers : Posted(w) /\ UNCHANGED queue
<1> DEFINE K(wr, q, r) == Kept(writing, queue, ready, wr, q, r)
<1>0. writing \in Seq(Packets) /\ queue \in Seq(Packets) /\ ready \in Seq(Handler)
  BY DEF Data
<1>1. K(writing, queue, ready)
  BY DEF Kept
<1>2. ready # <<>> => Rest \in Seq(Handler) /\ K(writing, queue, Rest)
  BY <1>0, KeptTail DEF Rest
<1>3. ASSUME NEW r \in Seq(Handler), NEW again, K(writing, queue, r), Closed(r, again) \/ Threw(r)
      PROVE  K(writing', queue, ready')
  <2>1. CASE Threw(r)
    BY <1>3, <2>1 DEF Threw
  <2>2. CASE Closed(r, again)
    <3>1. writing' = <<>> /\ Grows(r, ready', {H("write", "aborted")})
      BY <2>2 DEF Closed
    <3>2. Kept(writing, queue, r, writing, queue, ready')
      BY <1>0, <3>1, KeptGrowing DEF H
    <3>3. Kept(writing, queue, ready', <<>>, queue, ready')
      BY <1>0, KeptLosing
    <3>4. K(writing, queue, ready')
      BY <1>3, <3>2, KeptTwice
    <3>5. K(<<>>, queue, ready')
      BY <3>3, <3>4, KeptTwice
    <3> QED
      BY <3>1, <3>5
  <2> QED
    BY <1>3, <2>1, <2>2
<1>4. ASSUME NEW q \in Seq(Packets), NEW r \in Seq(Handler), K(writing, q, r), Written(r, q)
      PROVE  K(writing', queue', ready')
  <2>1. CASE q = <<>> /\ ready' = r /\ queue' = q /\ UNCHANGED writing
    BY <1>4, <2>1
  <2>2. CASE q # <<>> /\ queue' = Tail(q) /\ ready' = r /\ writing' = Append(writing, Head(q))
    <3>1. Kept(writing, q, r, Append(writing, Head(q)), Tail(q), r)
      BY <1>0, <2>2, KeptWriting
    <3>2. K(Append(writing, Head(q)), Tail(q), r)
      BY <1>4, <3>1, KeptTwice
    <3> QED
      BY <2>2, <3>2
  <2>3. CASE q # <<>> /\ queue' = Tail(q) /\ ready' = Append(r, H("write", "err")) /\ UNCHANGED writing
    <3>1. Kept(writing, q, r, writing, Tail(q), r)
      BY <1>0, <2>3, KeptLosing
    <3>2. PICK h \in Handler : h.k # "post" /\ ready' = Append(r, h)
      BY <2>3, HandlerTypes DEF Results, H
    <3>3. Grows(r, ready', {h})
      BY <3>2, GrowsByOne
    <3>4. PICK t \in Seq(Packets) : t = Tail(q)
      BY <2>3
    <3>5. Kept(writing, t, r, writing, t, ready')
      BY <1>0, <3>2, <3>3, KeptGrowing
    <3>6. K(writing, t, r)
      BY <1>4, <3>1, <3>4, KeptTwice
    <3>7. K(writing, t, ready')
      BY <3>5, <3>6, KeptTwice
    <3> QED
      BY <2>3, <3>4, <3>7
  <2> QED
    BY <1>4, <2>1, <2>2, <2>3 DEF Written
<1> HIDE DEF K
<1>5. CASE OnHeader \/ OnPayload
  <2>1. ready # <<>> /\ UNCHANGED <<queue, count>>
    BY <1>5, ReadStep DEF wq, users
  <2>2. CASE Closed(Rest, FALSE) \/ Closed(Rest, TRUE) \/ Threw(Rest)
    BY <1>2, <1>3, <2>1, <2>2 DEF K
  <2>3. CASE (ReadRearms \/ AtEof) /\ ready' = Rest
    BY <1>2, <2>1, <2>3 DEF AtEof, ReadRearms, K
  <2>4. CASE ReadRearms /\ Grows(Rest, ready', {H("header", "err"), H("payload", "err")})
    <3> DEFINE S == {H("header", "err"), H("payload", "err")}
    <3>1. Grows(Rest, ready', S)
      BY <2>4
    <3>2. \A h \in S : h.k # "post"
      BY DEF H
    <3> HIDE DEF S
    <3>3. Kept(writing, queue, Rest, writing, queue, ready')
      BY <1>0, <1>2, <2>1, <3>1, <3>2, KeptGrowing
    <3>4. K(writing, queue, ready')
      BY <1>2, <2>1, <3>3, KeptTwice DEF K
    <3> QED
      BY <2>1, <2>4, <3>4 DEF ReadRearms, K
  <2> QED
    BY <1>5, <2>2, <2>3, <2>4, ReadStep DEF AtEof, Reopened, ReadRearms
<1>6. CASE OnPost
  <2>1. ready # <<>> /\ Head(ready).k = "post" /\ Packet \in Packets /\ UNCHANGED count
    BY <1>6, PostStep DEF users
  <2>2. CASE ready' = Rest /\ UNCHANGED <<writing, wq>>
    BY <1>2, <2>1, <2>2 DEF K, wq
  <2>3. K(writing, Append(queue, Packet), Rest) /\ Append(queue, Packet) \in Seq(Packets)
    BY <1>0, <2>1, KeptQueued DEF Packet, Rest, K
  <2>4. CASE queue' = Append(queue, Packet) /\ ready' = Rest /\ UNCHANGED writing
    BY <2>1, <2>3, <2>4 DEF K
  <2>5. CASE Written(Rest, Append(queue, Packet))
    BY <1>2, <1>4, <2>1, <2>3, <2>5 DEF K
  <2> QED
    BY <1>6, <2>2, <2>4, <2>5, PostStep
<1>7. CASE OnWritten
  <2>1. ready # <<>> /\ UNCHANGED <<queue, count>>
    BY <1>7, WrittenStep DEF users
  <2>2. CASE Closed(Rest, FALSE) \/ Closed(Rest, TRUE) \/ Threw(Rest)
    BY <1>2, <1>3, <2>1, <2>2 DEF K
  <2>3. CASE ready' = Rest /\ UNCHANGED writing
    BY <1>2, <2>1, <2>3 DEF K
  <2> QED
    BY <1>7, <2>2, <2>3, WrittenStep
<1>8. CASE WriteNext
  <2>1. Written(ready, queue) /\ UNCHANGED count
    BY <1>8, NextStep DEF users
  <2> QED
    BY <1>0, <1>1, <1>4, <2>1 DEF K
<1>17. CASE CloseAtEof
  <2>1. UNCHANGED <<queue, count>> /\ (Closed(ready, FALSE) \/ Closed(ready, TRUE) \/ Threw(ready))
    BY <1>17, EofStep DEF Reopened, users, wq
  <2> QED
    BY <1>0, <1>1, <1>3, <2>1 DEF K
<1>9. CASE StopLooks \/ StopCloses
  <2>1. UNCHANGED <<queue, count>>
    BY <1>9, StopStep DEF users, wq
  <2>2. CASE Closed(ready, FALSE)
    BY <1>0, <1>1, <1>3, <2>1, <2>2 DEF K
  <2>3. CASE UNCHANGED sock
    BY <1>1, <2>1, <2>3 DEF K, sock, ops
  <2> QED
    BY <1>9, <2>2, <2>3, StopStep
<1>10. CASE ReadCompletes \/ WriteCompletes \/ \E w \in Writers : WritePosts(w)
  <2>1. UNCHANGED queue
    BY <1>10, NetworkStep DEF wq
  <2>2. CASE ReadDone \/ WriteDone
    <3>1. UNCHANGED count /\ (writing' = writing \/ (writing # <<>> /\ writing' = Tail(writing)))
      BY <2>2 DEF ReadDone, WriteDone, users
    <3>2. \E h \in Handler : h.k # "post" /\ ready' = Append(ready, h)
      BY <2>2, NetworkHandlers DEF ReadDone, WriteDone, ReadKinds
    <3>3. PICK h \in Handler : h.k # "post" /\ ready' = Append(ready, h)
      BY <3>2
    <3>4. Grows(ready, ready', {h})
      BY <1>0, <3>3, GrowsByOne
    <3>5. Kept(writing, queue, ready, writing, queue, ready')
      BY <1>0, <3>2, <3>3, <3>4, KeptGrowing
    <3>6. writing # <<>> => Kept(writing, queue, ready', Tail(writing), queue, ready')
      BY <1>0, KeptLosing
    <3>7. writing # <<>> => Kept(writing, queue, ready, Tail(writing), queue, ready')
      BY <3>5, <3>6, KeptTwice
    <3> QED
      BY <2>1, <3>1, <3>5, <3>7
  <2> QED
    BY <1>10, <2>1, <2>2, NetworkStep
<1>11. CASE ClearOne
  <2>1. queue # <<>> /\ queue' = Tail(queue) /\ UNCHANGED <<writing, ready, count>>
    BY <1>11 DEF ClearOne, sock, ops, users
  <2> QED
    BY <1>0, <2>1, KeptLosing
<1>12. CASE Start
  BY <1>1, <1>12 DEF Start, users, K
<1>13. CASE OnAccept
  <2>1. ready # <<>> /\ ready' = Rest /\ UNCHANGED <<writing, queue, count>>
    BY <1>13, AcceptStep DEF wq, users
  <2> QED
    BY <1>2, <2>1 DEF K
<1>14. CASE AcceptCompletes
  <2>1. UNCHANGED <<writing, queue, count>>
    BY <1>14 DEF AcceptCompletes, wq, users
  <2>2. CASE ready' = ready
    BY <1>1, <2>1, <2>2 DEF K
  <2>3. CASE ready' # ready
    <3>1. PICK h \in Handler : h.k # "post" /\ ready' = Append(ready, h)
      BY <1>14, <2>3, HandlerTypes DEF AcceptCompletes, H, Results
    <3>2. Grows(ready, ready', {h})
      BY <1>0, <3>1, GrowsByOne
    <3>3. Kept(writing, queue, ready, writing, queue, ready')
      BY <1>0, <3>1, <3>2, KeptGrowing
    <3> QED
      BY <2>1, <3>3
  <2> QED
    BY <2>2, <2>3
<1>15. CASE RunReturns \/ StopFlag \/ Join \/ ConnectionBreaks \/ \E w \in Writers : WriteCalled(w)
  BY <1>1, <1>15 DEF RunReturns, StopFlag, Join, ConnectionBreaks, WriteCalled, sock, ops, wq, users, K
<1>16. CASE UNCHANGED vars
  BY <1>1, <1>16 DEF vars, tcpVars, sock, ops, wq, users, K
<1> QED
  BY <1>5, <1>6, <1>7, <1>8, <1>9, <1>10, <1>11, <1>12, <1>13, <1>14, <1>15, <1>16, <1>17
     DEF Next, IoThread, Network, Users

\* The packet that a write() posts comes behind all that its thread wrote before.
LEMMA PostedStep ==
    ASSUME Data, Calls, Order, NEW w \in Writers, Posted(w), UNCHANGED queue
    PROVE  /\ Order'
           /\ Held(writing', queue', ready') = Held(writing, queue, ready) \cup {<<w, count[w] + 1>>}
<1> DEFINE p == <<w, count[w] + 1>>
           h == [k |-> "post", p |-> p]
           n == Len(ready) + 1
<1>0. writing \in Seq(Packets) /\ queue \in Seq(Packets) /\ ready \in Seq(Handler)
  BY DEF Data
<1>1. p \in Packets /\ h \in Handler /\ h.k = "post" /\ h.p = p
  BY NetworkHandlers DEF Posted
<1>2. UNCHANGED writing /\ ready' = Append(ready, h) /\ count' = [count EXCEPT ![w] = @ + 1]
  BY DEF Posted
<1>3. p[1] = w /\ p[2] = count[w] + 1
  OBVIOUS
<1> HIDE DEF p, h
<1>4. /\ DOMAIN ready' = 1 .. n /\ DOMAIN ready = 1 .. n - 1 /\ n \in Nat \ {0}
      /\ ready'[n] = h /\ \A i \in DOMAIN ready : ready'[i] = ready[i]
  BY <1>0, <1>1, <1>2
<1> HIDE DEF n
<1>5. /\ PostsOf(ready') = PostsOf(ready) \cup {n}
      /\ \A i \in PostsOf(ready) : ready'[i] = ready[i] /\ i < n
  <2>1. \A i \in DOMAIN ready' : i \in DOMAIN ready \/ i = n
    BY <1>4
  <2>2. n \in DOMAIN ready' /\ \A i \in DOMAIN ready : i \in DOMAIN ready' /\ i < n
    BY <1>4
  <2> QED
    BY <1>1, <1>4, <2>1, <2>2 DEF PostsOf
<1>6. Held(writing', queue', ready') = Held(writing, queue, ready) \cup {p}
  <2>1. {ready'[i].p : i \in PostsOf(ready')} = {ready[i].p : i \in PostsOf(ready)} \cup {p}
    BY <1>1, <1>4, <1>5
  <2> QED
    BY <1>2, <2>1 DEF Held
<1>7. \A x \in Held(writing, queue, ready) : Before(x, p)
  <2>1. ASSUME NEW x \in Held(writing, queue, ready), x[1] = w PROVE x[2] < count[w] + 1
    <3>1. x \in Packets
      BY <1>0, HandlerTypes DEF Held, PostsOf
    <3>2. x[2] <= count[w]
      BY <2>1 DEF Order
    <3> QED
      BY <3>1, <3>2 DEF Packets, Calls
  <2> QED
    BY <1>3, <2>1 DEF Before
<1>8. Line(writing', queue', ready')
  <2>1. Rising(writing) /\ Rising(queue) /\ Apart(writing, queue)
    BY DEF Order, Line
  <2>2. PostsRise(ready')
    <3>1. \A i \in PostsOf(ready) : Before(ready[i].p, p)
      BY <1>7 DEF Held
    <3>2. PostsRise(ready)
      BY DEF Order, Line
    <3>3. \A j \in PostsOf(ready') : (j \in PostsOf(ready) /\ j < n) \/ j = n
      BY <1>5
    <3>4. \A i, j \in PostsOf(ready') : i < j => i \in PostsOf(ready)
      BY <1>4, <3>3 DEF PostsOf
    <3> QED
      BY <1>1, <1>4, <1>5, <3>1, <3>2, <3>3, <3>4 DEF PostsRise
  <2>3. Below(writing, ready')
    <3>1. \A i \in DOMAIN writing : Before(writing[i], p)
      BY <1>7 DEF Held
    <3>2. Below(writing, ready)
      BY DEF Order, Line
    <3> QED
      BY <1>1, <1>4, <1>5, <3>1, <3>2 DEF Below
  <2>4. Below(queue, ready')
    <3>1. \A i \in DOMAIN queue : Before(queue[i], p)
      BY <1>7 DEF Held
    <3>2. Below(queue, ready)
      BY DEF Order, Line
    <3> QED
      BY <1>1, <1>4, <1>5, <3>1, <3>2 DEF Below
  <2> QED
    BY <1>2, <2>1, <2>2, <2>3, <2>4 DEF Line
<1>9. \A x \in Held(writing', queue', ready') : x[2] <= count'[x[1]]
  <2>1. ASSUME NEW x \in Held(writing, queue, ready) PROVE x[2] <= count'[x[1]]
    <3>1. x \in Packets
      BY <1>0, HandlerTypes DEF Held, PostsOf
    <3>2. x[2] <= count[x[1]]
      BY DEF Order
    <3>3. x[1] \in Writers /\ x[2] \in Nat /\ count[x[1]] \in Nat /\ count'[x[1]] \in {count[x[1]], count[x[1]] + 1}
      BY <1>2, <3>1 DEF Packets, Calls
    <3> QED
      BY <3>2, <3>3
  <2>2. p[2] <= count'[p[1]]
    BY <1>2, <1>3 DEF Calls
  <2> QED
    BY <1>6, <2>1, <2>2
<1> QED
  BY <1>6, <1>8, <1>9 DEF Order, p

LEMMA OrderStep ==
    ASSUME Data, Calls, Order, [Next]_vars
    PROVE  Order'
<1>1. CASE UNCHANGED count /\ Kept(writing, queue, ready, writing', queue', ready')
  BY <1>1 DEF Kept, Order
<1>2. CASE \E w \in Writers : Posted(w) /\ UNCHANGED queue
  BY <1>2, PostedStep
<1> QED
  BY <1>1, <1>2, KeptStep

-----------------------------------------------------------------------------
(* The theorems.                                                           *)

LEMMA InitInvariant == Init => SInv
<1> SUFFICES ASSUME Init PROVE SInv
  OBVIOUS
<1> USE TcpAssumption DEF Init, TcpInit
<1>1. Bools
  <2>1. starts \in 0 .. MaxStarts
    OBVIOUS
  <2> HIDE TcpAssumption
  <2> QED
    BY <2>1 DEF Bools, Flags
<1>2. Data
  BY DEF Data, NoReads
<1>3. Calls
  BY DEF Calls
<1>4. Positions /\ ReadInv /\ Listens /\ WriteInv
  BY DEF Positions, ReadInv, Listens, WriteInv
<1>5. Order
  BY DEF Order, Line, Rising, Apart, PostsRise, PostsOf, Below, Held
<1> QED
  BY <1>1, <1>2, <1>3, <1>4, <1>5 DEF SInv

\* The inductive invariant: the owner's position, the reads, the accept, the single write and the
\* line of packets, whatever the threads and the network do.
THEOREM ServerInvHolds == Spec => []SInv
<1>1. SInv /\ [Next]_vars => SInv'
  BY FlagsStep, DataStep, CallsStep, PositionsStep, ReadInvStep, ListensStep, WriteInvStep, OrderStep
     DEF SInv
<1> QED
  BY <1>1, InitInvariant, PTL DEF Spec

\* The state keeps its types, and the write queue its capacity.
THEOREM ServerTypeCorrect == Spec => []TypeOK
<1>1. SInv => TypeOK
  BY TypesAre DEF SInv
<1> QED
  BY <1>1, ServerInvHolds, PTL

\* One write at a time, through every end and new beginning of a connection: the write that a
\* close() aborts keeps write_in_progress_ until its handler has run.
THEOREM OneWriteHolds == Spec => []OneWrite
<1>1. SInv => OneWrite
  <2> SUFFICES ASSUME SInv, io = "run", ~stalled, ~revived, leftover # "handlers"
               PROVE  Writes = (IF wip THEN 1 ELSE 0)
    BY DEF OneWrite
  <2>1. (wip => OneWriteNow) /\ (~wip => NoWrite)
    BY DEF SInv, WriteInv
  <2>2. Writes = Len(writing) + Cardinality(Waiting(WriteKinds))
    BY DEF Writes, WriteKinds
  <2>3. OneWriteNow => Writes = 1
    BY <2>2, WaitingIs DEF OneWriteNow, OneWriteIn
  <2>4. NoWrite => Writes = 0
    BY <2>2, WaitingIs DEF NoWrite, NoWriteIn
  <2> QED
    BY <2>1, <2>3, <2>4
<1> QED
  BY <1>1, ServerInvHolds, PTL

\* A handler that waits is counted.
LEMMA SomeWaiting ==
    ASSUME Data, NEW kinds, ~NoneOf(ready, kinds)
    PROVE  Cardinality(Waiting(kinds)) \in Nat \ {0}
<1>1. ready \in Seq(Handler) /\ DOMAIN ready = 1 .. Len(ready) /\ Len(ready) \in Nat
  BY DEF Data
<1>2. Waiting(kinds) \subseteq DOMAIN ready /\ Waiting(kinds) # {}
  BY DEF Waiting, NoneOf
<1>3. IsFiniteSet(DOMAIN ready)
  BY <1>1, FS_Interval
<1>4. IsFiniteSet(Waiting(kinds))
  BY <1>2, <1>3, FS_Subset
<1> QED
  BY <1>2, <1>4, FS_CardinalityType, FS_EmptySet

\* The server is never deaf: it reads from the peer it has, or accepts the next one.
THEOREM ServesHolds == Spec => []Serves
<1>1. SInv => Reading
  <2> SUFFICES ASSUME SInv, open, io = "run", ~revived
               PROVE  Reads >= 1
    BY DEF Reading
  <2> DEFINE sum == reads.header + reads.payload
             n == Cardinality(Waiting({"header", "payload"}))
  <2>1. SomeRead /\ Data
    BY DEF SInv, ReadInv
  <2>2. sum \in Nat
    BY <2>1 DEF Data
  <2>3. ~NoneOf(ready, ReadKinds) => n \in Nat \ {0}
    BY <2>1, SomeWaiting DEF ReadKinds
  <2>4. NoneOf(ready, ReadKinds) => n = 0
    BY WaitingIs DEF ReadKinds
  <2>5. Reads = sum + n
    BY DEF Reads
  <2>6. sum > 0 \/ n # 0
    BY <2>1, <2>3 DEF SomeRead
  <2>7. n \in Nat
    BY <2>3, <2>4
  <2> HIDE DEF sum, n
  <2> QED
    BY <2>2, <2>5, <2>6, <2>7
<1>2. SInv => Listens
  BY DEF SInv
<1>3. TypeOK /\ SInv => Serves
  BY <1>1, <1>2 DEF Serves
<1> QED
  BY <1>3, ServerInvHolds, ServerTypeCorrect, PTL

\* The packets in hand are those of the specification of the promise.
LEMMA InHandIs ==
    InHand = Held(writing, queue, ready) /\ InHand' = Held(writing', queue', ready')
BY DEF InHand, Held, PostsOf, Waiting

LEMMA LosesStep ==
    ASSUME UNCHANGED <<count, out>>, InHand' \subseteq InHand
    PROVE  Promise!Lose
<1>1. \A w \in Writers : pending'[w] \subseteq pending[w]
  BY DEF pending
<1>2. pending' \in [Writers -> UNION {SUBSET pending[w] : w \in Writers}]
  <2>1. pending' = [w \in Writers |-> pending'[w]]
    BY DEF pending
  <2> QED
    BY <1>1, <2>1
<1> QED
  BY <1>1, <1>2 DEF Promise!Lose

LEMMA WritesStep ==
    ASSUME Data, Calls, Order, NEW w \in Writers, Posted(w), UNCHANGED queue
    PROVE  Promise!Write(w)
<1>1. InHand' = InHand \cup {<<w, count[w] + 1>>}
  BY PostedStep, InHandIs
<1>2. count' = [count EXCEPT ![w] = @ + 1] /\ count'[w] = count[w] + 1 /\ UNCHANGED out
  BY DEF Posted, Calls
<1>3. count'[w] \in 1 .. MaxPackets
  BY <1>2, TcpAssumption DEF Posted, Calls
<1>4. \A v \in Writers : pending'[v] = IF v = w THEN pending[v] \cup {count'[w]} ELSE pending[v]
  BY <1>1, <1>2, <1>3 DEF pending
<1>5. pending' = [pending EXCEPT ![w] = @ \cup {count'[w]}]
  <2>1. pending' = [v \in Writers |-> pending'[v]] /\ pending = [v \in Writers |-> pending[v]]
    BY DEF pending
  <2> QED
    BY <1>4, <2>1
<1> QED
  BY <1>2, <1>5 DEF Promise!Write

\* The packet that leaves is the first in line, and there is no other with its number.
LEMMA SendsStep ==
    ASSUME Data, Calls, Order, WriteCompletes, out' # out
    PROVE  \E w \in Writers : Promise!Send(w)
<1> DEFINE p == Head(writing)
           rest == {queue[i] : i \in DOMAIN queue} \cup {ready[i].p : i \in PostsOf(ready)}
<1>1. /\ writing # <<>> /\ Len(writing) <= 1 /\ out' = [out EXCEPT ![p[1]] = p[2]]
      /\ writing' = Tail(writing) /\ UNCHANGED <<queue, count>>
  BY DEF WriteCompletes, wq, users, Data
<1>2. writing' = <<>> /\ p \in Packets /\ writing[1] = p /\ DOMAIN writing = {1}
  <2>1. writing \in Seq(Packets)
    BY DEF Data
  <2>2. Len(writing) \in Nat \ {0} /\ DOMAIN writing = 1 .. Len(writing)
    BY <1>1, <2>1
  <2>3. Len(writing) = 1
    <3>1. Len(writing) <= 1
      BY <1>1
    <3> HIDE DEF p
    <3> QED
      BY <2>2, <3>1
  <2> QED
    BY <1>1, <2>1, <2>2, <2>3
<1>3. {writing[i] : i \in DOMAIN writing} = {p}
  BY <1>2
<1>4. {writing'[i] : i \in DOMAIN writing'} = {}
  BY <1>2
<1>5. {ready'[i].p : i \in PostsOf(ready')} = {ready[i].p : i \in PostsOf(ready)}
  <2>1. WriteDone
    <3>1. ~ReadDone /\ ~\E w \in Writers : Posted(w)
      BY DEF ReadDone, Posted
    <3> QED
      BY <3>1, NetworkStep
  <2>2. PICK x \in {"ok", "err"} : ready' = Append(ready, H("write", x))
    BY <2>1 DEF WriteDone
  <2>3. H("write", x) \in Handler /\ H("write", x).k = "write"
    BY NetworkHandlers
  <2>4. Grows(ready, ready', {H("write", x)})
    BY <2>2, <2>3, GrowsByOne DEF Data
  <2>5. PostsOf(ready') = PostsOf(ready) /\ \A i \in PostsOf(ready) : ready'[i] = ready[i]
    BY <2>3, <2>4 DEF Grows, PostsOf, Data
  <2> QED
    BY <2>5
<1>6. InHand = rest \cup {p} /\ InHand' = rest
  <2>1. InHand = Held(writing, queue, ready) /\ InHand' = Held(writing', queue', ready')
    BY InHandIs
  <2> QED
    BY <1>1, <1>3, <1>4, <1>5, <2>1 DEF Held
<1>7. \A x \in rest : Before(p, x)
  BY <1>2 DEF Order, Line, Apart, Below
<1>8. \A x \in rest : x \in Packets
  BY HandlerTypes DEF Data, PostsOf
<1> HIDE DEF p, rest
<1>9. p = <<p[1], p[2]>> /\ p[1] \in Writers /\ p[2] \in 1 .. MaxPackets
  BY <1>2 DEF Packets
<1>10. p \notin rest
  BY <1>7, <1>9 DEF Before
<1>11. \A v \in Writers : pending'[v] = IF v = p[1] THEN pending[v] \ {p[2]} ELSE pending[v]
  BY <1>6, <1>9, <1>10 DEF pending
<1>12. pending' = [pending EXCEPT ![p[1]] = @ \ {p[2]}]
  <2>1. pending' = [v \in Writers |-> pending'[v]] /\ pending = [v \in Writers |-> pending[v]]
    BY DEF pending
  <2> QED
    BY <1>9, <1>11, <2>1
<1>13. p[2] \in pending[p[1]]
  BY <1>6, <1>9 DEF pending
<1>14. \A m \in pending[p[1]] : p[2] <= m
  <2>1. ASSUME NEW m \in pending[p[1]] PROVE p[2] <= m
    <3>1. m \in 1 .. MaxPackets /\ <<p[1], m>> \in rest \cup {p}
      BY <1>6, <1>9, <2>1 DEF pending
    <3>2. CASE <<p[1], m>> = p
      BY <1>9, <3>1, <3>2
    <3>3. CASE <<p[1], m>> \in rest
      BY <1>7, <1>9, <3>1, <3>3 DEF Before
    <3> QED
      BY <3>1, <3>2, <3>3
  <2> QED
    BY <2>1
<1>15. Promise!Send(p[1])
  <2>1. out' = [out EXCEPT ![p[1]] = p[2]] /\ UNCHANGED count
    BY <1>1 DEF p
  <2> QED
    BY <1>12, <1>13, <1>14, <2>1 DEF Promise!Send
<1> QED
  BY <1>9, <1>15

\* Only a write that completes changes what was sent.
LEMMA OutStep ==
    ASSUME [Next]_vars
    PROVE  UNCHANGED out \/ WriteCompletes
<1>1. IoThread => UNCHANGED out
  BY DEF IoThread, RunReturns, OnPost, OnWritten, WriteNext, OnAccept, OnHeader, OnPayload, CloseAtEof
<1>2. Start \/ StopLooks \/ StopCloses \/ StopFlag \/ Join => UNCHANGED out
  BY DEF Start, StopFlag, StopLooks, StopCloses, Join
<1>3. Users \/ ReadCompletes \/ ConnectionBreaks \/ AcceptCompletes => UNCHANGED out
  BY DEF Users, ClearOne, WriteCalled, WritePosts, ReadCompletes, ConnectionBreaks, AcceptCompletes
<1>4. UNCHANGED vars => UNCHANGED out
  BY DEF vars, tcpVars
<1> QED
  BY <1>1, <1>2, <1>3, <1>4 DEF Next, Network

\* The server implements Channel: a write() posts, a completion sends the oldest packet, and all
\* other steps lose packets or leave them.
THEOREM InOrderHolds == Spec => InOrder
<1>1. Init => Promise!Init
  <2> SUFFICES ASSUME Init PROVE Promise!Init
    OBVIOUS
  <2>1. DOMAIN writing = {} /\ DOMAIN queue = {} /\ DOMAIN ready = {}
    BY DEF Init, TcpInit
  <2>2. InHand = {}
    BY <2>1 DEF InHand, Waiting
  <2>3. pending = [w \in Writers |-> {}]
    BY <2>2 DEF pending
  <2> QED
    BY <2>3 DEF Init, TcpInit, Promise!Init
<1>2. SInv /\ [Next]_vars => [Promise!Next]_<<count, pending, out>>
  <2> SUFFICES ASSUME SInv, [Next]_vars PROVE Promise!Next
    OBVIOUS
  <2> USE DEF SInv
  <2>1. CASE \E w \in Writers : Posted(w) /\ UNCHANGED queue
    BY <2>1, WritesStep DEF Promise!Next
  <2>2. CASE UNCHANGED count /\ Kept(writing, queue, ready, writing', queue', ready')
    <3>1. InHand' \subseteq InHand
      BY <2>2, InHandIs DEF Kept, Order
    <3>2. CASE UNCHANGED out
      BY <2>2, <3>1, <3>2, LosesStep DEF Promise!Next
    <3>3. CASE out' # out
      BY <3>3, OutStep, SendsStep DEF Promise!Next
    <3> QED
      BY <3>2, <3>3
  <2> QED
    BY <2>1, <2>2, KeptStep
<1> QED
  BY <1>1, <1>2, ServerInvHolds, PTL DEF Spec, InOrder, Promise!Spec

=============================================================================
