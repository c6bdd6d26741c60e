--------------------------- MODULE SendDataProofs ---------------------------
(***************************************************************************)
(* send_data for any number of blocks, any sizes and any packet size: what *)
(* is counted for a packet stays within max_pl_size, every block is in     *)
(* exactly one packet and in order, and each packet is as full as it can   *)
(* be.  Then the codec: the constructor of Packet and blocks() give back   *)
(* what make_header and make_payload were given, for any blocks that fit a *)
(* packet, and so the other side reads what send_data writes.  Last, the   *)
(* checksums: what has become of a packet whose cells changed or changed   *)
(* places, or that was cut short, is refused.                              *)
(***************************************************************************)
EXTENDS SendData, WellFoundedInduction, TLAPS

-----------------------------------------------------------------------------
(* Induction over an interval, with sets in the place of predicates.       *)

LEMMA Smallest ==
    ASSUME NEW T \in SUBSET Nat, T # {}
    PROVE  \E m \in T : \A k \in T : m <= k
<1> DEFINE R == {ss \in Nat \X Nat : ss[1] < ss[2]}
<1>1. R = OpToRel(<, Nat)
  BY Zenon DEF OpToRel
<1>2. IsWellFoundedOn(R, Nat)
  BY <1>1, NatLessThanWellFounded, Zenon
<1>3. \E m \in T : \A k \in T : ~(<<k, m>> \in R)
  BY <1>2, WFMin
<1>4. \A k, m \in Nat : k < m => <<k, m>> \in R
  OBVIOUS
<1> HIDE DEF R
<1>5. PICK m \in T : \A k \in T : ~(k < m)
  BY <1>3, <1>4, Zenon
<1>6. \A k \in T : m <= k
  BY <1>5
<1> QED
  BY <1>6

LEMMA UpTo ==
    ASSUME NEW n \in Nat, NEW T, 0 \in T, \A i \in 0 .. n - 1 : i \in T => i + 1 \in T
    PROVE  0 .. n \subseteq T
<1> SUFFICES ASSUME (0 .. n) \ T # {} PROVE FALSE
  OBVIOUS
<1>1. PICK m \in (0 .. n) \ T : \A k \in (0 .. n) \ T : m <= k
  <2>1. (0 .. n) \ T \in SUBSET Nat
    OBVIOUS
  <2> QED
    BY <2>1, Smallest
<1>2. m - 1 \in 0 .. n - 1 /\ m - 1 \in T
  BY <1>1
<1> QED
  BY <1>1, <1>2

-----------------------------------------------------------------------------

\* The loop's own invariant: the payload counts nothing exactly when it holds no block, and a
\* packet is made only of blocks.
LoopInv ==
    /\ first = next => payload_size = 0
    /\ pc = "write" => first < next

\* What the type invariant says of the block the loop is at.
LEMMA BlockFacts ==
    ASSUME TypeOK
    PROVE  /\ Len(blocks) \in Nat
           /\ first \in Nat /\ next \in Nat /\ 1 <= first /\ first <= next /\ next <= Len(blocks) + 1
           /\ next <= Len(blocks) => blocks[next] \in Nat
<1>1. Len(blocks) \in Nat
  BY DEF TypeOK
<1>2. first \in Nat /\ next \in Nat /\ 1 <= first /\ first <= next /\ next <= Len(blocks) + 1
  BY <1>1 DEF TypeOK
<1>3. ASSUME next <= Len(blocks) PROVE blocks[next] \in Sizes
  <2>1. next \in 1 .. Len(blocks)
    BY <1>1, <1>2, <1>3
  <2> QED
    BY <2>1 DEF TypeOK
<1> QED
  BY <1>1, <1>2, <1>3, SendAssumption

\* The variables of send_data keep their types in every reachable state.
THEOREM SendTypeCorrect == Spec => []TypeOK
<1>1. Init => TypeOK
  <2> SUFFICES ASSUME Init PROVE TypeOK
    OBVIOUS
  <2>1. blocks \in Seq(Sizes)
    BY DEF Init
  <2> QED
    <3>1. packet_id \in 0 .. IdMod - 1 /\ taken \in Nat
      BY SendAssumption DEF Init
    <3>2. NoId \in TakenId
      BY SendAssumption DEF NoId, TakenId
    <3> QED
      BY <2>1, <3>1, <3>2, SendAssumption, PacketAssumption DEF Init, TypeOK, Running
<1>2. TypeOK /\ [Next]_vars => TypeOK'
  <2> SUFFICES ASSUME TypeOK, [Next]_vars PROVE TypeOK'
    OBVIOUS
  <2> USE SendAssumption, PacketAssumption DEF ids
  <2>0. /\ NextId \in TakenId /\ NoId \in TakenId
        /\ TakeId => packet_id' \in 0 .. IdMod - 1 /\ taken' \in Nat
    <3>1. (packet_id + 1) % IdMod \in 0 .. IdMod - 1 /\ taken + 1 \in Nat /\ 0 \in 0 .. IdMod - 1
      BY DEF TypeOK
    <3> QED
      BY <3>1 DEF NextId, NoId, TakenId, TakeId
  <2>1. CASE SendData
    BY <2>1 DEF SendData, TypeOK, locals, Running, Failures
  <2>2. CASE DataTooBig
    BY <2>2 DEF DataTooBig, TypeOK, locals, Running, Failures
  <2>3. CASE Push
    <3>1. next \in 1 .. Len(blocks) /\ blocks[next] \in Nat
      BY <2>3, BlockFacts DEF Push, AtBlock
    <3>2. payload_size' \in 0 .. MaxPl
      BY <2>3, <3>1 DEF Push, Full, TypeOK
    <3>3. first' \in 1 .. next' /\ next' \in 1 .. Len(blocks') + 1
      BY <2>3, <3>1 DEF Push, TypeOK
    <3> QED
      BY <2>3, <3>2, <3>3 DEF Push, TypeOK
  <2>4. CASE MakeData
    <3>1. pc' \in Running \cup Failures
      BY <2>4 DEF MakeData, Running, Failures
    <3> QED
      BY <2>0, <2>4, <3>1 DEF MakeData, TypeOK, locals
  <2>5. CASE Write
    <3>1. [from |-> first, to |-> next - 1] \in [from : Nat, to : Nat]
      BY DEF TypeOK
    <3>2. packets' \in Seq([from : Nat, to : Nat]) /\ wire' \in Seq(TakenId)
      BY <2>5, <3>1 DEF Write, TypeOK
    <3> QED
      BY <2>5, <3>2 DEF Write, TypeOK, Running
  <2>6. CASE WriteThrows
    BY <2>6 DEF WriteThrows, TypeOK, locals, Running, Failures
  <2>7. CASE Return
    BY <2>7 DEF Return, TypeOK, locals
  <2>8. CASE TakeAckId
    BY <2>0, <2>8 DEF TakeAckId, TypeOK, locals
  <2>9. CASE WriteAck
    <3>1. wire' \in Seq(TakenId)
      BY <2>9 DEF WriteAck, TypeOK
    <3> QED
      BY <2>0, <2>9, <3>1 DEF WriteAck, TypeOK, locals
  <2>10. CASE UNCHANGED vars
    BY <2>10 DEF vars, locals, TypeOK
  <2> QED
    BY <2>1, <2>2, <2>3, <2>4, <2>5, <2>6, <2>7, <2>8, <2>9, <2>10 DEF Next
<1> QED
  BY <1>1, <1>2, PTL DEF Spec

LEMMA LoopInvHolds == Spec => [](LoopInv /\ EveryBlockOnce)
<1> DEFINE IInv == LoopInv /\ EveryBlockOnce
<1>1. Init => IInv
  <2> SUFFICES ASSUME Init PROVE LoopInv /\ EveryBlockOnce
    OBVIOUS
  <2>1. LoopInv
    BY DEF Init, LoopInv
  <2>2. Len(packets) = 0
    BY DEF Init
  <2> QED
    BY <2>1, <2>2 DEF Init, EveryBlockOnce
<1>2. TypeOK /\ IInv /\ [Next]_vars => IInv'
  <2> SUFFICES ASSUME TypeOK, IInv, [Next]_vars PROVE IInv'
    OBVIOUS
  <2> USE SendAssumption, PacketAssumption
  <2>1. CASE Push
    <3>1. next' = next + 1 /\ next \in Nat /\ first \in Nat /\ first <= next
      BY <2>1 DEF Push, TypeOK
    <3>2. LoopInv'
      BY <2>1, <3>1 DEF Push, LoopInv
    <3>3. EveryBlockOnce'
      BY <2>1 DEF Push, EveryBlockOnce
    <3> QED
      BY <3>2, <3>3
  <2>2. CASE MakeData
    <3>1. first < next
      <4>1. CASE AtBlock /\ Full
        <5>1. first # next
          <6> SUFFICES ASSUME first = next PROVE FALSE
            OBVIOUS
          <6>1. payload_size = 0
            BY DEF LoopInv
          <6> QED
            BY <4>1, <6>1, BlockFacts DEF AtBlock, Full
        <5> QED
          BY <5>1, BlockFacts
      <4> QED
        BY <2>2, <4>1 DEF MakeData, FlushDue
    <3>2. LoopInv'
      BY <2>2, <3>1 DEF MakeData, LoopInv, locals
    <3>3. EveryBlockOnce'
      BY <2>2 DEF MakeData, EveryBlockOnce, locals
    <3> QED
      BY <3>2, <3>3
  <2>3. CASE Write
    <3> DEFINE p == [from |-> first, to |-> next - 1]
    <3>1. first \in Nat /\ next \in Nat /\ first < next /\ packets \in Seq([from : Nat, to : Nat])
      BY <2>3 DEF Write, LoopInv, TypeOK
    <3>2. /\ packets' = Append(packets, p) /\ first' = next /\ next' = next
          /\ pc' = "loop" /\ payload_size' = 0
      BY <2>3 DEF Write
    <3>3. LoopInv'
      BY <3>2 DEF LoopInv
    <3>4. /\ Len(packets') = Len(packets) + 1
          /\ packets'[Len(packets) + 1] = p
          /\ \A k \in 1 .. Len(packets) : packets'[k] = packets[k]
      BY <3>1, <3>2
    <3>5. first = IF Len(packets) = 0 THEN 1 ELSE packets[Len(packets)].to + 1
      BY <3>1 DEF EveryBlockOnce
    <3>6. ASSUME NEW k \in 1 .. Len(packets')
          PROVE  /\ packets'[k].from = IF k = 1 THEN 1 ELSE packets'[k - 1].to + 1
                 /\ packets'[k].from <= packets'[k].to
      <4>1. CASE k \in 1 .. Len(packets)
        <5>1. packets'[k] = packets[k] /\ (k # 1 => packets'[k - 1] = packets[k - 1])
          <6>1. Len(packets) \in Nat
            BY <3>1
          <6>2. k # 1 => k - 1 \in 1 .. Len(packets)
            BY <4>1, <6>1
          <6> QED
            BY <4>1, <6>2, <3>4
        <5> QED
          BY <4>1, <5>1 DEF EveryBlockOnce
      <4>2. CASE k = Len(packets) + 1
        <5>1. packets'[k].from = first /\ packets'[k].to = next - 1
          BY <4>2, <3>4
        <5>2. k # 1 => packets'[k - 1] = packets[Len(packets)]
          <6>1. k - 1 = Len(packets) /\ (k # 1 => Len(packets) \in 1 .. Len(packets))
            BY <3>1, <4>2
          <6> QED
            BY <3>4, <6>1, Zenon
        <5>3. k = 1 <=> Len(packets) = 0
          BY <4>2, <3>1
        <5> QED
          BY <5>1, <5>2, <5>3, <3>1, <3>5
      <4> QED
        BY <4>1, <4>2, <3>4, <3>1
    <3>7. packets' # <<>> /\ first' = packets'[Len(packets')].to + 1
      <4>1. Len(packets) \in Nat
        BY <3>1
      <4>2. packets' # <<>>
        BY <4>1, <3>4
      <4>3. packets'[Len(packets')].to = next - 1
        BY <3>4
      <4> QED
        BY <4>2, <4>3, <3>1, <3>2
    <3> QED
      BY <3>2, <3>3, <3>6, <3>7 DEF EveryBlockOnce
  <2>4. CASE Return
    <3>1. first = Len(blocks) + 1
      BY <2>4, BlockFacts DEF Return
    <3>2. LoopInv' /\ EveryBlockOnce'
      BY <2>4, <3>1 DEF Return, locals, LoopInv, EveryBlockOnce
    <3> QED
      BY <3>2
  <2>5. CASE SendData \/ DataTooBig \/ WriteThrows
    BY <2>5 DEF SendData, DataTooBig, WriteThrows, locals, LoopInv, EveryBlockOnce
  <2>6. CASE TakeAckId \/ WriteAck \/ UNCHANGED vars
    BY <2>6 DEF TakeAckId, WriteAck, vars, locals, LoopInv, EveryBlockOnce
  <2> QED
    BY <2>1, <2>2, <2>3, <2>4, <2>5, <2>6 DEF Next
<1> QED
  BY <1>1, <1>2, SendTypeCorrect, PTL DEF Spec

\* Every block is in exactly one packet and in the order of the call, for any call.
THEOREM EveryBlockOnceHolds == Spec => []EveryBlockOnce
BY LoopInvHolds, PTL

-----------------------------------------------------------------------------
(* The sizes of the packets.                                               *)

\* The recursive sum exists, and adds up.
LEMMA TotalIs ==
    ASSUME blocks \in Seq(Nat)
    PROVE  Total = [i \in 0 .. Len(blocks) |-> IF i = 0 THEN 0 ELSE Total[i - 1] + blocks[i]]
<1> DEFINE N == Len(blocks)
           Sums(n, f) == f = [i \in 0 .. n |-> IF i = 0 THEN 0 ELSE f[i - 1] + blocks[i]]
           T == {n \in 0 .. N : \E f : Sums(n, f)}
<1>1. N \in Nat
  OBVIOUS
<1>2. 0 \in T
  <2>1. Sums(0, [i \in 0 .. 0 |-> 0])
    OBVIOUS
  <2>2. 0 \in 0 .. N
    BY <1>1
  <2> HIDE DEF Sums, N
  <2> QED
    BY <2>1, <2>2
<1>3. ASSUME NEW n \in 0 .. N - 1, n \in T PROVE n + 1 \in T
  <2>1. PICK f : Sums(n, f)
    BY <1>3
  <2> DEFINE g == [i \in 0 .. n + 1 |-> IF i = n + 1 THEN f[n] + blocks[n + 1] ELSE f[i]]
  <2>2. ASSUME NEW i \in 0 .. n + 1
        PROVE  g[i] = IF i = 0 THEN 0 ELSE g[i - 1] + blocks[i]
    <3>1. CASE i = n + 1
      BY <2>1, <3>1
    <3>2. CASE i \in 0 .. n
      BY <2>1, <3>2
    <3> QED
      BY <3>1, <3>2
  <2>3. Sums(n + 1, g)
    BY <2>2
  <2>4. n + 1 \in 0 .. N
    BY <1>1
  <2> HIDE DEF Sums, N, g
  <2> QED
    BY <2>3, <2>4
<1>4. N \in T
  <2> HIDE DEF T, N
  <2>1. 0 .. N \subseteq T
    BY <1>1, <1>2, <1>3, UpTo
  <2> QED
    BY <1>1, <2>1
<1>5. \E f : Sums(N, f)
  BY <1>4
<1> QED
  BY <1>5 DEF Total

LEMMA Totals ==
    ASSUME blocks \in Seq(Nat)
    PROVE  /\ Total \in [0 .. Len(blocks) -> Nat] /\ Total[0] = 0
           /\ \A i \in 1 .. Len(blocks) : Total[i] = Total[i - 1] + blocks[i]
<1> DEFINE T == {i \in 0 .. Len(blocks) : Total[i] \in Nat}
<1>1. Total[0] = 0 /\ \A i \in 1 .. Len(blocks) : Total[i] = Total[i - 1] + blocks[i]
  BY TotalIs
<1>2. DOMAIN Total = 0 .. Len(blocks)
  BY TotalIs
<1>3. 0 \in T /\ \A i \in 0 .. Len(blocks) - 1 : i \in T => i + 1 \in T
  <2>1. Len(blocks) \in Nat /\ \A i \in 1 .. Len(blocks) : blocks[i] \in Nat
    OBVIOUS
  <2>2. ASSUME NEW i \in 0 .. Len(blocks) - 1, Total[i] \in Nat PROVE Total[i + 1] \in Nat
    <3>1. i + 1 \in 1 .. Len(blocks) /\ (i + 1) - 1 = i
      BY <2>1
    <3> QED
      BY <1>1, <2>1, <2>2, <3>1
  <2>3. \A i \in 0 .. Len(blocks) - 1 : i + 1 \in 0 .. Len(blocks)
    BY <2>1
  <2> QED
    BY <1>1, <2>1, <2>2, <2>3
<1>4. 0 .. Len(blocks) \subseteq T
  <2>1. Len(blocks) \in Nat
    OBVIOUS
  <2> HIDE DEF T
  <2> QED
    BY <1>3, <2>1, UpTo
<1> QED
  BY <1>1, <1>2, <1>4, TotalIs

\* What is counted is the size of the blocks in payload; a packet that is about to be written
\* has no place for the block the loop is at.
FillInv ==
    /\ payload_size = Bytes(first, next - 1)
    /\ (pc = "write" /\ next <= Len(blocks)) => payload_size + blocks[next] > MaxPl

LEMMA FillInvHolds == Spec => [](FillInv /\ PacketsFilled)
<1> USE SendAssumption, PacketAssumption
<1>0. blocks \in Seq(Sizes) => blocks \in Seq(Nat)
  <2>1. blocks \in Seq(Sizes) => Len(blocks) \in Nat /\ blocks \in [1 .. Len(blocks) -> Sizes]
    OBVIOUS
  <2>2. blocks \in Seq(Sizes) => blocks \in [1 .. Len(blocks) -> Nat]
    BY <2>1
  <2> QED
    BY <2>1, <2>2
<1>1. Init => FillInv /\ PacketsFilled
  <2> SUFFICES ASSUME Init PROVE FillInv /\ PacketsFilled
    OBVIOUS
  <2>1. blocks \in Seq(Nat)
    BY <1>0 DEF Init
  <2>2. Bytes(1, 0) = 0
    BY <2>1, Totals DEF Bytes
  <2> QED
    BY <2>2 DEF Init, FillInv, PacketsFilled
<1>2. TypeOK /\ LoopInv /\ FillInv /\ PacketsFilled /\ [Next]_vars
        => FillInv' /\ PacketsFilled'
  <2> SUFFICES ASSUME TypeOK, LoopInv, FillInv, PacketsFilled, [Next]_vars
               PROVE  FillInv' /\ PacketsFilled'
    OBVIOUS
  <2>1. UNCHANGED blocks
    BY DEF Next, SendData, DataTooBig, Push, MakeData, Write, WriteThrows, Return, TakeAckId, WriteAck,
           vars, locals
  <2>2. Total' = Total
    BY <2>1 DEF Total
  <2>3. UNCHANGED packets => PacketsFilled'
    BY <2>1, <2>2 DEF PacketsFilled, Bytes
  <2>4. UNCHANGED <<first, next, payload_size>> /\ pc' # "write" => FillInv'
    BY <2>1, <2>2 DEF FillInv, Bytes
  <2>5. CASE SendData \/ DataTooBig \/ WriteThrows \/ Return
    <3>1. UNCHANGED <<first, next, payload_size, packets>> /\ pc' # "write"
      BY <2>5 DEF SendData, DataTooBig, WriteThrows, Return, locals
    <3> QED
      BY <2>3, <2>4, <3>1
  <2>6. CASE TakeAckId \/ WriteAck \/ UNCHANGED vars
    <3>1. UNCHANGED <<first, next, payload_size, packets, pc>>
      BY <2>6 DEF TakeAckId, WriteAck, vars, locals
    <3> QED
      BY <2>1, <2>2, <2>3, <3>1 DEF FillInv, Bytes
  <2>7. CASE Push
    <3>1. first = first' /\ next' = next + 1 /\ payload_size' = payload_size + blocks[next] /\ pc' = "loop"
      BY <2>7 DEF Push
    <3>2. next \in 1 .. Len(blocks) /\ first \in 1 .. next /\ Len(blocks) \in Nat
      BY <2>7, BlockFacts DEF Push, AtBlock
    <3>3. /\ Total[next] = Total[next - 1] + blocks[next] /\ blocks[next] \in Nat
          /\ Total[next - 1] \in Nat /\ Total[first - 1] \in Nat
      <4>1. next - 1 \in 0 .. Len(blocks) /\ first - 1 \in 0 .. Len(blocks)
        BY <3>2
      <4>2. blocks \in Seq(Nat)
        BY <1>0 DEF TypeOK
      <4>3. blocks[next] \in Nat
        BY <3>2, <4>2
      <4> QED
        BY <3>2, <4>1, <4>2, <4>3, Totals
    <3>4. payload_size' = Bytes(first, next)
      BY <3>1, <3>3 DEF FillInv, Bytes
    <3>5. (next + 1) - 1 = next
      BY <3>2
    <3>6. FillInv'
      BY <2>2, <3>1, <3>4, <3>5 DEF FillInv, Bytes
    <3> QED
      BY <2>3, <2>7, <3>6 DEF Push
  <2>8. CASE MakeData
    <3>1. UNCHANGED <<first, next, payload_size, packets>>
      BY <2>8 DEF MakeData, locals
    <3>2. next <= Len(blocks) => payload_size + blocks[next] > MaxPl
      <4>1. (AtBlock /\ Full) \/ next > Len(blocks)
        BY <2>8 DEF MakeData, FlushDue
      <4> QED
        BY <4>1, BlockFacts DEF Full
    <3>3. FillInv'
      BY <2>1, <2>2, <3>1, <3>2 DEF FillInv, Bytes
    <3> QED
      BY <2>3, <3>1, <3>3
  <2>9. CASE Write
    <3>1. /\ first' = next /\ next' = next /\ payload_size' = 0 /\ pc' = "loop"
          /\ packets' = Append(packets, [from |-> first, to |-> next - 1])
      BY <2>9 DEF Write
    <3>2. first \in Nat /\ next \in Nat /\ first >= 1 /\ first < next /\ next <= Len(blocks) + 1 /\ Len(blocks) \in Nat
      BY <2>9, BlockFacts DEF Write, LoopInv
    <3>3. Total[next - 1] \in Nat
      <4>1. next - 1 \in 0 .. Len(blocks)
        BY <3>2
      <4> QED
        BY <1>0, <4>1, Totals DEF TypeOK
    <3>4. FillInv'
      BY <2>2, <3>1, <3>3 DEF FillInv, Bytes
    <3>5. packets \in Seq([from : Nat, to : Nat])
      BY DEF TypeOK
    <3>6. /\ Len(packets') = Len(packets) + 1 /\ Len(packets) \in Nat
          /\ packets'[Len(packets) + 1] = [from |-> first, to |-> next - 1]
          /\ \A k \in 1 .. Len(packets) : packets'[k] = packets[k]
      BY <3>1, <3>5
    <3>7. /\ Bytes(first, next - 1) <= MaxPl
          /\ next - 1 < Len(blocks) => Bytes(first, next - 1) + blocks[(next - 1) + 1] > MaxPl
      <4>1. payload_size = Bytes(first, next - 1) /\ payload_size <= MaxPl
        BY DEF FillInv, TypeOK
      <4>2. next <= Len(blocks) => payload_size + blocks[next] > MaxPl
        BY <2>9 DEF Write, FillInv
      <4>3. (next - 1) + 1 = next /\ (next - 1 < Len(blocks) => next <= Len(blocks))
        BY <3>2
      <4> QED
        BY <4>1, <4>2, <4>3
    <3>8. ASSUME NEW k \in 1 .. Len(packets')
          PROVE  /\ Bytes(packets'[k].from, packets'[k].to) <= MaxPl
                 /\ packets'[k].to < Len(blocks)
                      => Bytes(packets'[k].from, packets'[k].to) + blocks[packets'[k].to + 1] > MaxPl
      <4>1. CASE k \in 1 .. Len(packets)
        BY <3>6, <4>1 DEF PacketsFilled
      <4>2. CASE k = Len(packets) + 1
        BY <3>6, <3>7, <4>2
      <4> QED
        BY <3>6, <4>1, <4>2
    <3>9. PacketsFilled'
      <4>1. \A from, to : (Bytes(from, to))' = Bytes(from, to)
        BY <2>2 DEF Bytes
      <4>2. ASSUME NEW k \in 1 .. Len(packets')
            PROVE  /\ (Bytes(packets[k].from, packets[k].to))' <= MaxPl
                   /\ packets'[k].to < Len(blocks')
                        => (Bytes(packets[k].from, packets[k].to))' + blocks'[packets'[k].to + 1] > MaxPl
        BY <2>1, <3>8, <4>1, Zenon
      <4> QED
        BY <4>2, Zenon DEF PacketsFilled
    <3> QED
      BY <3>4, <3>9
  <2> QED
    BY <2>5, <2>6, <2>7, <2>8, <2>9 DEF Next
<1> QED
  BY <1>1, <1>2, SendTypeCorrect, LoopInvHolds, PTL DEF Spec

\* No packet is too large and none is written early: the loop flushes the payload before the
\* block that does not fit, and only then.
THEOREM PacketsFilledHolds == Spec => []PacketsFilled
BY FillInvHolds, PTL

-----------------------------------------------------------------------------
(* The checksum, and how its sums add up modulo Byte.                      *)

\* Every number is so many rounds and a rest.
LEMMA Quotient ==
    ASSUME NEW m \in Nat \ {0}, NEW n \in Nat
    PROVE  \E q \in Nat : \E r \in 0 .. m - 1 : n = m * q + r
<1> DEFINE T == {k \in Nat : \E q \in Nat : \E r \in 0 .. m - 1 : k = m * q + r}
<1>1. 0 \in T
  <2>1. 0 = m * 0 + 0 /\ 0 \in Nat /\ 0 \in 0 .. m - 1
    OBVIOUS
  <2> QED
    BY <2>1
<1>2. ASSUME NEW k \in Nat, k \in T PROVE k + 1 \in T
  <2>1. PICK q \in Nat, r \in 0 .. m - 1 : k = m * q + r
    BY <1>2
  <2>2. CASE r + 1 < m
    <3>1. k + 1 = m * q + (r + 1) /\ r + 1 \in 0 .. m - 1
      BY <2>1, <2>2
    <3> QED
      BY <3>1
  <2>3. CASE r = m - 1
    <3>1. k + 1 = m * (q + 1) + 0 /\ q + 1 \in Nat /\ 0 \in 0 .. m - 1
      BY <2>1, <2>3
    <3>2. \E u \in Nat : \E w \in 0 .. m - 1 : k + 1 = m * u + w
      BY <3>1, Zenon
    <3>3. k + 1 \in Nat
      OBVIOUS
    <3> QED
      BY <3>2, <3>3, Zenon
  <2> QED
    BY <2>2, <2>3
<1>3. \A i \in 0 .. n - 1 : i \in T => i + 1 \in T
  <2> HIDE DEF T
  <2> QED
    BY <1>2
<1>4. n \in T
  <2> HIDE DEF T
  <2>1. 0 .. n \subseteq T
    BY <1>1, <1>3, UpTo
  <2> QED
    BY <2>1
<1> QED
  BY <1>4

\* The rest is what % leaves.
LEMMA Remainder ==
    ASSUME NEW m \in Nat \ {0}, NEW q \in Nat, NEW r \in 0 .. m - 1
    PROVE  (m * q + r) % m = r
OBVIOUS

LEMMA ByteIs == Byte \in Nat \ {0}
BY PacketAssumption

\* What compute_crc makes of a sum.
Mod(n) == n % Byte

\* Two numbers are added modulo Byte as their remainders are.
LEMMA AddModulo ==
    ASSUME NEW a \in Nat, NEW b \in Nat
    PROVE  \E r, s \in 0 .. Byte - 1 :
              /\ Mod(a) = r /\ Mod(b) = s
              /\ Mod(a + b) = IF r + s < Byte THEN r + s ELSE r + s - Byte
<1>1. PICK q \in Nat, r \in 0 .. Byte - 1 : a = Byte * q + r
  BY Quotient, ByteIs
<1>2. PICK p \in Nat, s \in 0 .. Byte - 1 : b = Byte * p + s
  BY Quotient, ByteIs
<1>3. Mod(a) = r /\ Mod(b) = s
  BY <1>1, <1>2, Remainder, ByteIs DEF Mod
<1>4. ASSUME r + s < Byte PROVE Mod(a + b) = r + s
  <2>1. a + b = Byte * (q + p) + (r + s) /\ q + p \in Nat /\ r + s \in 0 .. Byte - 1
    BY <1>1, <1>2, <1>4, PacketAssumption
  <2>2. (Byte * (q + p) + (r + s)) % Byte = r + s
    BY <2>1, Remainder, ByteIs
  <2> QED
    BY <2>1, <2>2, Zenon DEF Mod
<1>5. ASSUME ~(r + s < Byte) PROVE Mod(a + b) = r + s - Byte
  <2>1. /\ a + b = Byte * (q + p + 1) + (r + s - Byte)
        /\ q + p + 1 \in Nat /\ r + s - Byte \in 0 .. Byte - 1
    BY <1>1, <1>2, <1>5, PacketAssumption
  <2>2. (Byte * (q + p + 1) + (r + s - Byte)) % Byte = r + s - Byte
    BY <2>1, Remainder, ByteIs
  <2> QED
    BY <2>1, <2>2, Zenon DEF Mod
<1>6. Mod(a + b) = IF r + s < Byte THEN r + s ELSE r + s - Byte
  BY <1>4, <1>5, Zenon
<1> QED
  BY <1>3, <1>6, Zenon

\* What is added to both sums makes no difference; a difference stays one.
LEMMA Cancels ==
    ASSUME NEW a \in Nat, NEW b \in Nat, NEW c \in Nat
    PROVE  Mod(a + c) = Mod(b + c) <=> Mod(a) = Mod(b)
<1>1. PICK r \in 0 .. Byte - 1, s \in 0 .. Byte - 1 :
         /\ Mod(a) = r /\ Mod(c) = s
         /\ Mod(a + c) = IF r + s < Byte THEN r + s ELSE r + s - Byte
  BY AddModulo
<1>2. PICK u \in 0 .. Byte - 1, w \in 0 .. Byte - 1 :
         /\ Mod(b) = u /\ Mod(c) = w
         /\ Mod(b + c) = IF u + w < Byte THEN u + w ELSE u + w - Byte
  BY AddModulo
<1>3. s = w
  BY <1>1, <1>2, Zenon
<1>4. ASSUME NEW x \in 0 .. Byte - 1, NEW y \in 0 .. Byte - 1, NEW z \in 0 .. Byte - 1
      PROVE  (IF x + z < Byte THEN x + z ELSE x + z - Byte)
               = (IF y + z < Byte THEN y + z ELSE y + z - Byte) <=> x = y
  BY PacketAssumption
<1>5. (IF r + s < Byte THEN r + s ELSE r + s - Byte)
        = (IF u + s < Byte THEN u + s ELSE u + s - Byte) <=> r = u
  BY <1>4, Zenon
<1> DEFINE X == IF r + s < Byte THEN r + s ELSE r + s - Byte
           Y == IF u + s < Byte THEN u + s ELSE u + s - Byte
<1>6. Mod(a + c) = X /\ (X = Y <=> r = u)
  BY <1>1, <1>5, Zenon
<1>7. Mod(b + c) = Y
  BY <1>2, <1>3, Zenon
<1> HIDE DEF X, Y
<1> QED
  BY <1>1, <1>2, <1>6, <1>7, Zenon

\* A remainder is its own remainder.
LEMMA Remains ==
    ASSUME NEW a \in Nat
    PROVE  Mod(a) \in Nat /\ Mod(Mod(a)) = Mod(a)
<1>1. PICK q \in Nat, r \in 0 .. Byte - 1 : a = Byte * q + r
  BY Quotient, ByteIs
<1>2. Mod(a) = r
  BY <1>1, Remainder, ByteIs DEF Mod
<1>3. Mod(r) = r /\ r \in Nat
  BY PacketAssumption DEF Mod
<1> QED
  BY <1>2, <1>3, Zenon

\* A sum may be cut in the middle.
LEMMA InnerRemainder ==
    ASSUME NEW a \in Nat, NEW c \in Nat
    PROVE  Mod(Mod(a) + c) = Mod(a + c)
BY Remains, Cancels

\* What is added, if it is less than Byte, is seen.
LEMMA Shifted ==
    ASSUME NEW n \in Nat, NEW d \in 1 .. Byte - 1
    PROVE  Mod(n + d) \in Nat /\ Mod(Mod(n + d)) # Mod(n)
<1>1. d \in Nat /\ n + d \in Nat
  BY PacketAssumption
<1>2. Mod(d) = d
  BY PacketAssumption DEF Mod
<1>3. PICK r \in 0 .. Byte - 1, s \in 0 .. Byte - 1 :
         /\ Mod(n) = r /\ Mod(d) = s
         /\ Mod(n + d) = IF r + s < Byte THEN r + s ELSE r + s - Byte
  BY <1>1, AddModulo
<1>4. Mod(n + d) # Mod(n)
  <2>1. s = d
    BY <1>2, <1>3
  <2>2. (IF r + d < Byte THEN r + d ELSE r + d - Byte) # r
    BY PacketAssumption
  <2> QED
    BY <1>3, <2>1, <2>2
<1>5. Mod(n + d) \in Nat /\ Mod(Mod(n + d)) = Mod(n + d)
  BY <1>1, Remains
<1> QED
  BY <1>4, <1>5

\* The sums that compute_crc goes through.
Sums(v) == CHOOSE f : f = [i \in 0 .. Len(v) |->
             IF i = 0 THEN <<0, 0>>
             ELSE <<(f[i - 1][1] + v[i]) % Byte, (f[i - 1][2] + f[i - 1][1] + v[i]) % Byte>>]

\* The sums exist, so they are what compute_crc computes.
LEMMA SumsAre ==
    ASSUME NEW v, Len(v) \in Nat
    PROVE  Sums(v) = [i \in 0 .. Len(v) |->
             IF i = 0 THEN <<0, 0>>
             ELSE <<(Sums(v)[i - 1][1] + v[i]) % Byte,
                    (Sums(v)[i - 1][2] + Sums(v)[i - 1][1] + v[i]) % Byte>>]
<1> DEFINE N == Len(v)
           After(c, i) == <<(c[1] + v[i]) % Byte, (c[2] + c[1] + v[i]) % Byte>>
           Are(n, f) == f = [i \in 0 .. n |-> IF i = 0 THEN <<0, 0>> ELSE After(f[i - 1], i)]
           T == {n \in 0 .. N : \E f : Are(n, f)}
<1> HIDE DEF After
<1>1. N \in Nat
  OBVIOUS
<1>2. 0 \in T
  <2>1. Are(0, [i \in 0 .. 0 |-> <<0, 0>>])
    OBVIOUS
  <2>2. 0 \in 0 .. N
    BY <1>1
  <2> HIDE DEF Are, N
  <2> QED
    BY <2>1, <2>2
<1>3. ASSUME NEW n \in 0 .. N - 1, n \in T PROVE n + 1 \in T
  <2>1. PICK f : Are(n, f)
    BY <1>3
  <2> DEFINE g == [i \in 0 .. n + 1 |-> IF i = n + 1 THEN After(f[n], n + 1) ELSE f[i]]
  <2>2. ASSUME NEW i \in 0 .. n + 1
        PROVE  g[i] = IF i = 0 THEN <<0, 0>> ELSE After(g[i - 1], i)
    <3>1. CASE i = n + 1
      BY <2>1, <3>1
    <3>2. CASE i \in 0 .. n
      <4>1. f[i] = IF i = 0 THEN <<0, 0>> ELSE After(f[i - 1], i)
        BY <2>1, <3>2
      <4>2. g[i] = f[i] /\ (i # 0 => g[i - 1] = f[i - 1])
        BY <3>2
      <4> QED
        BY <4>1, <4>2
    <3> QED
      BY <3>1, <3>2
  <2>3. Are(n + 1, g)
    BY <2>2
  <2>4. n + 1 \in 0 .. N
    BY <1>1
  <2> HIDE DEF Are, N, g
  <2> QED
    BY <2>3, <2>4
<1>4. N \in T
  <2> HIDE DEF T, N
  <2>1. 0 .. N \subseteq T
    BY <1>1, <1>2, <1>3, UpTo
  <2> QED
    BY <1>1, <2>1
<1>5. \E f : Are(N, f)
  BY <1>4
<1> QED
  BY <1>5 DEF Sums, After

\* The two sums after the first i cells.
FirstSum(v, i)  == Sums(v)[i][1]
SecondSum(v, i) == Sums(v)[i][2]

\* What one more cell does to the sums of compute_crc.
LEMMA SumsOf ==
    ASSUME NEW v \in Seq(Nat)
    PROVE  /\ FirstSum(v, 0) = 0 /\ SecondSum(v, 0) = 0
           /\ \A i \in 0 .. Len(v) : FirstSum(v, i) \in Nat /\ SecondSum(v, i) \in Nat
           /\ \A i \in 1 .. Len(v) :
                 /\ FirstSum(v, i) = Mod(FirstSum(v, i - 1) + v[i])
                 /\ SecondSum(v, i) = Mod(SecondSum(v, i - 1) + FirstSum(v, i - 1) + v[i])
           /\ compute_crc(v) = <<FirstSum(v, Len(v)), SecondSum(v, Len(v))>>
<1> DEFINE N == Len(v)
           T == {i \in 0 .. N : FirstSum(v, i) \in Nat /\ SecondSum(v, i) \in Nat}
<1>1. N \in Nat /\ \A i \in 1 .. N : v[i] \in Nat
  OBVIOUS
<1>2. Sums(v)[0] = <<0, 0>>
  <2>1. 0 \in 0 .. N
    BY <1>1
  <2> QED
    BY <1>1, <2>1, SumsAre
<1>3. ASSUME NEW i \in 1 .. N
      PROVE  Sums(v)[i] = <<Mod(FirstSum(v, i - 1) + v[i]),
                            Mod(SecondSum(v, i - 1) + FirstSum(v, i - 1) + v[i])>>
  <2>1. i \in 0 .. N /\ i # 0
    OBVIOUS
  <2>2. \A j \in 0 .. N : Sums(v)[j] = IF j = 0 THEN <<0, 0>>
             ELSE <<(Sums(v)[j - 1][1] + v[j]) % Byte,
                    (Sums(v)[j - 1][2] + Sums(v)[j - 1][1] + v[j]) % Byte>>
    BY <1>1, SumsAre
  <2> QED
    BY <2>1, <2>2, Zenon DEF FirstSum, SecondSum, Mod
<1>4. FirstSum(v, 0) = 0 /\ SecondSum(v, 0) = 0
  BY <1>2 DEF FirstSum, SecondSum
<1>5. ASSUME NEW i \in 1 .. N
      PROVE  /\ FirstSum(v, i) = Mod(FirstSum(v, i - 1) + v[i])
             /\ SecondSum(v, i) = Mod(SecondSum(v, i - 1) + FirstSum(v, i - 1) + v[i])
             /\ Sums(v)[i] = <<FirstSum(v, i), SecondSum(v, i)>>
  <2> DEFINE a == Mod(FirstSum(v, i - 1) + v[i])
             b == Mod(SecondSum(v, i - 1) + FirstSum(v, i - 1) + v[i])
  <2>1. Sums(v)[i] = <<a, b>>
    BY <1>3
  <2> HIDE DEF a, b
  <2>2. Sums(v)[i][1] = a /\ Sums(v)[i][2] = b
    BY <2>1
  <2> QED
    BY <2>1, <2>2, Zenon DEF FirstSum, SecondSum, a, b
<1>6. 0 \in T
  BY <1>1, <1>4
<1>7. ASSUME NEW i \in 0 .. N - 1, i \in T PROVE i + 1 \in T
  <2>1. i + 1 \in 1 .. N /\ (i + 1) - 1 = i /\ i + 1 \in 0 .. N
    BY <1>1
  <2>2. /\ FirstSum(v, i + 1) = Mod(FirstSum(v, i) + v[i + 1])
        /\ SecondSum(v, i + 1) = Mod(SecondSum(v, i) + FirstSum(v, i) + v[i + 1])
    BY <1>5, <2>1
  <2>3. FirstSum(v, i) \in Nat /\ SecondSum(v, i) \in Nat /\ v[i + 1] \in Nat
    BY <1>1, <1>7, <2>1
  <2>4. FirstSum(v, i) + v[i + 1] \in Nat /\ SecondSum(v, i) + FirstSum(v, i) + v[i + 1] \in Nat
    BY <2>3
  <2>5. FirstSum(v, i + 1) \in Nat /\ SecondSum(v, i + 1) \in Nat
    BY <2>2, <2>4, Remains
  <2> QED
    BY <2>1, <2>5
<1>8. 0 .. N \subseteq T
  <2> HIDE DEF T, N
  <2> QED
    BY <1>1, <1>6, <1>7, UpTo
<1>9. compute_crc(v) = Sums(v)[N]
  BY DEF compute_crc, Sums
<1>10. Sums(v)[N] = <<FirstSum(v, N), SecondSum(v, N)>>
  <2>1. N = 0 \/ N \in 1 .. N
    BY <1>1
  <2> QED
    BY <1>2, <1>4, <1>5, <2>1, Zenon
<1> QED
  BY <1>4, <1>5, <1>8, <1>9, <1>10

\* A CRC is two cells.
LEMMA CrcIsPair ==
    ASSUME NEW v \in Seq(Nat)
    PROVE  /\ compute_crc(v) \in Seq(Nat) /\ Len(compute_crc(v)) = 2
           /\ compute_crc(v) = <<compute_crc(v)[1], compute_crc(v)[2]>>
<1> DEFINE a == FirstSum(v, Len(v))
           b == SecondSum(v, Len(v))
<1>1. a \in Nat /\ b \in Nat
  <2>1. Len(v) \in 0 .. Len(v)
    OBVIOUS
  <2> QED
    BY <2>1, SumsOf
<1>2. compute_crc(v) = <<a, b>>
  BY SumsOf
<1> HIDE DEF a, b
<1> QED
  BY <1>1, <1>2

\* Buffers that begin alike have the same sums so far.
LEMMA SameSoFar ==
    ASSUME NEW x \in Seq(Nat), NEW y \in Seq(Nat), NEW k \in 0 .. Len(x), Len(y) = Len(x),
           \A i \in 1 .. k : x[i] = y[i]
    PROVE  FirstSum(x, k) = FirstSum(y, k) /\ SecondSum(x, k) = SecondSum(y, k)
<1> DEFINE T == {i \in 0 .. k : FirstSum(x, i) = FirstSum(y, i) /\ SecondSum(x, i) = SecondSum(y, i)}
<1>1. k \in Nat /\ Len(x) \in Nat
  OBVIOUS
<1>2. 0 \in T
  BY <1>1, SumsOf
<1>3. ASSUME NEW i \in 0 .. k - 1, i \in T PROVE i + 1 \in T
  <2>1. /\ i + 1 \in 1 .. Len(x) /\ i + 1 \in 1 .. Len(y) /\ (i + 1) - 1 = i
        /\ i + 1 \in 0 .. k /\ i + 1 \in 1 .. k
    BY <1>1
  <2>2. /\ FirstSum(x, i + 1) = Mod(FirstSum(x, i) + x[i + 1])
        /\ SecondSum(x, i + 1) = Mod(SecondSum(x, i) + FirstSum(x, i) + x[i + 1])
    BY <2>1, SumsOf
  <2>3. /\ FirstSum(y, i + 1) = Mod(FirstSum(y, i) + y[i + 1])
        /\ SecondSum(y, i + 1) = Mod(SecondSum(y, i) + FirstSum(y, i) + y[i + 1])
    BY <2>1, SumsOf
  <2>4. x[i + 1] = y[i + 1] /\ FirstSum(x, i) = FirstSum(y, i) /\ SecondSum(x, i) = SecondSum(y, i)
    BY <1>3, <2>1
  <2>5. FirstSum(x, i + 1) = FirstSum(y, i + 1) /\ SecondSum(x, i + 1) = SecondSum(y, i + 1)
    BY <2>2, <2>3, <2>4, Zenon
  <2> QED
    BY <2>1, <2>5
<1>4. k \in T
  <2> HIDE DEF T
  <2>1. 0 .. k \subseteq T
    BY <1>1, <1>2, <1>3, UpTo
  <2> QED
    BY <1>1, <2>1
<1> QED
  BY <1>4

\* A sum is its own remainder.
LEMMA OwnRemainder ==
    ASSUME NEW v \in Seq(Nat), NEW i \in 1 .. Len(v)
    PROVE  Mod(FirstSum(v, i)) = FirstSum(v, i) /\ Mod(SecondSum(v, i)) = SecondSum(v, i)
<1>1. i - 1 \in 0 .. Len(v) /\ v[i] \in Nat
  OBVIOUS
<1>2. FirstSum(v, i - 1) \in Nat /\ SecondSum(v, i - 1) \in Nat
  BY <1>1, SumsOf
<1> DEFINE a == FirstSum(v, i - 1) + v[i]
           b == SecondSum(v, i - 1) + FirstSum(v, i - 1) + v[i]
<1>3. a \in Nat /\ b \in Nat
  BY <1>1, <1>2
<1>4. FirstSum(v, i) = Mod(a) /\ SecondSum(v, i) = Mod(b)
  BY SumsOf
<1> HIDE DEF a, b
<1>5. Mod(Mod(a)) = Mod(a) /\ Mod(Mod(b)) = Mod(b)
  BY <1>3, Remains
<1> QED
  BY <1>4, <1>5, Zenon

\* First sums that are different stay different, as long as the cells are the same.
LEMMA FirstStaysDifferent ==
    ASSUME NEW x \in Seq(Nat), NEW y \in Seq(Nat), Len(y) = Len(x), NEW k \in 0 .. Len(x),
           \A i \in k + 1 .. Len(x) : x[i] = y[i],
           FirstSum(x, k) # FirstSum(y, k), k > 0
    PROVE  FirstSum(x, Len(x)) # FirstSum(y, Len(x))
<1> DEFINE n == Len(x) - k
           T == {i \in 0 .. n : FirstSum(x, k + i) # FirstSum(y, k + i)}
<1>1. k \in Nat /\ Len(x) \in Nat /\ n \in Nat /\ k + n = Len(x) /\ k + 0 = k
  OBVIOUS
<1>2. 0 \in T
  BY <1>1
<1>3. ASSUME NEW i \in 0 .. n - 1, i \in T PROVE i + 1 \in T
  <2> DEFINE j == k + (i + 1)
  <2>1. /\ j \in 1 .. Len(x) /\ j \in 1 .. Len(y) /\ j - 1 = k + i /\ j \in k + 1 .. Len(x)
        /\ k + i \in 1 .. Len(x) /\ k + i \in 0 .. Len(x) /\ i + 1 \in 0 .. n
    BY <1>1
  <2> HIDE DEF j
  <2>2. FirstSum(x, j) = Mod(FirstSum(x, k + i) + x[j])
    BY <2>1, SumsOf
  <2>3. FirstSum(y, j) = Mod(FirstSum(y, k + i) + y[j])
    BY <2>1, SumsOf
  <2>4. x[j] = y[j] /\ x[j] \in Nat
    BY <2>1
  <2>5. FirstSum(x, k + i) \in Nat /\ FirstSum(y, k + i) \in Nat
    BY <2>1, SumsOf
  <2>6. Mod(FirstSum(x, k + i)) # Mod(FirstSum(y, k + i))
    BY <1>3, <2>1, OwnRemainder
  <2>7. Mod(FirstSum(x, k + i) + x[j]) # Mod(FirstSum(y, k + i) + x[j])
    BY <2>4, <2>5, <2>6, Cancels
  <2>8. FirstSum(x, j) # FirstSum(y, j)
    BY <2>2, <2>3, <2>4, <2>7, Zenon
  <2> QED
    BY <2>1, <2>8 DEF j
<1>4. n \in T
  <2> HIDE DEF T, n
  <2>1. 0 .. n \subseteq T
    BY <1>1, <1>2, <1>3, UpTo
  <2> QED
    BY <1>1, <2>1
<1> QED
  BY <1>1, <1>4

\* So do the second sums, when the first are the same.
LEMMA SecondStaysDifferent ==
    ASSUME NEW x \in Seq(Nat), NEW y \in Seq(Nat), Len(y) = Len(x), NEW k \in 1 .. Len(x),
           \A i \in k + 1 .. Len(x) : x[i] = y[i],
           FirstSum(x, k) = FirstSum(y, k), SecondSum(x, k) # SecondSum(y, k)
    PROVE  SecondSum(x, Len(x)) # SecondSum(y, Len(x))
<1> DEFINE n == Len(x) - k
           T == {i \in 0 .. n : /\ FirstSum(x, k + i) = FirstSum(y, k + i)
                                /\ SecondSum(x, k + i) # SecondSum(y, k + i)}
<1>1. k \in Nat /\ Len(x) \in Nat /\ n \in Nat /\ k + n = Len(x) /\ k + 0 = k
  OBVIOUS
<1>2. 0 \in T
  BY <1>1
<1>3. ASSUME NEW i \in 0 .. n - 1, i \in T PROVE i + 1 \in T
  <2> DEFINE j == k + (i + 1)
             c == FirstSum(x, k + i) + x[j]
  <2>1. /\ j \in 1 .. Len(x) /\ j \in 1 .. Len(y) /\ j - 1 = k + i /\ j \in k + 1 .. Len(x)
        /\ k + i \in 1 .. Len(x) /\ k + i \in 0 .. Len(x) /\ i + 1 \in 0 .. n
    BY <1>1
  <2> HIDE DEF j
  <2>2. FirstSum(x, k + i) = FirstSum(y, k + i) /\ SecondSum(x, k + i) # SecondSum(y, k + i)
    BY <1>3
  <2>3. x[j] = y[j] /\ x[j] \in Nat
    BY <2>1
  <2>4. /\ FirstSum(x, k + i) \in Nat
        /\ SecondSum(x, k + i) \in Nat /\ SecondSum(y, k + i) \in Nat
    BY <2>1, SumsOf
  <2>5. c \in Nat
    BY <2>3, <2>4
  <2>6. /\ FirstSum(x, j) = Mod(FirstSum(x, k + i) + x[j])
        /\ SecondSum(x, j) = Mod(SecondSum(x, k + i) + FirstSum(x, k + i) + x[j])
    BY <2>1, SumsOf
  <2>7. /\ FirstSum(y, j) = Mod(FirstSum(y, k + i) + y[j])
        /\ SecondSum(y, j) = Mod(SecondSum(y, k + i) + FirstSum(y, k + i) + y[j])
    BY <2>1, SumsOf
  <2>8. FirstSum(x, j) = FirstSum(y, j)
    BY <2>2, <2>3, <2>6, <2>7, Zenon
  <2>9. Mod(SecondSum(x, k + i)) # Mod(SecondSum(y, k + i))
    BY <2>1, <2>2, OwnRemainder
  <2>10. Mod(SecondSum(x, k + i) + c) # Mod(SecondSum(y, k + i) + c)
    <3> DEFINE a == SecondSum(x, k + i)
               b == SecondSum(y, k + i)
    <3>1. a \in Nat /\ b \in Nat /\ c \in Nat /\ Mod(a) # Mod(b)
      BY <2>4, <2>5, <2>9
    <3> HIDE DEF a, b, c
    <3>2. Mod(a + c) # Mod(b + c)
      BY <3>1, Cancels
    <3> QED
      BY <3>2 DEF a, b
  <2>11. \A a, b, d \in Nat : a + b + d = a + (b + d)
    OBVIOUS
  <2>12. /\ SecondSum(x, k + i) + FirstSum(x, k + i) + x[j] = SecondSum(x, k + i) + c
         /\ SecondSum(y, k + i) + FirstSum(x, k + i) + x[j] = SecondSum(y, k + i) + c
    BY <2>3, <2>4, <2>11, Zenon
  <2>13. SecondSum(x, j) # SecondSum(y, j)
    BY <2>2, <2>3, <2>6, <2>7, <2>10, <2>12, Zenon
  <2> QED
    BY <2>1, <2>8, <2>13 DEF j
<1>4. n \in T
  <2> HIDE DEF T, n
  <2>1. 0 .. n \subseteq T
    BY <1>1, <1>2, <1>3, UpTo
  <2> QED
    BY <1>1, <2>1
<1> QED
  BY <1>1, <1>4

\* compute_crc tells two buffers apart when one cell is not the same: by the first sum, and by
\* the second as well if it is the last.
LEMMA OneCellTold ==
    ASSUME NEW x \in Seq(Nat), NEW y \in Seq(Nat), Len(y) = Len(x), NEW k \in 1 .. Len(x),
           Mod(x[k]) # Mod(y[k]), \A i \in 1 .. Len(x) : i # k => x[i] = y[i]
    PROVE  /\ compute_crc(x) # compute_crc(y)
           /\ k = Len(x) => compute_crc(x)[2] # compute_crc(y)[2]
<1>1. k \in Nat /\ Len(x) \in Nat /\ k - 1 \in 0 .. Len(x) /\ k \in 1 .. Len(y) /\ k \in 0 .. Len(x)
      /\ k > 0 /\ x[k] \in Nat /\ y[k] \in Nat
  OBVIOUS
<1>2. FirstSum(x, k - 1) = FirstSum(y, k - 1) /\ SecondSum(x, k - 1) = SecondSum(y, k - 1)
  <2>1. \A i \in 1 .. k - 1 : i \in 1 .. Len(x) /\ i # k
    BY <1>1
  <2>2. \A i \in 1 .. k - 1 : x[i] = y[i]
    BY <2>1
  <2> QED
    BY <1>1, <2>2, SameSoFar
<1> DEFINE a == FirstSum(x, k - 1)
           b == SecondSum(x, k - 1)
<1>3. a \in Nat /\ b \in Nat
  BY <1>1, SumsOf
<1>4. FirstSum(x, k) = Mod(a + x[k]) /\ SecondSum(x, k) = Mod(b + a + x[k])
  BY SumsOf
<1>5. FirstSum(y, k) = Mod(a + y[k]) /\ SecondSum(y, k) = Mod(b + a + y[k])
  BY <1>1, <1>2, SumsOf
<1> HIDE DEF a, b
<1>6. Mod(x[k] + a) # Mod(y[k] + a) /\ Mod(x[k] + (b + a)) # Mod(y[k] + (b + a))
  <2> DEFINE c == b + a
             m == x[k]
             n == y[k]
  <2>1. c \in Nat /\ m \in Nat /\ n \in Nat /\ Mod(m) # Mod(n)
    BY <1>1, <1>3
  <2> HIDE DEF c, m, n
  <2>2. Mod(m + a) # Mod(n + a)
    BY <1>3, <2>1, Cancels
  <2>3. Mod(m + c) # Mod(n + c)
    BY <2>1, Cancels
  <2> QED
    BY <2>2, <2>3 DEF c, m, n
<1>7. FirstSum(x, k) # FirstSum(y, k) /\ SecondSum(x, k) # SecondSum(y, k)
  <2>1. \A u, c \in Nat : u + c = c + u
    OBVIOUS
  <2>2. b + a \in Nat
    BY <1>3
  <2>3. /\ x[k] + a = a + x[k] /\ y[k] + a = a + y[k]
        /\ x[k] + (b + a) = b + a + x[k] /\ y[k] + (b + a) = b + a + y[k]
    BY <1>1, <1>3, <2>1, <2>2, Zenon
  <2> QED
    BY <1>4, <1>5, <1>6, <2>3, Zenon
<1>8. \A i \in k + 1 .. Len(x) : x[i] = y[i]
  <2>1. \A i \in k + 1 .. Len(x) : i \in 1 .. Len(x) /\ i # k
    BY <1>1
  <2> QED
    BY <2>1
<1>9. FirstSum(x, Len(x)) # FirstSum(y, Len(x))
  BY <1>1, <1>7, <1>8, FirstStaysDifferent
<1> DEFINE p == FirstSum(x, Len(x))
           q == SecondSum(x, Len(x))
           r == FirstSum(y, Len(x))
           s == SecondSum(y, Len(x))
<1>10. compute_crc(x) = <<p, q>> /\ compute_crc(y) = <<r, s>>
  BY SumsOf
<1>11. p # r /\ (k = Len(x) => q # s)
  BY <1>7, <1>9
<1> HIDE DEF p, q, r, s
<1> QED
  BY <1>10, <1>11

\* The sums two cells on, each as one sum modulo Byte.
LEMMA TwoCells ==
    ASSUME NEW v \in Seq(Nat), NEW k \in 1 .. Len(v) - 1
    PROVE  LET a == FirstSum(v, k - 1)
               b == SecondSum(v, k - 1)
               u == v[k]
               w == v[k + 1]
           IN  /\ FirstSum(v, k + 1) = Mod(a + u + w)
               /\ SecondSum(v, k + 1) = Mod(u + (b + a + a + u + w))
<1> DEFINE a == FirstSum(v, k - 1)
           b == SecondSum(v, k - 1)
           u == v[k]
           w == v[k + 1]
           f == FirstSum(v, k)
           g == SecondSum(v, k)
           p == a + u
           q == b + a + u
<1>1. /\ k \in 1 .. Len(v) /\ k + 1 \in 1 .. Len(v) /\ k - 1 \in 0 .. Len(v) /\ (k + 1) - 1 = k
      /\ k \in 0 .. Len(v)
  OBVIOUS
<1>2. a \in Nat /\ b \in Nat /\ u \in Nat /\ w \in Nat
  <2>1. u \in Nat /\ w \in Nat
    BY <1>1
  <2>2. a \in Nat /\ b \in Nat
    BY <1>1, SumsOf, Zenon
  <2> QED
    BY <2>1, <2>2
<1>3. f = Mod(p) /\ g = Mod(q)
  BY <1>1, SumsOf, Zenon
<1>4. FirstSum(v, k + 1) = Mod(f + w) /\ SecondSum(v, k + 1) = Mod(g + f + w)
  <2>1. /\ FirstSum(v, k + 1) = Mod(FirstSum(v, (k + 1) - 1) + w)
        /\ SecondSum(v, k + 1) = Mod(SecondSum(v, (k + 1) - 1) + FirstSum(v, (k + 1) - 1) + w)
    BY <1>1, SumsOf, Zenon
  <2> QED
    BY <1>1, <2>1
<1>5. f \in Nat /\ g \in Nat
  BY <1>1, SumsOf
<1> HIDE DEF a, b, u, w, f, g
<1>6. /\ p \in Nat /\ q \in Nat
      /\ p + (q + w) = u + (b + a + a + u + w) /\ p + w = a + u + w
  BY <1>2
<1> HIDE DEF p, q
<1>7. ASSUME NEW c \in Nat PROVE Mod(f + c) = Mod(p + c) /\ Mod(g + c) = Mod(q + c)
  BY <1>3, <1>6, InnerRemainder
<1>8. f + w \in Nat /\ q + w \in Nat
  BY <1>2, <1>5, <1>6
<1>9. Mod(g + (f + w)) = Mod(q + (f + w)) /\ Mod(f + (q + w)) = Mod(p + (q + w))
  BY <1>7, <1>8, Zenon
<1>10. g + f + w = g + (f + w) /\ q + (f + w) = f + (q + w)
  BY <1>2, <1>5, <1>6
<1>11. Mod(g + f + w) = Mod(u + (b + a + a + u + w))
  BY <1>6, <1>9, <1>10, Zenon
<1>12. Mod(f + w) = Mod(a + u + w)
  BY <1>2, <1>6, <1>7, Zenon
<1> QED
  BY <1>4, <1>11, <1>12, Zenon DEF a, b, u, w

\* The second sum tells the buffers apart when two neighbours have changed places.
LEMMA SwapTold ==
    ASSUME NEW x \in Seq(Nat), NEW y \in Seq(Nat), Len(y) = Len(x), NEW k \in 1 .. Len(x) - 1,
           Mod(x[k]) # Mod(x[k + 1]), y[k] = x[k + 1], y[k + 1] = x[k],
           \A i \in 1 .. Len(x) : i # k /\ i # k + 1 => x[i] = y[i]
    PROVE  compute_crc(x) # compute_crc(y)
<1> DEFINE m == x[k]
           n == x[k + 1]
           a == FirstSum(x, k - 1)
           b == SecondSum(x, k - 1)
<1>1. /\ k \in Nat /\ Len(x) \in Nat /\ k - 1 \in 0 .. Len(x) /\ k \in 1 .. Len(x) /\ k + 1 \in 1 .. Len(x)
      /\ k \in 1 .. Len(y) /\ k + 1 \in 1 .. Len(y) /\ (k + 1) - 1 = k
  OBVIOUS
<1>2. m \in Nat /\ n \in Nat
  BY <1>1
<1>3. FirstSum(y, k - 1) = a /\ SecondSum(y, k - 1) = b
  <2>1. \A i \in 1 .. k - 1 : i \in 1 .. Len(x) /\ i # k /\ i # k + 1
    BY <1>1
  <2>2. \A i \in 1 .. k - 1 : x[i] = y[i]
    BY <2>1
  <2> QED
    BY <1>1, <2>2, SameSoFar
<1>4. a \in Nat /\ b \in Nat
  BY <1>1, SumsOf
<1> HIDE DEF a, b, m, n
<1> DEFINE c == b + a + a + m + n
<1>8. c \in Nat /\ b + a + a + n + m = c /\ a + n + m = a + m + n
  BY <1>2, <1>4
<1>9. /\ FirstSum(x, k + 1) = Mod(a + m + n)
      /\ SecondSum(x, k + 1) = Mod(m + (b + a + a + m + n))
  BY TwoCells, Zenon DEF a, b, m, n
<1>7. /\ FirstSum(y, k + 1) = Mod(a + n + m)
      /\ SecondSum(y, k + 1) = Mod(n + (b + a + a + n + m))
  <2>1. n = y[k] /\ m = y[k + 1] /\ k \in 1 .. Len(y) - 1
    BY DEF m, n
  <2> QED
    BY <1>3, <2>1, TwoCells, Zenon
<1>10. FirstSum(x, k + 1) = FirstSum(y, k + 1)
  BY <1>7, <1>8, <1>9, Zenon
<1>11. SecondSum(x, k + 1) = Mod(m + c) /\ SecondSum(y, k + 1) = Mod(n + c)
  BY <1>7, <1>8, <1>9, Zenon DEF c
<1>12. Mod(m) # Mod(n)
  BY DEF m, n
<1> HIDE DEF c
<1>13. SecondSum(x, k + 1) # SecondSum(y, k + 1)
  <2>1. Mod(m + c) # Mod(n + c)
    BY <1>2, <1>8, <1>12, Cancels
  <2> QED
    BY <1>11, <2>1, Zenon
<1>14. \A i \in (k + 1) + 1 .. Len(x) : x[i] = y[i]
  <2>1. \A i \in (k + 1) + 1 .. Len(x) : i \in 1 .. Len(x) /\ i # k /\ i # k + 1
    BY <1>1
  <2> QED
    BY <2>1
<1>15. SecondSum(x, Len(x)) # SecondSum(y, Len(x))
  BY <1>1, <1>10, <1>13, <1>14, SecondStaysDifferent
<1> DEFINE p == FirstSum(x, Len(x))
           q == SecondSum(x, Len(x))
           r == FirstSum(y, Len(x))
           s == SecondSum(y, Len(x))
<1>16. compute_crc(x) = <<p, q>> /\ compute_crc(y) = <<r, s>>
  BY SumsOf
<1>17. q # s
  BY <1>15
<1> HIDE DEF p, q, r, s
<1> QED
  BY <1>16, <1>17

-----------------------------------------------------------------------------
(* Sequences.                                                              *)

\* What the cells of two joined buffers are.
LEMMA Joined ==
    ASSUME NEW S, NEW x \in Seq(S), NEW y \in Seq(S)
    PROVE  /\ x \o y \in Seq(S) /\ Len(x \o y) = Len(x) + Len(y)
           /\ \A i \in 1 .. Len(x) : (x \o y)[i] = x[i]
           /\ \A i \in 1 .. Len(y) : (x \o y)[Len(x) + i] = y[i]
OBVIOUS

\* What a part of a buffer holds.
LEMMA CutOut ==
    ASSUME NEW S, NEW x \in Seq(S), NEW a \in Nat, NEW n \in Nat, a + n <= Len(x)
    PROVE  /\ SubSeq(x, a + 1, a + n) \in Seq(S) /\ Len(SubSeq(x, a + 1, a + n)) = n
           /\ \A i \in 1 .. n : SubSeq(x, a + 1, a + n)[i] = x[a + i]
OBVIOUS

\* Two sequences with the same cells are the same.
LEMMA SameSequence ==
    ASSUME NEW S, NEW x \in Seq(S), NEW y \in Seq(S), Len(x) = Len(y),
           \A i \in 1 .. Len(x) : x[i] = y[i]
    PROVE  x = y
OBVIOUS

\* A sequence from one place on is what stands there and what follows.
LEMMA OneBefore ==
    ASSUME NEW S, NEW x \in Seq(S), NEW k \in 1 .. Len(x)
    PROVE  <<x[k]>> \o SubSeq(x, k + 1, Len(x)) = SubSeq(x, k, Len(x))
<1> DEFINE n == Len(x) - k
           u == SubSeq(x, k + 1, k + n)
           w == SubSeq(x, (k - 1) + 1, (k - 1) + (n + 1))
           v == <<x[k]>>
<1>1. /\ n \in Nat /\ k \in Nat /\ k - 1 \in Nat /\ n + 1 \in Nat /\ k + n = Len(x) /\ (k - 1) + 1 = k
      /\ (k - 1) + (n + 1) = Len(x)
  OBVIOUS
<1>2. x[k] \in S /\ v \in Seq(S) /\ Len(v) = 1 /\ v[1] = x[k]
  OBVIOUS
<1> HIDE DEF n, v
<1>3. u \in Seq(S) /\ Len(u) = n /\ \A i \in 1 .. n : u[i] = x[k + i]
  BY <1>1, CutOut
<1>4. w \in Seq(S) /\ Len(w) = n + 1 /\ \A i \in 1 .. n + 1 : w[i] = x[(k - 1) + i]
  BY <1>1, CutOut
<1>5. u = SubSeq(x, k + 1, Len(x)) /\ w = SubSeq(x, k, Len(x))
  BY <1>1
<1> HIDE DEF u, w
<1>6. /\ v \o u \in Seq(S) /\ Len(v \o u) = Len(v) + Len(u)
      /\ \A i \in 1 .. Len(v) : (v \o u)[i] = v[i]
      /\ \A i \in 1 .. Len(u) : (v \o u)[Len(v) + i] = u[i]
  <2>1. v \in Seq(S) /\ u \in Seq(S)
    BY <1>2, <1>3
  <2>2. v \o u \in Seq(S) /\ Len(v \o u) = Len(v) + Len(u)
    BY <2>1, Joined
  <2>3. ASSUME NEW i \in 1 .. Len(v) PROVE (v \o u)[i] = v[i]
    BY <2>1, <2>3, Joined
  <2>4. ASSUME NEW i \in 1 .. Len(u) PROVE (v \o u)[Len(v) + i] = u[i]
    BY <2>1, <2>4, Joined
  <2> QED
    BY <2>2, <2>3, <2>4
<1>7. v \o u \in Seq(S) /\ Len(v \o u) = n + 1
  BY <1>1, <1>2, <1>3, <1>6
<1>8. ASSUME NEW i \in 1 .. n + 1 PROVE (v \o u)[i] = w[i]
  <2>1. CASE i = 1
    <3>1. 1 \in 1 .. Len(v) /\ 1 \in 1 .. n + 1
      BY <1>1, <1>2
    <3>2. (v \o u)[1] = v[1]
      BY <1>6, <3>1
    <3>3. w[1] = x[(k - 1) + 1]
      BY <1>4, <3>1
    <3> QED
      BY <1>1, <1>2, <2>1, <3>2, <3>3
  <2>2. CASE i \in 2 .. n + 1
    <3>1. i - 1 \in 1 .. n /\ 1 + (i - 1) = i /\ k + (i - 1) = (k - 1) + i
      BY <1>1, <2>2
    <3>2. (v \o u)[Len(v) + (i - 1)] = u[i - 1]
      BY <1>3, <1>6, <3>1
    <3> QED
      BY <1>2, <1>3, <1>4, <3>1, <3>2
  <2>3. i = 1 \/ i \in 2 .. n + 1
    BY <1>1
  <2> QED
    BY <2>1, <2>2, <2>3
<1>9. v \o u = w
  BY <1>4, <1>7, <1>8, SameSequence
<1> QED
  BY <1>5, <1>9 DEF v

\* A cell of a buffer is a number.
LEMMA CellIn == ASSUME NEW x \in Seq(Nat), NEW i \in 1 .. Len(x) PROVE x[i] \in Nat
OBVIOUS

\* A part of a part of a buffer.
LEMMA CutAgain ==
    ASSUME NEW x \in Seq(Nat), NEW a \in Nat, NEW n \in Nat, a + n <= Len(x),
           NEW b \in Nat, NEW m \in Nat, b + m <= n
    PROVE  SubSeq(SubSeq(x, a + 1, a + n), b + 1, b + m) = SubSeq(x, a + b + 1, a + b + m)
<1> DEFINE y == SubSeq(x, a + 1, a + n)
           z == SubSeq(y, b + 1, b + m)
           c == a + b
           w == SubSeq(x, c + 1, c + m)
<1>1. y \in Seq(Nat) /\ Len(y) = n /\ \A i \in 1 .. n : y[i] = x[a + i]
  BY CutOut
<1> HIDE DEF y
<1>2. z \in Seq(Nat) /\ Len(z) = m /\ \A i \in 1 .. m : z[i] = y[b + i]
  BY <1>1, CutOut
<1> HIDE DEF z
<1>3. c \in Nat /\ c + m <= Len(x) /\ \A i \in 1 .. m : b + i \in 1 .. n /\ a + (b + i) = c + i
  OBVIOUS
<1>4. w = SubSeq(x, a + b + 1, a + b + m)
  OBVIOUS
<1> HIDE DEF c
<1>5. w \in Seq(Nat) /\ Len(w) = m /\ \A i \in 1 .. m : w[i] = x[c + i]
  <2>1. x \in Seq(Nat) /\ c \in Nat /\ m \in Nat /\ c + m <= Len(x)
    BY <1>3
  <2> QED
    BY <2>1, CutOut
<1> HIDE DEF w
<1>6. \A i \in 1 .. m : z[i] = w[i]
  BY <1>1, <1>2, <1>3, <1>5
<1>7. z = w
  BY <1>2, <1>5, <1>6, SameSequence
<1> QED
  BY <1>4, <1>7 DEF z, y

\* Two neighbouring cells.
LEMMA PairAt ==
    ASSUME NEW x \in Seq(Nat), NEW a \in Nat, a + 2 <= Len(x)
    PROVE  SubSeq(x, a + 1, a + 2) = <<x[a + 1], x[a + 2]>>
<1> DEFINE y == SubSeq(x, a + 1, a + 2)
<1>1. y \in Seq(Nat) /\ Len(y) = 2 /\ \A i \in 1 .. 2 : y[i] = x[a + i]
  BY CutOut
<1> HIDE DEF y
<1>2. y[1] = x[a + 1] /\ y[2] = x[a + 2]
  BY <1>1
<1>3. y = <<y[1], y[2]>>
  BY <1>1
<1> QED
  BY <1>2, <1>3 DEF y

-----------------------------------------------------------------------------
(* The payload.                                                            *)

\* The payload after each of its blocks.
Payloads(bs) ==
    CHOOSE f : f = [i \in 0 .. Len(bs) |-> IF i = 0 THEN <<>> ELSE f[i - 1] \o make_block(bs[i])]

\* The payloads exist: each adds one block to the one before.
LEMMA PayloadsAre ==
    ASSUME NEW bs, Len(bs) \in Nat
    PROVE  \A i \in 0 .. Len(bs) :
              Payloads(bs)[i] = IF i = 0 THEN <<>> ELSE Payloads(bs)[i - 1] \o make_block(bs[i])
<1> DEFINE N == Len(bs)
           After(p, i) == p \o make_block(bs[i])
           Are(n, f) == f = [i \in 0 .. n |-> IF i = 0 THEN <<>> ELSE After(f[i - 1], i)]
           T == {n \in 0 .. N : \E f : Are(n, f)}
<1> HIDE DEF After
<1>1. N \in Nat
  OBVIOUS
<1>2. 0 \in T
  <2>1. Are(0, [i \in 0 .. 0 |-> <<>>])
    OBVIOUS
  <2>2. 0 \in 0 .. N
    BY <1>1
  <2> HIDE DEF Are, N
  <2> QED
    BY <2>1, <2>2
<1>3. ASSUME NEW n \in 0 .. N - 1, n \in T PROVE n + 1 \in T
  <2>1. PICK f : Are(n, f)
    BY <1>3
  <2> DEFINE g == [i \in 0 .. n + 1 |-> IF i = n + 1 THEN After(f[n], n + 1) ELSE f[i]]
  <2>2. ASSUME NEW i \in 0 .. n + 1
        PROVE  g[i] = IF i = 0 THEN <<>> ELSE After(g[i - 1], i)
    <3>1. CASE i = n + 1
      BY <2>1, <3>1
    <3>2. CASE i \in 0 .. n
      <4>1. f[i] = IF i = 0 THEN <<>> ELSE After(f[i - 1], i)
        BY <2>1, <3>2
      <4>2. g[i] = f[i] /\ (i # 0 => g[i - 1] = f[i - 1])
        BY <3>2
      <4> QED
        BY <4>1, <4>2
    <3> QED
      BY <3>1, <3>2
  <2>3. Are(n + 1, g)
    BY <2>2
  <2>4. n + 1 \in 0 .. N
    BY <1>1
  <2> HIDE DEF Are, N, g
  <2> QED
    BY <2>3, <2>4
<1>4. N \in T
  <2> HIDE DEF T, N
  <2>1. 0 .. N \subseteq T
    BY <1>1, <1>2, <1>3, UpTo
  <2> QED
    BY <1>1, <2>1
<1>5. \E f : Are(N, f)
  BY <1>4
<1>6. \E f : f = [i \in 0 .. Len(bs) |-> IF i = 0 THEN <<>> ELSE f[i - 1] \o make_block(bs[i])]
  BY <1>5, Zenon DEF After
<1>7. Payloads(bs) = [i \in 0 .. Len(bs) |->
                        IF i = 0 THEN <<>> ELSE Payloads(bs)[i - 1] \o make_block(bs[i])]
  BY <1>6, Zenon DEF Payloads
<1> QED
  BY <1>7, Zenon

\* Blocks that BHeader can describe.
BlockSeq == {bs \in Seq([type : Nat, data : Seq(Nat)]) : \A i \in DOMAIN bs : Len(bs[i].data) < Word}

\* What the blocks of a packet are.
LEMMA BlockOf ==
    ASSUME NEW bs \in BlockSeq
    PROVE  /\ Len(bs) \in Nat
           /\ \A i \in 1 .. Len(bs) : bs[i] \in [type : Nat, data : Seq(Nat)] /\ Len(bs[i].data) < Word
<1>1. bs \in Seq([type : Nat, data : Seq(Nat)]) /\ \A i \in DOMAIN bs : Len(bs[i].data) < Word
  BY DEF BlockSeq
<1> DEFINE B == [type : Nat, data : Seq(Nat)]
<1>2. bs \in Seq(B)
  BY <1>1
<1> HIDE DEF B
<1>3. Len(bs) \in Nat /\ DOMAIN bs = 1 .. Len(bs)
  BY <1>2
<1>4. \A i \in 1 .. Len(bs) : bs[i] \in B
  BY <1>2
<1> QED
  BY <1>1, <1>3, <1>4 DEF B

\* A block is its header and its data; the header holds the length when it can.
LEMMA MadeBlock ==
    ASSUME NEW b \in [type : Nat, data : Seq(Nat)], Len(b.data) < Word
    PROVE  /\ make_block(b) \in Seq(Nat) /\ Len(make_block(b)) = Len(b.data) + 2
           /\ make_block(b)[1] = b.type /\ make_block(b)[2] = Len(b.data)
           /\ \A i \in 1 .. Len(b.data) : make_block(b)[i + 2] = b.data[i]
<1>1. b.type \in Nat /\ b.data \in Seq(Nat) /\ Len(b.data) \in Nat
  OBVIOUS
<1>2. Len(b.data) % Word = Len(b.data)
  BY <1>1, PacketAssumption
<1>3. <<b.type, Len(b.data)>> \in Seq(Nat)
  BY <1>1
<1>4. make_block(b) = <<b.type, Len(b.data)>> \o b.data
  BY <1>2 DEF make_block
<1> QED
  BY <1>1, <1>3, <1>4

\* The payload grows by the block that make_payload has come to.
LEMMA PayloadStep ==
    ASSUME NEW bs \in BlockSeq
    PROVE  /\ Payloads(bs)[0] = <<>>
           /\ \A i \in 1 .. Len(bs) :
                 /\ make_block(bs[i]) \in Seq(Nat)
                 /\ Payloads(bs)[i] = Payloads(bs)[i - 1] \o make_block(bs[i])
           /\ make_payload(bs) = Payloads(bs)[Len(bs)]
<1>1. Len(bs) \in Nat
  BY BlockOf
<1>2. Payloads(bs)[0] = <<>>
  <2>1. 0 \in 0 .. Len(bs)
    BY <1>1
  <2> QED
    BY <1>1, <2>1, PayloadsAre
<1>3. \A i \in 1 .. Len(bs) : Payloads(bs)[i] = Payloads(bs)[i - 1] \o make_block(bs[i])
  <2>1. \A i \in 1 .. Len(bs) : i \in 0 .. Len(bs) /\ i # 0
    BY <1>1
  <2> QED
    BY <1>1, <2>1, PayloadsAre
<1>4. make_payload(bs) = Payloads(bs)[Len(bs)]
  BY DEF make_payload, Payloads
<1>5. \A i \in 1 .. Len(bs) : make_block(bs[i]) \in Seq(Nat)
  BY BlockOf, MadeBlock
<1> QED
  BY <1>2, <1>3, <1>4, <1>5

\* It is a buffer after every block.
LEMMA PayloadsType ==
    ASSUME NEW bs \in BlockSeq
    PROVE  \A i \in 0 .. Len(bs) : Payloads(bs)[i] \in Seq(Nat)
<1> DEFINE T == {i \in 0 .. Len(bs) : Payloads(bs)[i] \in Seq(Nat)}
<1>1. Len(bs) \in Nat
  BY BlockOf
<1>2. 0 \in T
  <2>1. <<>> \in Seq(Nat) /\ 0 \in 0 .. Len(bs)
    BY <1>1
  <2> QED
    BY <2>1, PayloadStep
<1>3. ASSUME NEW i \in 0 .. Len(bs) - 1, i \in T PROVE i + 1 \in T
  <2>1. i + 1 \in 1 .. Len(bs) /\ (i + 1) - 1 = i /\ i + 1 \in 0 .. Len(bs)
    BY <1>1
  <2>2. make_block(bs[i + 1]) \in Seq(Nat) /\ Payloads(bs)[i + 1] = Payloads(bs)[i] \o make_block(bs[i + 1])
    BY <2>1, PayloadStep
  <2>3. \A x, y \in Seq(Nat) : x \o y \in Seq(Nat)
    OBVIOUS
  <2> QED
    BY <1>3, <2>1, <2>2, <2>3
<1>4. 0 .. Len(bs) \subseteq T
  <2> HIDE DEF T
  <2> QED
    BY <1>1, <1>2, <1>3, UpTo
<1> QED
  BY <1>4

\* What is put behind a payload changes nothing in it.
LEMMA PayloadPrefix ==
    ASSUME NEW bs \in BlockSeq, NEW k \in 0 .. Len(bs)
    PROVE  /\ Len(Payloads(bs)[k]) <= Len(make_payload(bs))
           /\ \A j \in 1 .. Len(Payloads(bs)[k]) : make_payload(bs)[j] = Payloads(bs)[k][j]
<1> DEFINE P == Payloads(bs)
           Prefix(x, y) == Len(x) <= Len(y) /\ \A j \in 1 .. Len(x) : y[j] = x[j]
           T == {n \in 0 .. Len(bs) : k <= n => Prefix(P[k], P[n])}
<1>1. Len(bs) \in Nat /\ k \in Nat
  BY BlockOf
<1>2. \A x \in Seq(Nat) : Prefix(x, x)
  OBVIOUS
<1>3. ASSUME NEW x \in Seq(Nat), NEW y \in Seq(Nat), NEW z \in Seq(Nat), Prefix(x, y)
      PROVE  Prefix(x, y \o z)
  <2>1. Len(y \o z) = Len(y) + Len(z) /\ Len(x) \in Nat /\ Len(y) \in Nat /\ Len(z) \in Nat
    BY <1>3
  <2>2. \A j \in 1 .. Len(y) : (y \o z)[j] = y[j]
    BY <1>3
  <2>3. Len(x) <= Len(y) /\ \A j \in 1 .. Len(x) : y[j] = x[j]
    BY <1>3
  <2> QED
    BY <2>1, <2>2, <2>3
<1>4. \A i \in 0 .. Len(bs) : P[i] \in Seq(Nat)
  BY PayloadsType
<1> HIDE DEF P, Prefix
<1>5. 0 \in T
  <2>1. k <= 0 => k = 0
    BY <1>1
  <2>2. 0 \in 0 .. Len(bs)
    BY <1>1
  <2> QED
    BY <1>2, <1>4, <2>1, <2>2
<1>6. ASSUME NEW n \in 0 .. Len(bs) - 1, n \in T PROVE n + 1 \in T
  <2>1. n + 1 \in 1 .. Len(bs) /\ (n + 1) - 1 = n /\ n + 1 \in 0 .. Len(bs) /\ n \in 0 .. Len(bs)
    BY <1>1
  <2>2. make_block(bs[n + 1]) \in Seq(Nat) /\ P[n + 1] = P[n] \o make_block(bs[n + 1])
    BY <2>1, PayloadStep DEF P
  <2>3. CASE k <= n
    <3>1. Prefix(P[k], P[n + 1])
      BY <1>3, <1>4, <1>6, <2>1, <2>2, <2>3
    <3> QED
      BY <2>1, <3>1
  <2>4. CASE ~(k <= n)
    <3>1. k <= n + 1 => k = n + 1
      BY <1>1, <2>4
    <3> QED
      BY <1>2, <1>4, <2>1, <3>1
  <2> QED
    BY <2>3, <2>4
<1>7. Len(bs) \in T
  <2> HIDE DEF T
  <2>1. 0 .. Len(bs) \subseteq T
    BY <1>1, <1>5, <1>6, UpTo
  <2> QED
    BY <1>1, <2>1
<1>8. Prefix(P[k], make_payload(bs))
  <2>1. k <= Len(bs)
    BY <1>1
  <2>2. make_payload(bs) = P[Len(bs)]
    BY PayloadStep DEF P
  <2> QED
    BY <1>7, <2>1, <2>2
<1> QED
  BY <1>8 DEF P, Prefix

-----------------------------------------------------------------------------
(* Reading the blocks of a payload.                                        *)

\* The lists of blocks that blocks_of goes through, from the end of the payload on.
Ends(p, i)    == i + 1 > Len(p) \/ i + 1 + p[i + 1] > Len(p)
BlockIn(p, i) == [type |-> p[i], data |-> Cells(p, i + 2, p[i + 1])]
Rests(p) ==
    CHOOSE f : f = [i \in 1 .. Len(p) + 1 |->
        IF i + 1 > Len(p) \/ i + 1 + p[i + 1] > Len(p) THEN <<>>
        ELSE <<[type |-> p[i], data |-> Cells(p, i + 2, p[i + 1])]>> \o f[i + 2 + p[i + 1]]]

\* The rests exist: blocks() reads one block and goes on behind it.
LEMMA RestsAre ==
    ASSUME NEW p \in Seq(Nat)
    PROVE  \A i \in 1 .. Len(p) + 1 :
              Rests(p)[i] = IF Ends(p, i) THEN <<>> ELSE <<BlockIn(p, i)>> \o Rests(p)[i + 2 + p[i + 1]]
<1> DEFINE L == Len(p)
           With(i, rest) == <<BlockIn(p, i)>> \o rest
           Are(n, f) == f = [i \in L + 1 - n .. L + 1 |->
                                IF Ends(p, i) THEN <<>> ELSE With(i, f[i + 2 + p[i + 1]])]
           T == {n \in 0 .. L : \E f : Are(n, f)}
<1> HIDE DEF With
<1>1. L \in Nat /\ \A i \in 1 .. L : p[i] \in Nat
  OBVIOUS
<1>2. ASSUME NEW i \in 1 .. L + 1, ~Ends(p, i)
      PROVE  i + 2 + p[i + 1] \in i + 2 .. L + 1
  <2>1. i + 1 \in 1 .. L /\ p[i + 1] \in Nat
    BY <1>1, <1>2 DEF Ends
  <2> QED
    BY <1>1, <1>2, <2>1 DEF Ends
<1>3. 0 \in T
  <2>1. Ends(p, L + 1)
    BY <1>1 DEF Ends
  <2>2. L + 1 - 0 = L + 1 /\ \A i \in L + 1 .. L + 1 : i = L + 1
    BY <1>1
  <2>3. Are(0, [i \in L + 1 .. L + 1 |-> <<>>])
    <3> HIDE DEF L, Ends
    <3> QED
      BY <2>1, <2>2
  <2>4. 0 \in 0 .. L
    BY <1>1
  <2> HIDE DEF Are, L
  <2> QED
    BY <2>3, <2>4
<1>4. ASSUME NEW n \in 0 .. L - 1, n \in T PROVE n + 1 \in T
  <2>1. PICK f : Are(n, f)
    BY <1>4
  <2> DEFINE a == L - n
             g == [i \in a .. L + 1 |->
                      IF i = a THEN IF Ends(p, a) THEN <<>> ELSE With(a, f[a + 2 + p[a + 1]]) ELSE f[i]]
  <2>2. a \in 1 .. L /\ L + 1 - (n + 1) = a /\ L + 1 - n = a + 1
    BY <1>1
  <2> HIDE DEF L, a
  <2>3. ASSUME NEW i \in a .. L + 1
        PROVE  g[i] = IF Ends(p, i) THEN <<>> ELSE With(i, g[i + 2 + p[i + 1]])
    <3>1. ~Ends(p, i) => i + 2 + p[i + 1] \in i + 2 .. L + 1
      BY <1>1, <1>2, <2>2, <2>3
    <3>2. ~Ends(p, i) => g[i + 2 + p[i + 1]] = f[i + 2 + p[i + 1]]
      BY <1>1, <2>2, <3>1
    <3>3. CASE i = a
      <4>1. g[i] = IF Ends(p, i) THEN <<>> ELSE With(i, f[i + 2 + p[i + 1]])
        BY <2>2, <3>3
      <4> HIDE DEF g
      <4> QED
        BY <3>2, <4>1
    <3>4. CASE i \in a + 1 .. L + 1
      <4>1. f[i] = IF Ends(p, i) THEN <<>> ELSE With(i, f[i + 2 + p[i + 1]])
        BY <2>1, <2>2, <3>4
      <4>2. g[i] = f[i]
        BY <2>2, <3>4
      <4> HIDE DEF g
      <4> QED
        BY <3>2, <4>1, <4>2
    <3> QED
      BY <1>1, <2>2, <3>3, <3>4
  <2>4. Are(n + 1, g)
    BY <2>2, <2>3
  <2>5. n + 1 \in 0 .. L
    BY <1>1
  <2> HIDE DEF Are, L, g
  <2> QED
    BY <2>4, <2>5
<1>5. L \in T
  <2> HIDE DEF T, L
  <2>1. 0 .. L \subseteq T
    BY <1>1, <1>3, <1>4, UpTo
  <2> QED
    BY <1>1, <2>1
<1>6. L + 1 - L = 1
  BY <1>1
<1>7. \E f : f = [i \in 1 .. L + 1 |-> IF Ends(p, i) THEN <<>> ELSE With(i, f[i + 2 + p[i + 1]])]
  BY <1>5, <1>6
<1>8. Rests(p) = [i \in 1 .. L + 1 |-> IF Ends(p, i) THEN <<>> ELSE With(i, Rests(p)[i + 2 + p[i + 1]])]
  BY <1>7, Zenon DEF Rests, With, Ends, BlockIn
<1> QED
  BY <1>8 DEF With

\* blocks() starts with the first cell.
LEMMA BlocksOfIs == ASSUME NEW p PROVE blocks_of(p) = Rests(p)[1]
BY DEF blocks_of, Rests

\* What the payload holds behind its first k - 1 blocks: block k and where block k + 1 begins.
LEMMA BlockAtPlace ==
    ASSUME NEW bs \in BlockSeq, NEW k \in 1 .. Len(bs), NEW q, q = Len(Payloads(bs)[k - 1]) + 1,
           NEW p, p = make_payload(bs)
    PROVE  /\ ~Ends(p, q) /\ BlockIn(p, q) = bs[k]
           /\ q + 2 + p[q + 1] = Len(Payloads(bs)[k]) + 1
<1> DEFINE x == Payloads(bs)[k - 1]
           y == Payloads(bs)[k]
           b == make_block(bs[k])
           n == Len(bs[k].data)
<1>1. k - 1 \in 0 .. Len(bs) /\ k \in 0 .. Len(bs) /\ Len(bs) \in 0 .. Len(bs)
  BY BlockOf
<1>2. x \in Seq(Nat) /\ y \in Seq(Nat) /\ p \in Seq(Nat)
  BY <1>1, PayloadsType, PayloadStep
<1>3. y = x \o b
  BY PayloadStep
<1>4. bs[k] \in [type : Nat, data : Seq(Nat)] /\ n < Word
  BY BlockOf
<1>5. /\ b \in Seq(Nat) /\ Len(b) = n + 2 /\ b[1] = bs[k].type /\ b[2] = n
      /\ \A i \in 1 .. n : b[i + 2] = bs[k].data[i]
  BY <1>4, MadeBlock
<1>6. Len(y) <= Len(p) /\ \A j \in 1 .. Len(y) : p[j] = y[j]
  BY <1>1, PayloadPrefix
<1>7. n \in Nat /\ bs[k].data \in Seq(Nat) /\ bs[k] = [type |-> bs[k].type, data |-> bs[k].data]
  BY <1>4
<1>8. q = Len(x) + 1
  OBVIOUS
<1> HIDE DEF x, y, b, n
<1>9. Len(x) \in Nat /\ Len(p) \in Nat /\ q \in Nat /\ Len(y) = Len(x) + (n + 2)
  <2>1. Len(x) \in Nat /\ Len(p) \in Nat
    BY <1>2
  <2>2. Len(y) = Len(x) + Len(b)
    BY <1>2, <1>3, <1>5, Joined
  <2> QED
    BY <1>5, <1>8, <2>1, <2>2
<1>10. \A i \in 1 .. n + 2 : y[Len(x) + i] = b[i]
  <2>1. \A i \in 1 .. Len(b) : y[Len(x) + i] = b[i]
    BY <1>2, <1>3, <1>5, Joined
  <2> QED
    BY <1>5, <2>1
<1>11. \A i \in 1 .. n + 2 : p[Len(x) + i] = b[i]
  <2>1. \A i \in 1 .. n + 2 : Len(x) + i \in 1 .. Len(y)
    BY <1>7, <1>9
  <2>2. \A i \in 1 .. n + 2 : p[Len(x) + i] = y[Len(x) + i]
    BY <1>6, <2>1, Zenon
  <2> QED
    BY <1>10, <2>2, Zenon
<1>12. p[q] = bs[k].type /\ p[q + 1] = n
  <2>1. 1 \in 1 .. n + 2 /\ 2 \in 1 .. n + 2 /\ q + 1 = Len(x) + 2
    BY <1>7, <1>8, <1>9
  <2> QED
    BY <1>5, <1>8, <1>11, <2>1
<1>13. ~Ends(p, q)
  <2>1. \A h, m, t \in Nat : h + (m + 2) <= t => ~((h + 1) + 1 > t) /\ ~((h + 1) + 1 + m > t)
    OBVIOUS
  <2>2. Len(x) + (n + 2) <= Len(p)
    BY <1>6, <1>9
  <2>3. ~(q + 1 > Len(p)) /\ ~(q + 1 + n > Len(p))
    BY <1>7, <1>8, <1>9, <2>1, <2>2
  <2> QED
    BY <1>12, <2>3, Zenon DEF Ends
<1>14. Cells(p, q + 2, n) = bs[k].data
  <2> DEFINE a == Len(x) + 2
             c == SubSeq(p, a + 1, a + n)
  <2>1. a \in Nat /\ q + 2 = a + 1 /\ q + 2 + n - 1 = a + n /\ a + n <= Len(p)
    <3>1. \A h, m, t \in Nat : h + (m + 2) <= t =>
             /\ h + 2 \in Nat /\ (h + 1) + 2 = (h + 2) + 1
             /\ (h + 1) + 2 + m - 1 = (h + 2) + m /\ (h + 2) + m <= t
      OBVIOUS
    <3>2. Len(x) + (n + 2) <= Len(p)
      BY <1>6, <1>9
    <3>3. /\ Len(x) + 2 \in Nat /\ (Len(x) + 1) + 2 = (Len(x) + 2) + 1
          /\ (Len(x) + 1) + 2 + n - 1 = (Len(x) + 2) + n /\ (Len(x) + 2) + n <= Len(p)
      BY <1>7, <1>9, <3>1, <3>2
    <3> QED
      BY <1>8, <3>3
  <2>2. \A i \in 1 .. n : i + 2 \in 1 .. n + 2 /\ a + i = Len(x) + (i + 2)
    <3>1. \A h, m \in Nat : \A i \in 1 .. m : i + 2 \in 1 .. m + 2 /\ (h + 2) + i = h + (i + 2)
      OBVIOUS
    <3> QED
      BY <1>7, <1>9, <3>1, Zenon
  <2> HIDE DEF a
  <2>3. c \in Seq(Nat) /\ Len(c) = n /\ \A i \in 1 .. n : c[i] = p[a + i]
    <3>1. p \in Seq(Nat) /\ n \in Nat /\ a \in Nat /\ a + n <= Len(p)
      BY <1>2, <1>7, <2>1
    <3> QED
      BY <3>1, CutOut
  <2>4. Cells(p, q + 2, n) = c
    BY <2>1 DEF Cells
  <2> HIDE DEF c
  <2>5. \A i \in 1 .. n : c[i] = bs[k].data[i]
    <3>1. \A i \in 1 .. n : c[i] = p[Len(x) + (i + 2)] /\ p[Len(x) + (i + 2)] = b[i + 2]
      BY <1>11, <2>2, <2>3, Zenon
    <3> QED
      BY <1>5, <3>1, Zenon
  <2>6. Len(bs[k].data) = n
    BY DEF n
  <2> QED
    BY <1>7, <2>3, <2>4, <2>5, <2>6, SameSequence
<1>15. BlockIn(p, q) = bs[k]
  <2>1. BlockIn(p, q) = [type |-> bs[k].type, data |-> bs[k].data]
    BY <1>12, <1>14, Zenon DEF BlockIn
  <2> QED
    BY <1>7, <2>1, Zenon
<1>16. q + 2 + p[q + 1] = Len(y) + 1
  <2>1. q + 2 + n = Len(y) + 1
    <3>1. \A h, m \in Nat : (h + 1) + 2 + m = (h + (m + 2)) + 1
      OBVIOUS
    <3>2. (Len(x) + 1) + 2 + n = (Len(x) + (n + 2)) + 1
      BY <1>7, <1>9, <3>1, Zenon
    <3> QED
      BY <1>8, <1>9, <3>2, Zenon
  <2> QED
    BY <1>12, <2>1, Zenon
<1> QED
  BY <1>13, <1>15, <1>16 DEF y

\* blocks() gives back the blocks that were put into a payload.
LEMMA BlocksReadBack == ASSUME NEW bs \in BlockSeq PROVE blocks_of(make_payload(bs)) = bs
<1> DEFINE N == Len(bs)
           p == make_payload(bs)
           Place(k) == Len(Payloads(bs)[k]) + 1
           T == {n \in 0 .. N : Rests(p)[Place(N - n)] = SubSeq(bs, N - n + 1, N)}
<1>1. N \in Nat /\ bs \in Seq([type : Nat, data : Seq(Nat)])
  BY BlockOf DEF BlockSeq
<1>2. p \in Seq(Nat) /\ p = Payloads(bs)[N]
  <2>1. N \in 0 .. N
    BY <1>1
  <2> QED
    BY <2>1, PayloadsType, PayloadStep
<1>3. \A k \in 0 .. N : Place(k) \in 1 .. Len(p) + 1
  <2>1. \A k \in 0 .. N : Len(Payloads(bs)[k]) \in Nat
    BY PayloadsType
  <2>2. \A k \in 0 .. N : Len(Payloads(bs)[k]) <= Len(p)
    BY PayloadPrefix
  <2>3. Len(p) \in Nat
    BY <1>2
  <2> HIDE DEF p, N
  <2> QED
    BY <2>1, <2>2, <2>3
<1> DEFINE B == [type : Nat, data : Seq(Nat)]
<1>4. bs \in Seq(B)
  BY <1>1
<1> HIDE DEF B, p, Place
<1>5. 0 \in T
  <2>1. Place(N) = Len(p) + 1 /\ Len(p) \in Nat
    BY <1>2 DEF Place
  <2>2. Ends(p, Len(p) + 1) /\ Len(p) + 1 \in 1 .. Len(p) + 1
    BY <2>1 DEF Ends
  <2>3. Rests(p)[Place(N)] = <<>>
    BY <1>2, <2>1, <2>2, RestsAre
  <2>4. SubSeq(bs, N + 1, N) = <<>> /\ N - 0 = N /\ 0 \in 0 .. N
    BY <1>1, <1>4
  <2> QED
    BY <2>3, <2>4
<1>6. ASSUME NEW n \in 0 .. N - 1, n \in T PROVE n + 1 \in T
  <2> DEFINE k == N - n
             q == Place(k - 1)
  <2>1. k \in 1 .. N /\ N - (n + 1) = k - 1 /\ k - 1 \in 0 .. N /\ N - (n + 1) + 1 = k /\ n + 1 \in 0 .. N
    BY <1>1
  <2>2. Rests(p)[Place(k)] = SubSeq(bs, k + 1, N)
    BY <1>6
  <2> HIDE DEF k
  <2>3. /\ ~Ends(p, q) /\ BlockIn(p, q) = bs[k]
        /\ q + 2 + p[q + 1] = Place(k)
    BY <2>1, BlockAtPlace DEF p, Place
  <2>4. q \in 1 .. Len(p) + 1
    BY <1>3, <2>1
  <2> HIDE DEF q
  <2>5. Rests(p)[q] = <<BlockIn(p, q)>> \o Rests(p)[q + 2 + p[q + 1]]
    BY <1>2, <2>3, <2>4, RestsAre
  <2>6. Rests(p)[q] = <<bs[k]>> \o SubSeq(bs, k + 1, N)
    BY <2>2, <2>3, <2>5
  <2>7. <<bs[k]>> \o SubSeq(bs, k + 1, N) = SubSeq(bs, k, N)
    BY <1>4, <2>1, OneBefore
  <2> QED
    BY <2>1, <2>6, <2>7 DEF q
<1>7. N \in T
  <2> HIDE DEF T, N
  <2>1. 0 .. N \subseteq T
    BY <1>1, <1>5, <1>6, UpTo
  <2> QED
    BY <1>1, <2>1
<1>8. Place(0) = 1
  <2>1. Payloads(bs)[0] = <<>>
    BY PayloadStep
  <2> QED
    BY <2>1 DEF Place
<1>9. N - N = 0 /\ 0 + 1 = 1 /\ SubSeq(bs, 1, N) = bs
  BY <1>1, <1>4
<1> QED
  BY <1>7, <1>8, <1>9, BlocksOfIs DEF p

-----------------------------------------------------------------------------
(* Reading a packet.                                                       *)

\* Two buffers that were joined can be cut out again.
LEMMA CutJoined ==
    ASSUME NEW S, NEW x \in Seq(S), NEW y \in Seq(S)
    PROVE  /\ SubSeq(x \o y, 1, Len(x)) = x
           /\ SubSeq(x \o y, Len(x) + 1, Len(x) + Len(y)) = y
<1> DEFINE z == x \o y
           u == SubSeq(z, 0 + 1, 0 + Len(x))
           v == SubSeq(z, Len(x) + 1, Len(x) + Len(y))
<1>1. z \in Seq(S) /\ Len(z) = Len(x) + Len(y) /\ Len(x) \in Nat /\ Len(y) \in Nat
  BY Joined
<1>2. ASSUME NEW i \in 1 .. Len(x) PROVE z[i] = x[i]
  BY <1>2, Joined
<1>3. ASSUME NEW i \in 1 .. Len(y) PROVE z[Len(x) + i] = y[i]
  BY <1>3, Joined
<1> HIDE DEF z
<1>4. u \in Seq(S) /\ Len(u) = Len(x) /\ \A i \in 1 .. Len(x) : u[i] = z[0 + i]
  <2>1. 0 \in Nat /\ Len(x) \in Nat /\ 0 + Len(x) <= Len(z)
    BY <1>1
  <2> QED
    BY <1>1, <2>1, CutOut
<1>5. v \in Seq(S) /\ Len(v) = Len(y) /\ \A i \in 1 .. Len(y) : v[i] = z[Len(x) + i]
  BY <1>1, CutOut
<1>6. u = SubSeq(z, 1, Len(x))
  BY <1>1
<1> HIDE DEF u, v
<1>7. u = x
  <2>1. \A i \in 1 .. Len(u) : u[i] = x[i]
    BY <1>2, <1>4
  <2> QED
    BY <1>4, <2>1, SameSequence
<1>8. v = y
  <2>1. \A i \in 1 .. Len(v) : v[i] = y[i]
    BY <1>3, <1>5
  <2> QED
    BY <1>5, <2>1, SameSequence
<1> QED
  BY <1>6, <1>7, <1>8 DEF u, v, z

\* The first cell of a packet is the first start of packet.
LEMMA FindsFirst ==
    ASSUME NEW p \in Seq(Nat), p # <<>>, p[1] = SOP
    PROVE  find_sop(p) = 1
<1> DEFINE Found(i) == /\ i <= Len(p) => p[i] = SOP
                       /\ \A j \in 1 .. i - 1 : p[j] # SOP
<1>1. Len(p) \in Nat \ {0}
  OBVIOUS
<1>2. 1 \in 1 .. Len(p) + 1 /\ Found(1)
  BY <1>1
<1>3. ASSUME NEW i \in 1 .. Len(p) + 1, Found(i) PROVE i = 1
  <2>1. i # 1 => 1 \in 1 .. i - 1
    BY <1>1
  <2> QED
    BY <1>3, <2>1
<1>4. find_sop(p) = CHOOSE i \in 1 .. Len(p) + 1 : Found(i)
  BY DEF find_sop
<1> HIDE DEF Found
<1> QED
  BY <1>2, <1>3, <1>4

\* find(sop) stops at the first start of packet, or behind the last cell.
LEMMA FoundSop ==
    ASSUME NEW v \in Seq(Nat)
    PROVE  /\ find_sop(v) \in 1 .. Len(v) + 1
           /\ find_sop(v) <= Len(v) => v[find_sop(v)] = SOP
           /\ \A j \in 1 .. find_sop(v) - 1 : v[j] # SOP
<1> DEFINE Found(i) == /\ i <= Len(v) => v[i] = SOP
                       /\ \A j \in 1 .. i - 1 : v[j] # SOP
           T == {i \in 1 .. Len(v) + 1 : i <= Len(v) => v[i] = SOP}
<1>1. Len(v) \in Nat
  OBVIOUS
<1>2. T \in SUBSET Nat /\ Len(v) + 1 \in T
  BY <1>1
<1>3. PICK m \in T : \A k \in T : m <= k
  <2>1. T # {}
    BY <1>2
  <2> HIDE DEF T
  <2> QED
    BY <1>2, <2>1, Smallest
<1>4. m \in 1 .. Len(v) + 1 /\ (m <= Len(v) => v[m] = SOP)
  OBVIOUS
<1>5. ASSUME NEW j \in 1 .. m - 1 PROVE v[j] # SOP
  <2>1. j \in 1 .. Len(v) + 1 /\ j < m /\ ~(m <= j)
    BY <1>1, <1>4
  <2> QED
    BY <1>3, <2>1
<1>6. Found(m)
  BY <1>4, <1>5
<1>7. find_sop(v) = CHOOSE i \in 1 .. Len(v) + 1 : Found(i)
  BY DEF find_sop
<1> HIDE DEF Found
<1>8. find_sop(v) \in 1 .. Len(v) + 1 /\ Found(find_sop(v))
  BY <1>4, <1>6, <1>7
<1> QED
  BY <1>8 DEF Found

\* What the constructor has found when it throws nothing.
LEMMA Accepted ==
    ASSUME NEW v \in Seq(Nat), Verdict(v) = "none"
    PROVE  LET a == find_sop(v) - 1
           IN  /\ a \in Nat /\ a + 10 <= Len(v) /\ v[a + 1] = SOP /\ v[a + 2] = VER
               /\ v[a + 3] \in Nat /\ a + 10 + v[a + 3] <= Len(v)
               /\ compute_crc(SubSeq(v, a + 1, a + 8)) = <<v[a + 9], v[a + 10]>>
               /\ compute_crc(SubSeq(v, a + 11, a + 10 + v[a + 3])) = <<v[a + 7], v[a + 8]>>
<1> DEFINE pos == find_sop(v)
           a == pos - 1
           h == Cells(v, pos, 10)
           L == v[a + 3]
<1>1. pos \in 1 .. Len(v) /\ v[pos] = SOP /\ a \in Nat /\ pos = a + 1
  <2>1. ~(pos > Len(v))
    BY DEF Verdict
  <2> HIDE DEF pos
  <2>2. pos \in 1 .. Len(v) + 1 /\ (pos <= Len(v) => v[pos] = SOP)
    BY FoundSop DEF pos
  <2> QED
    BY <2>1, <2>2
<1>2. ~(a + 10 > Len(v)) /\ parse_header(h) = "none" /\ ~(a + 10 + h[3] > Len(v))
      /\ parse_payload(Cells(v, a + 10 + 1, h[3]), h) = "none"
  BY <1>1 DEF Verdict, SizeofHeader, len
<1> HIDE DEF pos
<1>3. a + 10 <= Len(v) /\ Len(v) \in Nat
  BY <1>1, <1>2
<1>4. h = SubSeq(v, a + 1, a + 10)
  <2>1. pos + 10 - 1 = a + 10
    BY <1>1
  <2> QED
    BY <1>1, <2>1 DEF Cells
<1> HIDE DEF a, h
<1>5. h \in Seq(Nat) /\ Len(h) = 10 /\ \A i \in 1 .. 10 : h[i] = v[a + i]
  BY <1>1, <1>3, <1>4, CutOut
<1>6. h[2] = v[a + 2] /\ h[3] = v[a + 3] /\ h[7] = v[a + 7] /\ h[8] = v[a + 8]
      /\ h[9] = v[a + 9] /\ h[10] = v[a + 10] /\ h[3] \in Nat
  <2>1. /\ 2 \in 1 .. 10 /\ 3 \in 1 .. 10 /\ 7 \in 1 .. 10 /\ 8 \in 1 .. 10 /\ 9 \in 1 .. 10
        /\ 10 \in 1 .. 10
    OBVIOUS
  <2>2. h[3] \in Nat
    <3>1. h \in Seq(Nat) /\ 3 \in 1 .. Len(h)
      BY <1>5
    <3> QED
      BY <3>1, CellIn
  <2> QED
    BY <1>5, <2>1, <2>2, Zenon
<1>7. compute_crc(SubSeq(h, 1, 8)) = SubSeq(h, 9, 10) /\ h[2] = VER
  BY <1>2 DEF parse_header
<1>8. SubSeq(h, 7, 8) = compute_crc(Cells(v, a + 10 + 1, h[3]))
  BY <1>2 DEF parse_payload
<1>9. SubSeq(h, 7, 8) = <<h[7], h[8]>> /\ SubSeq(h, 9, 10) = <<h[9], h[10]>>
  <2>1. /\ SubSeq(h, 6 + 1, 6 + 2) = <<h[6 + 1], h[6 + 2]>>
        /\ SubSeq(h, 8 + 1, 8 + 2) = <<h[8 + 1], h[8 + 2]>>
    <3>1. 6 \in Nat /\ 8 \in Nat /\ 6 + 2 <= Len(h) /\ 8 + 2 <= Len(h)
      BY <1>5
    <3> QED
      BY <1>5, <3>1, PairAt, Zenon
  <2> QED
    BY <2>1
<1>10. SubSeq(h, 1, 8) = SubSeq(v, a + 1, a + 8)
  <2>1. SubSeq(h, 0 + 1, 0 + 8) = SubSeq(v, a + 0 + 1, a + 0 + 8)
    BY <1>1, <1>3, <1>4, CutAgain
  <2> QED
    BY <1>1, <2>1
<1>11. Cells(v, a + 10 + 1, h[3]) = SubSeq(v, a + 11, a + 10 + h[3])
  <2> DEFINE m == h[3]
  <2>2. m \in Nat
    BY <1>6
  <2> HIDE DEF m
  <2>3. a + 10 + 1 = a + 11 /\ a + 10 + 1 + m - 1 = a + 10 + m
    BY <1>1, <2>2
  <2>1. a + 10 + 1 = a + 11 /\ a + 10 + 1 + h[3] - 1 = a + 10 + h[3]
    BY <2>3 DEF m
  <2> QED
    BY <2>1 DEF Cells
<1>12. a + 10 + h[3] <= Len(v)
  <2> DEFINE m == h[3]
             n == Len(v)
  <2>1. m \in Nat /\ n \in Nat /\ ~(a + 10 + m > n)
    BY <1>2, <1>3, <1>6
  <2> HIDE DEF m, n
  <2>2. a + 10 + m <= n
    BY <1>1, <2>1
  <2> QED
    BY <2>2 DEF m, n
<1>13. /\ a \in Nat /\ a + 10 <= Len(v) /\ v[a + 1] = SOP /\ v[a + 2] = VER
       /\ v[a + 3] \in Nat /\ a + 10 + v[a + 3] <= Len(v)
       /\ compute_crc(SubSeq(v, a + 1, a + 8)) = <<v[a + 9], v[a + 10]>>
       /\ compute_crc(SubSeq(v, a + 11, a + 10 + v[a + 3])) = <<v[a + 7], v[a + 8]>>
  BY <1>1, <1>3, <1>6, <1>7, <1>8, <1>9, <1>10, <1>11, <1>12, Zenon
<1> QED
  BY <1>13 DEF a, pos

\* The constructor accepts what make_header and make_block made, keeps every cell of it, and
\* gives back the blocks, as long as the payload fits a packet; it refuses it if n_block could
\* not hold the number of blocks, and for no other reason.
THEOREM PacketReadsBack ==
    ASSUME NEW id \in Nat, NEW t \in Nat, \E k \in DOMAIN Types : t = Types[k],
           NEW bs \in BlockSeq,
           MaxPl < Word, Len(make_payload(bs)) <= MaxPl,
           NEW p, p = Make(id, t, bs)
    PROVE  /\ Verdict(p) = IF Len(bs) % CountMod = Len(bs) THEN "none" ELSE "invalid_number_of_block"
           /\ Copied(p) = p
           /\ type_of(p) = t /\ blocks_of(payload_of(p)) = bs
           /\ p \in Seq(Nat) /\ p[1] = SOP /\ Len(p) = SizeofHeader + Len(make_payload(bs))
<1> DEFINE pl == make_payload(bs)
           L  == Len(pl)
           m  == Len(bs) % CountMod
           c  == compute_crc(pl)
           g  == <<SOP, VER, L, id % Word, t, m>>
           f  == g \o c
           d  == compute_crc(f)
           h  == f \o d
<1>1. pl \in Seq(Nat) /\ L \in Nat /\ Len(bs) \in Nat
  <2>1. Len(bs) \in Nat
    BY BlockOf
  <2>2. Len(bs) \in 0 .. Len(bs)
    BY <2>1
  <2>3. pl \in Seq(Nat)
    BY <2>2, PayloadsType, PayloadStep
  <2> QED
    BY <2>1, <2>3
<1>2. L <= MaxPl /\ L % Word = L /\ m \in Nat /\ id % Word \in Nat
  <2>1. L <= MaxPl /\ MaxPl \in Nat /\ Word \in Nat \ {0} /\ CountMod \in Nat \ {0}
    BY PacketAssumption
  <2>2. \A n, w \in Nat : n < w => n % w = n
    OBVIOUS
  <2>3. \A n \in Nat, w \in Nat \ {0} : n % w \in Nat
    OBVIOUS
  <2> HIDE DEF L
  <2>4. L < Word
    BY <1>1, <2>1
  <2> QED
    BY <1>1, <2>1, <2>2, <2>3, <2>4
<1> HIDE DEF pl
<1>3. c \in Seq(Nat) /\ Len(c) = 2
  BY <1>1, CrcIsPair
<1> HIDE DEF c, L, m
<1>4. /\ g \in Seq(Nat) /\ Len(g) = 6 /\ g[1] = SOP /\ g[2] = VER /\ g[3] = L /\ g[5] = t
      /\ g[6] = m
  <2>1. SOP \in Nat /\ VER \in Nat
    BY PacketAssumption DEF SOP, VER
  <2> HIDE DEF SOP, VER
  <2> QED
    BY <1>1, <1>2, <2>1
<1> HIDE DEF g
<1>5. f \in Seq(Nat) /\ Len(f) = 8 /\ f[7] = c[1] /\ f[8] = c[2] /\ \A i \in 1 .. 6 : f[i] = g[i]
  <2>0. g \in Seq(Nat) /\ c \in Seq(Nat)
    BY <1>3, <1>4
  <2>1. f \in Seq(Nat) /\ Len(f) = Len(g) + Len(c)
    BY <2>0, Joined
  <2>2. ASSUME NEW i \in 1 .. Len(g) PROVE f[i] = g[i]
    BY <2>0, <2>2, Joined
  <2>3. ASSUME NEW i \in 1 .. Len(c) PROVE f[Len(g) + i] = c[i]
    BY <2>0, <2>3, Joined
  <2> HIDE DEF f
  <2> QED
    BY <1>3, <1>4, <2>1, <2>2, <2>3
<1> HIDE DEF f
<1>6. d \in Seq(Nat) /\ Len(d) = 2
  BY <1>5, CrcIsPair
<1> HIDE DEF d
<1>7. h \in Seq(Nat) /\ Len(h) = 10 /\ \A i \in 1 .. 8 : h[i] = f[i]
  <2>0. f \in Seq(Nat) /\ d \in Seq(Nat)
    BY <1>5, <1>6
  <2>1. h \in Seq(Nat) /\ Len(h) = Len(f) + Len(d)
    BY <2>0, Joined
  <2>2. ASSUME NEW i \in 1 .. Len(f) PROVE h[i] = f[i]
    BY <2>0, <2>2, Joined
  <2> HIDE DEF h
  <2> QED
    BY <1>5, <1>6, <2>1, <2>2
<1>8. SubSeq(h, 1, 8) = f /\ SubSeq(h, 9, 10) = d
  <2>1. SubSeq(h, 1, Len(f)) = f /\ SubSeq(h, Len(f) + 1, Len(f) + Len(d)) = d
    BY <1>5, <1>6, CutJoined
  <2> HIDE DEF h
  <2> QED
    BY <1>5, <1>6, <2>1
<1> HIDE DEF h
<1>9. h[1] = SOP /\ h[2] = VER /\ h[3] = L /\ h[5] = t /\ h[6] = m
  BY <1>4, <1>5, <1>7
<1>10. SubSeq(h, 7, 8) = c
  <2> DEFINE a == 6
             w == 2
             e == SubSeq(h, a + 1, a + w)
  <2>6. /\ a \in Nat /\ w \in Nat /\ a + w <= Len(h) /\ w = 2
        /\ a + 1 = 7 /\ a + 2 = 8 /\ a + w = 8 /\ 1 \in 1 .. w /\ 2 \in 1 .. w
    BY <1>7
  <2> HIDE DEF a, w
  <2>7. e \in Seq(Nat) /\ Len(e) = w /\ \A i \in 1 .. w : e[i] = h[a + i]
    <3>1. h \in Seq(Nat) /\ a \in Nat /\ w \in Nat /\ a + w <= Len(h)
      BY <1>7, <2>6
    <3> QED
      BY <3>1, CutOut
  <2>8. e = SubSeq(h, 7, 8)
    BY <2>6
  <2> HIDE DEF e
  <2>1. e \in Seq(Nat) /\ Len(e) = 2 /\ e[1] = h[7] /\ e[2] = h[8]
    BY <2>6, <2>7
  <2>3. h[7] = c[1] /\ h[8] = c[2]
    BY <1>5, <1>7
  <2>4. e[1] = c[1] /\ e[2] = c[2]
    BY <2>1, <2>3
  <2>5. \A i \in 1 .. 2 : e[i] = c[i]
    BY <2>4
  <2> QED
    BY <1>3, <2>1, <2>5, <2>8, SameSequence
<1>11. p = h \o pl
  <2>1. make_header(id, t, Len(bs), pl) = h
    BY <1>2 DEF make_header, h, d, f, g, c, L, m
  <2> QED
    BY <2>1 DEF Make, pl
<1>12. p \in Seq(Nat) /\ Len(p) = 10 + L /\ \A i \in 1 .. 10 : p[i] = h[i]
  <2>0. h \in Seq(Nat) /\ pl \in Seq(Nat)
    BY <1>1, <1>7
  <2> DEFINE z == h \o pl
  <2>1. z \in Seq(Nat) /\ Len(z) = Len(h) + Len(pl)
    BY <2>0, Joined
  <2>2. ASSUME NEW i \in 1 .. Len(h) PROVE z[i] = h[i]
    BY <2>0, <2>2, Joined
  <2>3. p = z
    BY <1>11
  <2> HIDE DEF z
  <2> QED
    BY <1>7, <2>1, <2>2, <2>3 DEF L
<1>13. SubSeq(p, 1, 10) = h /\ SubSeq(p, 11, 10 + L) = pl
  <2>1. SubSeq(p, 1, Len(h)) = h /\ SubSeq(p, Len(h) + 1, Len(h) + L) = pl
    BY <1>1, <1>7, <1>11, CutJoined DEF L
  <2> QED
    BY <1>1, <1>7, <2>1
<1>14. SubSeq(p, 1, 10 + L) = p
  BY <1>1, <1>12
<1>15. p[1] = SOP /\ p[3] = L /\ p[5] = t
  <2>1. 1 \in 1 .. 10 /\ 3 \in 1 .. 10 /\ 5 \in 1 .. 10
    OBVIOUS
  <2>2. \A i \in 1 .. 10 : p[i] = h[i]
    BY <1>12
  <2> QED
    BY <1>9, <2>1, <2>2
<1>16. find_sop(p) = 1
  <2>1. Len(p) # 0
    BY <1>1, <1>12
  <2>2. p # <<>>
    BY <2>1
  <2> QED
    BY <1>12, <1>15, <2>2, FindsFirst
<1>17. blocks_of(pl) = bs
  BY BlocksReadBack DEF pl
<1>18. parse_header(h) = "none"
  <2>1. h[type] = t /\ h[len] = L
    BY <1>9 DEF type, len
  <2>2. ~(h[len] > MaxPl)
    BY <1>1, <1>2, <2>1, PacketAssumption
  <2>3. compute_crc(SubSeq(h, 1, 8)) = SubSeq(h, 9, 10)
    BY <1>8 DEF d
  <2> QED
    BY <1>9, <2>1, <2>2, <2>3 DEF parse_header
<1>19. parse_payload(pl, h) = IF m = Len(bs) THEN "none" ELSE "invalid_number_of_block"
  BY <1>9, <1>10, <1>17 DEF parse_payload, len, n_block, c, L
<1>20. Cells(p, 1, 10) = h /\ Cells(p, 11, L) = pl /\ Cells(p, 1, 10 + L) = p
  <2>1. 1 + 10 - 1 = 10 /\ 11 + L - 1 = 10 + L /\ 1 + (10 + L) - 1 = 10 + L
    BY <1>1
  <2> QED
    BY <1>13, <1>14, <2>1 DEF Cells
<1>21. Verdict(p) = IF m = Len(bs) THEN "none" ELSE "invalid_number_of_block"
  <2>1. ~(1 > Len(p)) /\ ~(10 > Len(p)) /\ ~(10 + L > Len(p))
    BY <1>1, <1>12
  <2> QED
    BY <1>9, <1>16, <1>18, <1>19, <1>20, <2>1 DEF Verdict, SizeofHeader, len
<1>22. Copied(p) = p
  BY <1>15, <1>16, <1>20 DEF Copied, SizeofHeader, len
<1>23. type_of(p) = t /\ payload_of(p) = pl
  BY <1>15, <1>20 DEF type_of, type, payload_of, SizeofHeader, len
<1>24. p \in Seq(Nat) /\ p[1] = SOP /\ Len(p) = SizeofHeader + Len(make_payload(bs))
  BY <1>12, <1>15 DEF SizeofHeader, L, pl
<1> QED
  BY <1>17, <1>21, <1>22, <1>23, <1>24, Zenon DEF m

\* A block takes two cells more than its data.
LEMMA PayloadLength ==
    ASSUME NEW bs \in BlockSeq
    PROVE  /\ Len(Payloads(bs)[0]) = 0
           /\ \A i \in 1 .. Len(bs) : Len(Payloads(bs)[i]) = Len(Payloads(bs)[i - 1]) + (Len(bs[i].data) + 2)
<1>1. Len(Payloads(bs)[0]) = 0
  <2>1. Payloads(bs)[0] = <<>>
    BY PayloadStep
  <2> QED
    BY <2>1
<1>2. ASSUME NEW i \in 1 .. Len(bs)
      PROVE  Len(Payloads(bs)[i]) = Len(Payloads(bs)[i - 1]) + (Len(bs[i].data) + 2)
  <2>1. i - 1 \in 0 .. Len(bs)
    BY BlockOf
  <2>2. Payloads(bs)[i - 1] \in Seq(Nat)
    BY <2>1, PayloadsType
  <2>3. bs[i] \in [type : Nat, data : Seq(Nat)] /\ Len(bs[i].data) < Word
    BY <1>2, BlockOf
  <2>4. make_block(bs[i]) \in Seq(Nat) /\ Len(make_block(bs[i])) = Len(bs[i].data) + 2
    BY <2>3, MadeBlock
  <2>5. Payloads(bs)[i] = Payloads(bs)[i - 1] \o make_block(bs[i])
    BY <1>2, PayloadStep
  <2>6. Len(Payloads(bs)[i - 1] \o make_block(bs[i])) = Len(Payloads(bs)[i - 1]) + Len(make_block(bs[i]))
    BY <2>2, <2>4, Joined
  <2> QED
    BY <2>4, <2>5, <2>6
<1> QED
  BY <1>1, <1>2

-----------------------------------------------------------------------------
(* A packet that was damaged on the way.                                   *)

\* What make_header and make_payload promise of a packet, cell by cell.
WellMade(p) ==
    /\ p \in Seq(Nat) /\ Len(p) \in Nat /\ Len(p) >= 10 /\ Len(p) = 10 + p[3]
    /\ p[1] = SOP /\ p[2] = VER /\ p[3] # VER
    /\ compute_crc(SubSeq(p, 1, 8)) = <<p[9], p[10]>>
    /\ compute_crc(SubSeq(p, 11, Len(p))) = <<p[7], p[8]>>

\* The part of the header that its checksum covers, and the payload.
LEMMA Parts ==
    ASSUME NEW v \in Seq(Nat), Len(v) >= 10
    PROVE  /\ SubSeq(v, 1, 8) \in Seq(Nat) /\ Len(SubSeq(v, 1, 8)) = 8
           /\ \A i \in 1 .. 8 : SubSeq(v, 1, 8)[i] = v[i]
           /\ SubSeq(v, 11, Len(v)) \in Seq(Nat) /\ Len(SubSeq(v, 11, Len(v))) = Len(v) - 10
           /\ \A i \in 1 .. Len(v) - 10 : SubSeq(v, 11, Len(v))[i] = v[10 + i]
<1> DEFINE n == Len(v) - 10
           y == SubSeq(v, 0 + 1, 0 + 8)
           z == SubSeq(v, 10 + 1, 10 + n)
<1>1. n \in Nat /\ 10 + n = Len(v) /\ 10 + n <= Len(v) /\ 0 + 8 <= Len(v)
  OBVIOUS
<1>2. y = SubSeq(v, 1, 8) /\ z = SubSeq(v, 11, Len(v))
  BY <1>1
<1> HIDE DEF n
<1>3. y \in Seq(Nat) /\ Len(y) = 8 /\ \A i \in 1 .. 8 : y[i] = v[0 + i]
  <2>1. 0 \in Nat /\ 8 \in Nat /\ 0 + 8 <= Len(v)
    BY <1>1
  <2> QED
    BY <2>1, CutOut, Zenon
<1>4. z \in Seq(Nat) /\ Len(z) = n /\ \A i \in 1 .. n : z[i] = v[10 + i]
  <2>1. 10 \in Nat /\ n \in Nat /\ 10 + n <= Len(v)
    BY <1>1
  <2> QED
    BY <2>1, CutOut, Zenon
<1> HIDE DEF y, z
<1>5. \A i \in 1 .. 8 : y[i] = v[i]
  <2>1. \A i \in 1 .. 8 : 0 + i = i
    OBVIOUS
  <2> QED
    BY <1>3, <2>1, Zenon
<1> QED
  BY <1>2, <1>3, <1>4, <1>5, Zenon DEF n

\* What a buffer that starts like a packet must have to be accepted.
LEMMA AcceptedFirst ==
    ASSUME NEW v \in Seq(Nat), Len(v) >= 1, v[1] = SOP, Verdict(v) = "none"
    PROVE  /\ Len(v) \in Nat /\ 10 <= Len(v) /\ v[3] \in Nat /\ 10 + v[3] <= Len(v)
           /\ compute_crc(SubSeq(v, 1, 8)) = <<v[9], v[10]>>
           /\ compute_crc(SubSeq(v, 11, 10 + v[3])) = <<v[7], v[8]>>
<1>1. find_sop(v) = 1
  <2>1. v # <<>>
    OBVIOUS
  <2> QED
    BY <2>1, FindsFirst
<1>2. 1 - 1 = 0 /\ 0 + 1 = 1 /\ 0 + 3 = 3 /\ 0 + 7 = 7 /\ 0 + 8 = 8 /\ 0 + 9 = 9 /\ 0 + 10 = 10 /\ 0 + 11 = 11
  OBVIOUS
<1>3. /\ 0 + 10 <= Len(v) /\ v[0 + 3] \in Nat /\ 0 + 10 + v[0 + 3] <= Len(v)
      /\ compute_crc(SubSeq(v, 0 + 1, 0 + 8)) = <<v[0 + 9], v[0 + 10]>>
      /\ compute_crc(SubSeq(v, 0 + 11, 0 + 10 + v[0 + 3])) = <<v[0 + 7], v[0 + 8]>>
  BY <1>1, <1>2, Accepted, Zenon
<1> QED
  BY <1>2, <1>3

\* The place of a cell in the payload.
LEMMA BehindHeader ==
    ASSUME NEW n \in Nat, NEW k \in 11 .. n
    PROVE  /\ k - 10 \in 1 .. n - 10 /\ 10 + (k - 10) = k
           /\ \A i \in 1 .. n - 10 : i # k - 10 => 10 + i \in 1 .. n /\ 10 + i # k
OBVIOUS

\* A change of one cell behind the first is seen: one of the two checksums does not fit.
LEMMA ChangeRefused ==
    ASSUME NEW p \in Seq(Nat), WellMade(p), NEW v \in Seq(Nat), Len(v) = Len(p), NEW k \in 2 .. Len(p),
           Mod(v[k]) # Mod(p[k]), \A i \in 1 .. Len(p) : i # k => v[i] = p[i]
    PROVE  Verdict(v) # "none"
<1> SUFFICES ASSUME Verdict(v) = "none" PROVE FALSE
  OBVIOUS
<1> DEFINE n == Len(p)
<1>1. n \in Nat /\ n >= 10 /\ n = 10 + p[3] /\ p[1] = SOP
  BY DEF WellMade
<1>2. /\ compute_crc(SubSeq(p, 1, 8)) = <<p[9], p[10]>>
      /\ compute_crc(SubSeq(p, 11, n)) = <<p[7], p[8]>>
  BY DEF WellMade
<1>3. Len(v) = n /\ k \in 2 .. n /\ \A i \in 1 .. n : i # k => v[i] = p[i]
  OBVIOUS
<1> HIDE DEF n
<1>4. 1 \in 1 .. n /\ 3 \in 1 .. n /\ 7 \in 1 .. n /\ 8 \in 1 .. n /\ 9 \in 1 .. n /\ 10 \in 1 .. n
  BY <1>1
<1>5. v[1] = SOP
  <2>1. 1 # k
    OBVIOUS
  <2> QED
    BY <1>1, <1>3, <1>4, <2>1, Zenon
<1>6. /\ v[3] \in Nat /\ 10 + v[3] <= Len(v)
      /\ compute_crc(SubSeq(v, 1, 8)) = <<v[9], v[10]>>
      /\ compute_crc(SubSeq(v, 11, 10 + v[3])) = <<v[7], v[8]>>
  <2>1. Len(v) >= 1
    BY <1>1, <1>3
  <2> QED
    BY <1>5, <2>1, AcceptedFirst, Zenon
<1> DEFINE x == SubSeq(p, 1, 8)
           y == SubSeq(v, 1, 8)
           r == SubSeq(p, 11, n)
           s == SubSeq(v, 11, n)
<1>7. /\ x \in Seq(Nat) /\ Len(x) = 8 /\ \A i \in 1 .. 8 : x[i] = p[i]
      /\ r \in Seq(Nat) /\ Len(r) = n - 10 /\ \A i \in 1 .. n - 10 : r[i] = p[10 + i]
  <2>1. Len(p) >= 10
    BY <1>1 DEF n
  <2> QED
    BY <2>1, Parts, Zenon DEF n
<1>8. /\ y \in Seq(Nat) /\ Len(y) = 8 /\ \A i \in 1 .. 8 : y[i] = v[i]
      /\ s \in Seq(Nat) /\ Len(s) = n - 10 /\ \A i \in 1 .. n - 10 : s[i] = v[10 + i]
  <2>1. Len(v) >= 10
    BY <1>1, <1>3
  <2> QED
    BY <1>3, <2>1, Parts, Zenon
<1> HIDE DEF x, y, r, s
<1>9. CASE k \in 2 .. 8
  <2>1. v[9] = p[9] /\ v[10] = p[10]
    <3>1. 9 # k /\ 10 # k
      <4>1. \A i \in 2 .. 8 : 9 # i /\ 10 # i
        OBVIOUS
      <4> QED
        BY <1>9, <4>1, Zenon
    <3> QED
      BY <1>3, <1>4, <3>1, Zenon
  <2>2. compute_crc(x) # compute_crc(y)
    <3>0. Len(x) = 8 /\ Len(y) = Len(x) /\ x \in Seq(Nat) /\ y \in Seq(Nat)
      BY <1>7, <1>8
    <3>6. \A i \in 1 .. 8 : i \in 1 .. n
      BY <1>1
    <3>7. k \in 1 .. 8
      <4>1. \A i \in 2 .. 8 : i \in 1 .. 8
        OBVIOUS
      <4> QED
        BY <1>9, <4>1, Zenon
    <3>1. k \in 1 .. 8 /\ \A i \in 1 .. 8 : i \in 1 .. n
      BY <3>6, <3>7
    <3>5. k \in 1 .. Len(x)
      BY <3>0, <3>1, Zenon
    <3>2. Mod(x[k]) # Mod(y[k])
      BY <1>7, <1>8, <3>1, Zenon
    <3>3. \A i \in 1 .. Len(x) : i # k => x[i] = y[i]
      BY <1>3, <1>7, <1>8, <3>1, Zenon
    <3> QED
      BY <3>0, <3>2, <3>3, <3>5, OneCellTold
  <2> QED
    BY <1>2, <1>6, <2>1, <2>2, Zenon DEF x, y
<1>10. CASE k \in 9 .. 10
  <2>1. x = y
    <3>1. \A i \in 1 .. 8 : i \in 1 .. n /\ i # k
      BY <1>1, <1>10
    <3>2. \A i \in 1 .. Len(x) : x[i] = y[i]
      BY <1>3, <1>7, <1>8, <3>1, Zenon
    <3>3. Len(x) = Len(y)
      BY <1>7, <1>8
    <3> QED
      BY <1>7, <1>8, <3>2, <3>3, SameSequence, Zenon
  <2>2. <<v[9], v[10]>> = <<p[9], p[10]>>
    BY <1>2, <1>6, <2>1, Zenon DEF x, y
  <2>3. v[9] = p[9] /\ v[10] = p[10]
    BY <2>2
  <2>4. k = 9 \/ k = 10
    BY <1>10
  <2> QED
    BY <2>3, <2>4, Zenon
<1>11. CASE k \in 11 .. n
  <2>1. v[3] = p[3] /\ v[7] = p[7] /\ v[8] = p[8]
    <3>1. 3 # k /\ 7 # k /\ 8 # k
      BY <1>11
    <3> QED
      BY <1>3, <1>4, <3>1, Zenon
  <2>2. compute_crc(r) # compute_crc(s)
    <3> DEFINE j == k - 10
    <3>0. n \in Nat /\ k \in 11 .. n
      BY <1>1, <1>11, Zenon
    <3>1. /\ j \in 1 .. n - 10 /\ 10 + j = k
          /\ \A i \in 1 .. n - 10 : i # j => 10 + i \in 1 .. n /\ 10 + i # k
      BY <3>0, BehindHeader, Zenon
    <3>5. Len(r) = n - 10 /\ Len(s) = Len(r) /\ r \in Seq(Nat) /\ s \in Seq(Nat)
      BY <1>7, <1>8
    <3> HIDE DEF j
    <3>2. r[j] = p[k] /\ s[j] = v[k]
      BY <1>7, <1>8, <3>1, Zenon
    <3>3. Mod(r[j]) # Mod(s[j])
      BY <3>2, Zenon
    <3>7. \A i \in 1 .. n - 10 : i # j => r[i] = s[i]
      BY <1>3, <1>7, <1>8, <3>1, Zenon
    <3>4. \A i \in 1 .. Len(r) : i # j => r[i] = s[i]
      BY <3>5, <3>7, Zenon
    <3>6. j \in 1 .. Len(r)
      BY <3>1, <3>5
    <3> QED
      BY <3>3, <3>4, <3>5, <3>6, OneCellTold
  <2>3. 10 + v[3] = n
    BY <1>1, <2>1, Zenon
  <2> QED
    BY <1>2, <1>6, <2>1, <2>2, <2>3, Zenon DEF r, s
<1> QED
  <2>1. k \in 2 .. 8 \/ k \in 9 .. 10 \/ k \in 11 .. n
    BY <1>1, <1>3
  <2> QED
    BY <1>9, <1>10, <1>11, <2>1

\* Two neighbours behind the first cell that have changed places are seen.
LEMMA SwapBehindRefused ==
    ASSUME NEW p \in Seq(Nat), WellMade(p), NEW v \in Seq(Nat), Len(v) = Len(p), NEW k \in 2 .. Len(p) - 1,
           Mod(p[k]) # Mod(p[k + 1]), v[k] = p[k + 1], v[k + 1] = p[k],
           \A i \in 1 .. Len(p) : i # k /\ i # k + 1 => v[i] = p[i]
    PROVE  Verdict(v) # "none"
<1> SUFFICES ASSUME Verdict(v) = "none" PROVE FALSE
  OBVIOUS
<1> DEFINE n == Len(p)
           l == k + 1
<1>1. n \in Nat /\ n >= 10 /\ n = 10 + p[3] /\ p[1] = SOP
  BY DEF WellMade
<1>2. /\ compute_crc(SubSeq(p, 1, 8)) = <<p[9], p[10]>>
      /\ compute_crc(SubSeq(p, 11, n)) = <<p[7], p[8]>>
  BY DEF WellMade
<1>3. /\ Len(v) = n /\ k \in 2 .. n - 1 /\ \A i \in 1 .. n : i # k /\ i # l => v[i] = p[i]
      /\ Mod(p[k]) # Mod(p[l]) /\ v[k] = p[l] /\ v[l] = p[k] /\ l = k + 1
  OBVIOUS
<1> HIDE DEF n, l
<1>a. n \in Nat /\ n >= 10 /\ k \in 2 .. n - 1
  BY <1>1, <1>3
<1>4. 1 \in 1 .. n /\ 3 \in 1 .. n /\ 7 \in 1 .. n /\ 8 \in 1 .. n /\ 9 \in 1 .. n /\ 10 \in 1 .. n
  BY <1>a
<1>5. v[1] = SOP
  <2>1. \A i \in 2 .. n - 1 : 1 # i /\ 1 # i + 1
    BY <1>a
  <2>2. 1 # k /\ 1 # l
    BY <1>3, <2>1, Zenon
  <2> QED
    BY <1>1, <1>3, <1>4, <2>2, Zenon
<1>6. /\ v[3] \in Nat /\ 10 + v[3] <= Len(v)
      /\ compute_crc(SubSeq(v, 1, 8)) = <<v[9], v[10]>>
      /\ compute_crc(SubSeq(v, 11, 10 + v[3])) = <<v[7], v[8]>>
  <2>1. Len(v) >= 1
    BY <1>1, <1>3
  <2> QED
    BY <1>5, <2>1, AcceptedFirst, Zenon
<1> DEFINE x == SubSeq(p, 1, 8)
           y == SubSeq(v, 1, 8)
           r == SubSeq(p, 11, n)
           s == SubSeq(v, 11, n)
<1>7. /\ x \in Seq(Nat) /\ Len(x) = 8 /\ \A i \in 1 .. 8 : x[i] = p[i]
      /\ r \in Seq(Nat) /\ Len(r) = n - 10 /\ \A i \in 1 .. n - 10 : r[i] = p[10 + i]
  <2>1. Len(p) >= 10
    BY <1>1 DEF n
  <2> QED
    BY <2>1, Parts, Zenon DEF n
<1>8. /\ y \in Seq(Nat) /\ Len(y) = 8 /\ \A i \in 1 .. 8 : y[i] = v[i]
      /\ s \in Seq(Nat) /\ Len(s) = n - 10 /\ \A i \in 1 .. n - 10 : s[i] = v[10 + i]
  <2>1. Len(v) >= 10
    BY <1>1, <1>3
  <2> QED
    BY <1>3, <2>1, Parts, Zenon
<1> HIDE DEF x, y, r, s
<1>0. /\ Len(x) = 8 /\ Len(y) = Len(x) /\ x \in Seq(Nat) /\ y \in Seq(Nat)
      /\ Len(r) = n - 10 /\ Len(s) = Len(r) /\ r \in Seq(Nat) /\ s \in Seq(Nat)
  BY <1>7, <1>8
<1>9. CASE k \in 2 .. 7
  <2>1. v[9] = p[9] /\ v[10] = p[10]
    <3>1. \A i \in 2 .. 7 : 9 # i /\ 10 # i /\ 9 # i + 1 /\ 10 # i + 1
      OBVIOUS
    <3>2. 9 # k /\ 10 # k /\ 9 # l /\ 10 # l
      BY <1>3, <1>9, <3>1, Zenon
    <3> QED
      BY <1>3, <1>4, <3>2, Zenon
  <2>2. compute_crc(x) # compute_crc(y)
    <3>1. \A i \in 2 .. 7 : i \in 1 .. 8 /\ i + 1 \in 1 .. 8 /\ i \in 1 .. 8 - 1
      OBVIOUS
    <3>2. k \in 1 .. 8 /\ k + 1 \in 1 .. 8 /\ k \in 1 .. 8 - 1
      BY <1>9, <3>1, Zenon
    <3>3. k \in 1 .. Len(x) - 1
      BY <1>0, <3>2, Zenon
    <3>4. \A i \in 1 .. 8 : i \in 1 .. n
      BY <1>a
    <3>5. Mod(x[k]) # Mod(x[k + 1]) /\ y[k] = x[k + 1] /\ y[k + 1] = x[k]
      <4>1. x[k] = p[k] /\ x[k + 1] = p[l] /\ y[k] = v[k] /\ y[k + 1] = v[l]
        BY <1>3, <1>7, <1>8, <3>2, Zenon
      <4> QED
        BY <1>3, <4>1, Zenon
    <3>6. \A i \in 1 .. 8 : i # k /\ i # k + 1 => x[i] = y[i]
      BY <1>3, <1>7, <1>8, <3>4, Zenon
    <3>7. \A i \in 1 .. Len(x) : i # k /\ i # k + 1 => x[i] = y[i]
      BY <1>0, <3>6, Zenon
    <3> QED
      BY <1>0, <3>3, <3>5, <3>7, SwapTold
  <2> QED
    BY <1>2, <1>6, <2>1, <2>2, Zenon DEF x, y
<1>10. CASE k = 8
  <2>1. l = 9 /\ v[8] = p[9] /\ v[10] = p[10]
    <3>1. l = 9
      BY <1>3, <1>10
    <3>2. 10 # 8 /\ 10 # 9
      OBVIOUS
    <3> QED
      BY <1>3, <1>4, <1>10, <3>1, <3>2, Zenon
  <2>2. compute_crc(x)[2] # compute_crc(y)[2]
    <3>1. 8 \in 1 .. 8 /\ \A i \in 1 .. 8 : i \in 1 .. n /\ (i # 8 => i # 9)
      BY <1>a
    <3>2. 8 \in 1 .. Len(x)
      BY <1>0, <3>1, Zenon
    <3>3. Mod(x[8]) # Mod(y[8])
      BY <1>3, <1>7, <1>8, <1>10, <2>1, <3>1, Zenon
    <3>4. \A i \in 1 .. 8 : i # 8 => x[i] = y[i]
      BY <1>3, <1>7, <1>8, <1>10, <2>1, <3>1, Zenon
    <3>5. \A i \in 1 .. Len(x) : i # 8 => x[i] = y[i]
      BY <1>0, <3>4, Zenon
    <3> QED
      BY <1>0, <3>2, <3>3, <3>5, OneCellTold
  <2>3. compute_crc(x) = <<p[9], p[10]>> /\ compute_crc(y) = <<v[9], v[10]>>
    BY <1>2, <1>6, Zenon DEF x, y
  <2>4. compute_crc(x)[2] = p[10] /\ compute_crc(y)[2] = v[10]
    BY <2>3
  <2> QED
    BY <2>1, <2>2, <2>4, Zenon
<1>11. CASE k \in {9, 10}
  <2>1. x = y
    <3>1. \A i \in 1 .. 8 : i \in 1 .. n /\ i # 9 /\ i # 10 /\ i # 9 + 1 /\ i # 10 + 1
      BY <1>a
    <3>2. \A i \in 1 .. 8 : i # k /\ i # l
      BY <1>3, <1>11, <3>1, Zenon
    <3>3. \A i \in 1 .. 8 : x[i] = y[i]
      BY <1>3, <1>7, <1>8, <3>1, <3>2, Zenon
    <3>4. \A i \in 1 .. Len(x) : x[i] = y[i]
      BY <1>0, <3>3, Zenon
    <3> QED
      BY <1>0, <3>4, SameSequence
  <2>2. <<v[9], v[10]>> = <<p[9], p[10]>>
    BY <1>2, <1>6, <2>1, Zenon DEF x, y
  <2>3. v[9] = p[9] /\ v[10] = p[10]
    BY <2>2
  <2>4. v[k] = p[k]
    BY <1>11, <2>3, Zenon
  <2> QED
    BY <1>3, <2>4, Zenon
<1>12. CASE k \in 11 .. n - 1
  <2>1. v[3] = p[3] /\ v[7] = p[7] /\ v[8] = p[8]
    <3>1. \A i \in 11 .. n - 1 : 3 # i /\ 7 # i /\ 8 # i /\ 3 # i + 1 /\ 7 # i + 1 /\ 8 # i + 1
      BY <1>a
    <3>2. 3 # k /\ 7 # k /\ 8 # k /\ 3 # l /\ 7 # l /\ 8 # l
      BY <1>3, <1>12, <3>1, Zenon
    <3> QED
      BY <1>3, <1>4, <3>2, Zenon
  <2>2. compute_crc(r) # compute_crc(s)
    <3> DEFINE j == k - 10
    <3>1. /\ j \in 1 .. n - 10 - 1 /\ j \in 1 .. n - 10 /\ j + 1 \in 1 .. n - 10
          /\ 10 + j = k /\ 10 + (j + 1) = k + 1
          /\ \A i \in 1 .. n - 10 : i # j /\ i # j + 1 => 10 + i \in 1 .. n /\ 10 + i # k /\ 10 + i # k + 1
      <4>1. \A q \in 11 .. n - 1 :
              /\ q - 10 \in 1 .. n - 10 - 1 /\ q - 10 \in 1 .. n - 10 /\ q - 10 + 1 \in 1 .. n - 10
              /\ 10 + (q - 10) = q /\ 10 + (q - 10 + 1) = q + 1
              /\ \A i \in 1 .. n - 10 : i # q - 10 /\ i # q - 10 + 1
                     => 10 + i \in 1 .. n /\ 10 + i # q /\ 10 + i # q + 1
        BY <1>a
      <4> QED
        BY <1>12, <4>1, Zenon
    <3> HIDE DEF j
    <3>2. r[j] = p[k] /\ s[j] = v[k] /\ r[j + 1] = p[l] /\ s[j + 1] = v[l]
      BY <1>3, <1>7, <1>8, <3>1, Zenon
    <3>3. Mod(r[j]) # Mod(r[j + 1]) /\ s[j] = r[j + 1] /\ s[j + 1] = r[j]
      BY <1>3, <3>2, Zenon
    <3>4. \A i \in 1 .. n - 10 : i # j /\ i # j + 1 => r[i] = s[i]
      BY <1>3, <1>7, <1>8, <3>1, Zenon
    <3>5. \A i \in 1 .. Len(r) : i # j /\ i # j + 1 => r[i] = s[i]
      BY <1>0, <3>4, Zenon
    <3>6. j \in 1 .. Len(r) - 1
      BY <1>0, <3>1, Zenon
    <3> QED
      BY <1>0, <3>3, <3>5, <3>6, SwapTold
  <2>3. 10 + v[3] = n
    BY <1>1, <2>1, Zenon
  <2> QED
    BY <1>2, <1>6, <2>1, <2>2, <2>3, Zenon DEF r, s
<1> QED
  <2>1. k \in 2 .. 7 \/ k = 8 \/ k \in {9, 10} \/ k \in 11 .. n - 1
    BY <1>a
  <2> QED
    BY <1>9, <1>10, <1>11, <1>12, <2>1

\* Nor is a packet accepted whose first cell has changed places with its version: what would be
\* the version then is the length, and no payload has one cell.
LEMMA SwapFirstRefused ==
    ASSUME NEW p \in Seq(Nat), WellMade(p), NEW v \in Seq(Nat), Len(v) = Len(p),
           v[1] = p[2], v[2] = p[1], v[3] = p[3]
    PROVE  Verdict(v) # "none"
<1> SUFFICES ASSUME Verdict(v) = "none" PROVE FALSE
  OBVIOUS
<1>1. v[1] = VER /\ v[2] = SOP /\ v[3] # VER /\ VER # SOP
  <2>1. VER # SOP
    BY PacketAssumption DEF VER, SOP
  <2> QED
    BY <2>1, Zenon DEF WellMade
<1>2. Len(v) \in Nat /\ Len(v) >= 10
  BY DEF WellMade
<1> DEFINE pos == find_sop(v)
           a == pos - 1
<1>3. a \in Nat /\ v[a + 1] = SOP /\ v[a + 2] = VER /\ a + 10 <= Len(v)
  BY Accepted, Zenon
<1>4. pos \in 1 .. Len(v) + 1 /\ \A j \in 1 .. pos - 1 : v[j] # SOP
  BY FoundSop
<1> HIDE DEF pos
<1>5. a + 1 = pos /\ a + 2 = pos + 1
  BY <1>4
<1>6. pos # 1
  BY <1>1, <1>3, <1>5, Zenon
<1>7. ~(2 \in 1 .. pos - 1)
  BY <1>1, <1>4, Zenon
<1>8. pos = 2
  BY <1>2, <1>4, <1>6, <1>7
<1>9. v[3] = VER
  <2>1. pos + 1 = 3
    BY <1>8
  <2> QED
    BY <1>3, <1>5, <2>1, Zenon
<1> QED
  BY <1>1, <1>9, Zenon

\* A packet whose end is missing is refused: its header is, or tells that cells are missing.
LEMMA CutRefused ==
    ASSUME NEW p \in Seq(Nat), WellMade(p), NEW m \in 0 .. Len(p) - 1
    PROVE  Verdict(SubSeq(p, 1, m)) # "none"
<1> SUFFICES ASSUME Verdict(SubSeq(p, 1, m)) = "none" PROVE FALSE
  OBVIOUS
<1> DEFINE v == SubSeq(p, 0 + 1, 0 + m)
<1>0. m \in Nat /\ Len(p) \in Nat /\ m < Len(p) /\ 0 + m <= Len(p)
  OBVIOUS
<1>1. v \in Seq(Nat) /\ Len(v) = m /\ \A i \in 1 .. m : v[i] = p[0 + i]
  <2>1. 0 \in Nat
    OBVIOUS
  <2> QED
    BY <1>0, <2>1, CutOut, Zenon
<1>2. v = SubSeq(p, 1, m)
  BY <1>0
<1>3. Verdict(v) = "none"
  BY <1>2, Zenon
<1> HIDE DEF v
<1>4. Len(v) >= 10
  <2> DEFINE a == find_sop(v) - 1
  <2>1. a \in Nat /\ a + 10 <= Len(v)
    BY <1>1, <1>3, Accepted, Zenon
  <2> HIDE DEF a
  <2> QED
    BY <1>0, <1>1, <2>1
<1>5. v[1] = p[1] /\ v[3] = p[3]
  <2>1. 1 \in 1 .. m /\ 3 \in 1 .. m /\ 0 + 1 = 1 /\ 0 + 3 = 3
    BY <1>0, <1>1, <1>4
  <2>2. v[1] = p[0 + 1] /\ v[3] = p[0 + 3]
    BY <1>1, <2>1, Zenon
  <2> QED
    BY <2>1, <2>2, Zenon
<1>6. v[1] = SOP /\ Len(v) >= 1
  <2>1. Len(v) >= 1
    BY <1>0, <1>1, <1>4
  <2> QED
    BY <1>5, <2>1, Zenon DEF WellMade
<1>7. 10 + v[3] <= Len(v)
  BY <1>1, <1>3, <1>6, AcceptedFirst, Zenon
<1>8. Len(p) <= m
  <2>1. Len(p) = 10 + p[3]
    BY Zenon DEF WellMade
  <2>2. 10 + v[3] = 10 + p[3]
    BY <1>5, Zenon
  <2>3. Len(p) <= Len(v)
    BY <1>7, <2>1, <2>2, Zenon
  <2> QED
    BY <1>1, <2>3, Zenon
<1> QED
  BY <1>0, <1>8

\* No payload has one cell: a block has two for its header.
LEMMA NoPayloadOfOne == ASSUME NEW bs \in BlockSeq PROVE Len(make_payload(bs)) # 1
<1> DEFINE n(i) == Len(Payloads(bs)[i])
           l(i) == Len(bs[i].data)
           N    == Len(bs)
<1>1. N \in Nat /\ \A i \in 1 .. N : l(i) \in Nat
  BY BlockOf
<1>2. n(0) = 0 /\ \A i \in 1 .. N : n(i) = n(i - 1) + (l(i) + 2)
  BY PayloadLength
<1>3. make_payload(bs) = Payloads(bs)[N]
  BY PayloadStep
<1>4. \A i \in 0 .. N : n(i) \in Nat
  <2>1. \A i \in 0 .. N : Payloads(bs)[i] \in Seq(Nat)
    BY PayloadsType
  <2>2. \A x \in Seq(Nat) : Len(x) \in Nat
    OBVIOUS
  <2> QED
    BY <2>1, <2>2, Zenon
<1>5. n(N) # 1
  <2> HIDE DEF n, l, N
  <2>1. CASE N = 0
    BY <1>2, <2>1
  <2>2. CASE N # 0
    <3>1. N \in 1 .. N /\ N - 1 \in 0 .. N
      BY <1>1, <2>2
    <3>2. n(N) = n(N - 1) + (l(N) + 2) /\ n(N - 1) \in Nat /\ l(N) \in Nat
      BY <1>1, <1>2, <1>4, <3>1, Zenon
    <3> QED
      BY <3>2
  <2> QED
    BY <2>1, <2>2
<1> QED
  BY <1>3, <1>5, Zenon

\* Every packet that make_header and make_payload make, and whose header can describe it.
LEMMA MadeIsWell ==
    ASSUME NEW id \in Nat, NEW t \in Nat, \E k \in DOMAIN Types : t = Types[k],
           NEW bs \in BlockSeq, MaxPl < Word, Len(make_payload(bs)) <= MaxPl,
           NEW p, p = Make(id, t, bs), Verdict(p) = "none"
    PROVE  WellMade(p)
<1> DEFINE L == Len(make_payload(bs))
<1>1. Copied(p) = p /\ p \in Seq(Nat) /\ p[1] = SOP /\ Len(p) = 10 + L
  BY PacketReadsBack DEF SizeofHeader
<1>2. L # 1
  BY NoPayloadOfOne
<1> HIDE DEF L
<1>3. Len(p) \in Nat
  BY <1>1
<1>4. Verdict(p) = "none"
  OBVIOUS
<1>5. find_sop(p) = 1 /\ Len(p) >= 1
  <2> DEFINE a == find_sop(p) - 1
  <2>1. a \in Nat /\ a + 10 <= Len(p)
    BY <1>1, <1>4, Accepted, Zenon
  <2> HIDE DEF a
  <2>2. Len(p) >= 1
    BY <1>3, <2>1
  <2>3. p # <<>>
    BY <2>2
  <2> QED
    BY <1>1, <2>2, <2>3, FindsFirst
<1>6. /\ 10 <= Len(p) /\ p[3] \in Nat /\ 10 + p[3] <= Len(p)
      /\ compute_crc(SubSeq(p, 1, 8)) = <<p[9], p[10]>>
      /\ compute_crc(SubSeq(p, 11, 10 + p[3])) = <<p[7], p[8]>>
  BY <1>1, <1>4, <1>5, AcceptedFirst, Zenon
<1>7. p[2] = VER
  <2> DEFINE a == find_sop(p) - 1
  <2>1. p[a + 2] = VER
    BY <1>1, <1>4, Accepted, Zenon
  <2>2. a + 2 = 2
    BY <1>5
  <2> QED
    BY <2>1, <2>2, Zenon
<1>8. Len(p) = 10 + p[3]
  <2> DEFINE m == 10 + p[3]
             c == SubSeq(p, 0 + 1, 0 + m)
  <2>1. m \in Nat /\ 0 \in Nat /\ 0 + m <= Len(p) /\ 1 - 1 + 3 = 3 /\ 1 + m - 1 = 0 + m /\ 0 + 1 = 1
    BY <1>3, <1>6
  <2>2. Copied(p) = Cells(p, 1, 10 + p[1 - 1 + 3])
    BY <1>5, Zenon DEF Copied, SizeofHeader, len
  <2>3. Copied(p) = c
    BY <2>1, <2>2, Zenon DEF Cells
  <2> HIDE DEF m
  <2>4. Len(c) = m
    <3>1. p \in Seq(Nat) /\ 0 \in Nat /\ m \in Nat /\ 0 + m <= Len(p)
      BY <1>1, <2>1
    <3> QED
      BY <3>1, CutOut
  <2> HIDE DEF c
  <2> QED
    BY <1>1, <2>3, <2>4, Zenon DEF m
<1>9. p[3] = L
  <2>1. \A i, j \in Nat : 10 + i = 10 + j => i = j
    OBVIOUS
  <2>2. L \in Nat
    <3>1. \A x \in Seq(Nat) : Len(x) \in Nat
      OBVIOUS
    <3>2. make_payload(bs) \in Seq(Nat)
      <4>1. Len(bs) \in 0 .. Len(bs)
        BY BlockOf
      <4> QED
        BY <4>1, PayloadsType, PayloadStep
    <3> QED
      BY <3>1, <3>2 DEF L
  <2> QED
    BY <1>1, <1>6, <1>8, <2>1, <2>2, Zenon
<1>10. p[3] # VER
  BY <1>2, <1>9 DEF VER
<1> QED
  BY <1>1, <1>3, <1>6, <1>7, <1>8, <1>10, Zenon DEF WellMade

\* The constructor looks at nothing that comes before the first start of packet.
LEMMA VerdictFromStart ==
    ASSUME NEW v \in Seq(Nat), NEW a \in Nat, find_sop(v) = a + 1, a < Len(v)
    PROVE  LET w == SubSeq(v, a + 1, Len(v))
           IN  /\ w \in Seq(Nat) /\ Len(w) = Len(v) - a /\ w # <<>> /\ w[1] = SOP
               /\ \A i \in 1 .. Len(w) : w[i] = v[a + i]
               /\ Verdict(w) = Verdict(v)
<1> DEFINE N == Len(v)
           n == N - a
           w == SubSeq(v, a + 1, a + n)
           h == SubSeq(v, a + 1, a + 10)
           m == h[3]
           q == SubSeq(v, a + 10 + 1, a + 10 + m)
<1>1. N \in Nat /\ n \in Nat /\ a + n = N /\ a + n <= Len(v) /\ n >= 1 /\ Len(v) = N /\ a < N
  OBVIOUS
<1>2. w = SubSeq(v, a + 1, Len(v))
  BY <1>1
<1>3. find_sop(v) = a + 1 /\ v[a + 1] = SOP
  <2>1. a + 1 <= Len(v)
    BY <1>1
  <2>2. find_sop(v) = a + 1 /\ v \in Seq(Nat)
    OBVIOUS
  <2> QED
    BY <2>1, <2>2, FoundSop, Zenon
<1> HIDE DEF N, n
<1>4. w \in Seq(Nat) /\ Len(w) = n /\ \A i \in 1 .. n : w[i] = v[a + i]
  <2>1. v \in Seq(Nat) /\ a \in Nat /\ n \in Nat /\ a + n <= Len(v)
    BY <1>1
  <2> QED
    BY <2>1, CutOut
<1>5. w[1] = SOP /\ w # <<>>
  <2>1. 1 \in 1 .. n /\ n # 0
    BY <1>1
  <2>2. w[1] = SOP /\ Len(w) # 0
    BY <1>3, <1>4, <2>1, Zenon
  <2> HIDE DEF w
  <2> QED
    BY <2>2
<1>6. find_sop(w) = 1
  BY <1>4, <1>5, FindsFirst, Zenon
<1>7. Cells(v, a + 1, 10) = h
  <2>1. a + 1 + 10 - 1 = a + 10
    OBVIOUS
  <2> QED
    BY <2>1, Zenon DEF Cells
<1>8. ASSUME n < 10 PROVE Verdict(w) = Verdict(v)
  <2> HIDE DEF w, h
  <2>1. a + 1 - 1 + 10 > Len(v) /\ ~(a + 1 > Len(v))
    BY <1>1, <1>8
  <2>2. 1 - 1 + 10 > Len(w) /\ ~(1 > Len(w))
    BY <1>1, <1>4, <1>8
  <2>3. Verdict(v) = "invalid_buffer_size"
    BY <1>3, <2>1 DEF Verdict, SizeofHeader
  <2>4. Verdict(w) = "invalid_buffer_size"
    BY <1>6, <2>2, Zenon DEF Verdict, SizeofHeader
  <2> QED
    BY <2>3, <2>4, Zenon
<1>9. ASSUME ~(n < 10) PROVE Verdict(w) = Verdict(v)
  <2>1. n >= 10 /\ a + 10 <= Len(v)
    BY <1>1, <1>9
  <2>2. Cells(w, 1, 10) = h
    <3> DEFINE b == 0
               c == 10
    <3>1. /\ v \in Seq(Nat) /\ a \in Nat /\ n \in Nat /\ a + n <= Len(v)
          /\ b \in Nat /\ c \in Nat /\ b + c <= n
      BY <1>1, <2>1
    <3> HIDE DEF b, c
    <3>2. SubSeq(w, b + 1, b + c) = SubSeq(v, a + b + 1, a + b + c)
      BY <3>1, CutAgain
    <3> HIDE DEF w
    <3>5. b + 1 = 1 /\ b + c = 10 /\ a + b + 1 = a + 1 /\ a + b + c = a + 10
      BY DEF b, c
    <3>3. SubSeq(w, 1, 10) = h
      BY <3>2, <3>5, Zenon
    <3>4. 1 + 10 - 1 = 10
      OBVIOUS
    <3> QED
      BY <3>3, <3>4, Zenon DEF Cells
  <2>3. m \in Nat
    <3>1. v \in Seq(Nat) /\ a \in Nat /\ 10 \in Nat /\ a + 10 <= Len(v)
      BY <2>1
    <3>2. h \in Seq(Nat) /\ Len(h) = 10
      BY <3>1, CutOut
    <3> HIDE DEF h
    <3>3. 3 \in 1 .. Len(h)
      BY <3>2
    <3> QED
      BY <3>2, <3>3, CellIn, Zenon
  <2> HIDE DEF h, m
  <2>4. 10 + m <= n => Cells(w, 11, m) = Cells(v, a + 11, m)
    <3> SUFFICES ASSUME 10 + m <= n PROVE Cells(w, 11, m) = Cells(v, a + 11, m)
      OBVIOUS
    <3> DEFINE b == 10
    <3>1. /\ v \in Seq(Nat) /\ a \in Nat /\ n \in Nat /\ a + n <= Len(v)
          /\ b \in Nat /\ m \in Nat /\ b + m <= n
      BY <1>1, <2>3
    <3> HIDE DEF b
    <3>2. SubSeq(w, b + 1, b + m) = SubSeq(v, a + b + 1, a + b + m)
      BY <3>1, CutAgain
    <3> HIDE DEF w
    <3>3. b + 1 = 11 /\ a + b + 1 = a + 11 /\ 11 + m - 1 = b + m /\ a + 11 + m - 1 = a + b + m
      BY <2>3 DEF b
    <3> QED
      BY <3>2, <3>3, Zenon DEF Cells
  <2> HIDE DEF w
  <2>5. /\ a + 1 - 1 + 10 = a + 10 /\ 1 - 1 + 10 = 10 /\ a + 10 + 1 = a + 11 /\ 10 + 1 = 11
        /\ ~(a + 1 > Len(v)) /\ ~(1 > Len(w)) /\ ~(a + 10 > Len(v)) /\ ~(10 > Len(w))
        /\ (a + 10 + m > Len(v)) = (10 + m > Len(w)) /\ (~(10 + m > Len(w)) => 10 + m <= n)
    BY <1>1, <1>4, <2>1, <2>3
  <2>6. Verdict(v) = IF parse_header(h) # "none" THEN parse_header(h)
                     ELSE IF a + 10 + m > Len(v) THEN "invalid_buffer_size"
                     ELSE parse_payload(Cells(v, a + 11, m), h)
    BY <1>3, <1>7, <2>5 DEF Verdict, SizeofHeader, len, m
  <2>7. Verdict(w) = IF parse_header(h) # "none" THEN parse_header(h)
                     ELSE IF 10 + m > Len(w) THEN "invalid_buffer_size"
                     ELSE parse_payload(Cells(w, 11, m), h)
    BY <1>6, <2>2, <2>5 DEF Verdict, SizeofHeader, len, m
  <2> QED
    BY <2>4, <2>5, <2>6, <2>7
<1>10. Verdict(w) = Verdict(v)
  BY <1>8, <1>9, Zenon
<1>11. Len(w) = Len(v) - a
  BY <1>1, <1>4
<1> HIDE DEF w
<1>12. /\ w \in Seq(Nat) /\ Len(w) = Len(v) - a /\ w # <<>> /\ w[1] = SOP
       /\ \A i \in 1 .. Len(w) : w[i] = v[a + i]
       /\ Verdict(w) = Verdict(v)
  BY <1>4, <1>5, <1>10, <1>11, Zenon
<1> DEFINE x == SubSeq(v, a + 1, Len(v))
<1>13. w = x
  BY <1>2, Zenon
<1> HIDE DEF x
<1>14. /\ x \in Seq(Nat) /\ Len(x) = Len(v) - a /\ x # <<>> /\ x[1] = SOP
       /\ \A i \in 1 .. Len(x) : x[i] = v[a + i]
       /\ Verdict(x) = Verdict(v)
  BY <1>12, <1>13
<1> QED
  BY <1>14 DEF x

\* When the start of a packet is lost, find(sop) goes on behind it: what is accepted is a packet
\* that begins there.
LEMMA StartLost ==
    ASSUME NEW p \in Seq(Nat), NEW v \in Seq(Nat), Len(v) = Len(p), v[1] # SOP,
           \A i \in 1 .. Len(p) : i # 1 => v[i] = p[i], Verdict(v) = "none"
    PROVE  PacketInside(p)
<1> DEFINE N == Len(p)
           a == find_sop(v) - 1
           n == N - a
           w == SubSeq(v, a + 1, Len(v))
           u == SubSeq(p, a + 1, a + n)
<1>1. N \in Nat /\ Len(v) = N /\ v[1] # SOP /\ \A i \in 1 .. N : i # 1 => v[i] = p[i]
  <2>1. N \in Nat
    OBVIOUS
  <2> QED
    BY <2>1, Zenon
<1>2. a \in Nat /\ a + 10 <= Len(v) /\ v[a + 1] = SOP
  BY Accepted, Zenon
<1>3. Verdict(v) = "none" /\ find_sop(v) = a + 1
  <2>1. find_sop(v) \in Nat
    BY FoundSop
  <2> QED
    BY <2>1
<1> HIDE DEF N, a
<1>4. a + n = N /\ n \in Nat /\ a + n <= Len(p) /\ a < Len(v) /\ Len(v) - a = n
  BY <1>1, <1>2 DEF N
<1>5. a # 0
  <2>1. 0 + 1 = 1
    OBVIOUS
  <2> QED
    BY <1>1, <1>2, <2>1, Zenon
<1>6. w \in Seq(Nat) /\ Len(w) = n /\ Verdict(w) = "none" /\ \A i \in 1 .. Len(w) : w[i] = v[a + i]
  BY <1>2, <1>3, <1>4, VerdictFromStart, Zenon
<1> HIDE DEF n, w
<1>7. u \in Seq(Nat) /\ Len(u) = n /\ \A i \in 1 .. n : u[i] = p[a + i]
  <2>1. p \in Seq(Nat) /\ a \in Nat /\ n \in Nat /\ a + n <= Len(p)
    BY <1>2, <1>4
  <2> QED
    BY <2>1, CutOut
<1>8. u = SubSeq(p, a + 1, Len(p))
  BY <1>4, Zenon DEF N
<1> HIDE DEF u
<1>9. w = u
  <2>1. \A i \in 1 .. n : a + i \in 1 .. N /\ a + i # 1
    BY <1>1, <1>2, <1>4, <1>5
  <2>2. \A i \in 1 .. Len(w) : w[i] = u[i]
    BY <1>1, <1>6, <1>7, <2>1, Zenon
  <2>3. Len(w) = Len(u)
    BY <1>6, <1>7
  <2> QED
    BY <1>6, <1>7, <2>2, <2>3, SameSequence, Zenon
<1>10. a + 1 \in 2 .. Len(p)
  BY <1>1, <1>2, <1>5 DEF N
<1> QED
  BY <1>6, <1>8, <1>9, <1>10, Zenon DEF PacketInside

\* A buffer in which one cell has been replaced.
LEMMA Replaced ==
    ASSUME NEW p \in Seq(Nat), NEW i \in 1 .. Len(p), NEW x \in Nat
    PROVE  LET v == [p EXCEPT ![i] = x]
           IN  /\ v \in Seq(Nat) /\ Len(v) = Len(p) /\ v[i] = x
               /\ \A j \in 1 .. Len(p) : j # i => v[j] = p[j]
OBVIOUS

\* What was damaged in one cell.
LEMMA DamagedAt ==
    ASSUME NEW p \in Seq(Nat), NEW at \in SUBSET (1 .. Len(p)), NEW v \in Damaged(p, at)
    PROVE  /\ v \in Seq(Nat) /\ Len(v) = Len(p)
           /\ \E i \in at : /\ Mod(v[i]) # Mod(p[i])
                            /\ \A j \in 1 .. Len(p) : j # i => v[j] = p[j]
<1>1. PICK i \in at, d \in 1 .. Byte - 1 : v = [p EXCEPT ![i] = (@ + d) % Byte]
  BY DEF Damaged
<1> DEFINE x == Mod(p[i] + d)
<1>2. v = [p EXCEPT ![i] = x]
  BY <1>1 DEF Mod
<1>3. i \in 1 .. Len(p) /\ p[i] \in Nat
  OBVIOUS
<1>4. x \in Nat /\ Mod(x) # Mod(p[i])
  BY <1>3, Shifted
<1> HIDE DEF x
<1>5. v \in Seq(Nat) /\ Len(v) = Len(p) /\ v[i] = x /\ \A j \in 1 .. Len(p) : j # i => v[j] = p[j]
  BY <1>2, <1>3, <1>4, Replaced
<1> QED
  BY <1>4, <1>5, Zenon

\* What has two neighbours in the place of each other.
LEMMA SwappedAt ==
    ASSUME NEW p \in Seq(Nat), NEW v \in Swapped(p)
    PROVE  /\ v \in Seq(Nat) /\ Len(v) = Len(p)
           /\ \E k \in 1 .. Len(p) - 1 :
                 /\ Mod(p[k]) # Mod(p[k + 1]) /\ v[k] = p[k + 1] /\ v[k + 1] = p[k]
                 /\ \A j \in 1 .. Len(p) : j # k /\ j # k + 1 => v[j] = p[j]
<1>1. PICK k \in 1 .. Len(p) - 1 : /\ p[k] % Byte # p[k + 1] % Byte
                                   /\ v = [p EXCEPT ![k] = p[k + 1], ![k + 1] = p[k]]
  BY DEF Swapped
<1> DEFINE l == k + 1
           u == [p EXCEPT ![k] = p[l]]
           w == [u EXCEPT ![l] = p[k]]
<1>2. k \in 1 .. Len(p) /\ l \in 1 .. Len(p) /\ l # k /\ p[k] \in Nat /\ p[l] \in Nat
  OBVIOUS
<1>3. v = w
  BY <1>1
<1>4. Mod(p[k]) # Mod(p[l])
  BY <1>1, Zenon DEF Mod
<1> HIDE DEF l
<1>5. u \in Seq(Nat) /\ Len(u) = Len(p) /\ u[k] = p[l] /\ \A j \in 1 .. Len(p) : j # k => u[j] = p[j]
  BY <1>2, Replaced
<1> HIDE DEF u
<1>6. w \in Seq(Nat) /\ Len(w) = Len(u) /\ w[l] = p[k] /\ \A j \in 1 .. Len(u) : j # l => w[j] = u[j]
  BY <1>2, <1>5, Replaced
<1> HIDE DEF w
<1>7. w[k] = p[l] /\ \A j \in 1 .. Len(p) : j # k /\ j # l => w[j] = p[j]
  BY <1>2, <1>5, <1>6, Zenon
<1> QED
  BY <1>3, <1>4, <1>5, <1>6, <1>7, Zenon DEF l

\* No damage to a well-made packet is accepted, but the loss of a start with a packet behind it.
LEMMA WellMadeDamaged ==
    ASSUME NEW p, WellMade(p)
    PROVE  /\ \A v \in Damaged(p, 2 .. Len(p)) \cup Swapped(p) \cup CutShort(p) : Verdict(v) # "none"
           /\ \A v \in Damaged(p, {1}) : Verdict(v) = "none" => PacketInside(p)
<1>1. /\ p \in Seq(Nat) /\ Len(p) \in Nat /\ Len(p) >= 10 /\ p[1] = SOP /\ WellMade(p)
  BY DEF WellMade
<1>2. ASSUME NEW v \in Damaged(p, 2 .. Len(p)) PROVE Verdict(v) # "none"
  <2> DEFINE at == 2 .. Len(p)
  <2>1. at \in SUBSET (1 .. Len(p)) /\ v \in Damaged(p, at) /\ p \in Seq(Nat)
    BY <1>1, <1>2
  <2> HIDE DEF at
  <2>2. /\ v \in Seq(Nat) /\ Len(v) = Len(p)
        /\ \E i \in at : /\ Mod(v[i]) # Mod(p[i])
                         /\ \A j \in 1 .. Len(p) : j # i => v[j] = p[j]
    BY <2>1, DamagedAt
  <2> QED
    BY <1>1, <2>2, ChangeRefused DEF at
<1>3. ASSUME NEW v \in Swapped(p) PROVE Verdict(v) # "none"
  <2>1. v \in Seq(Nat) /\ Len(v) = Len(p)
    BY <1>1, <1>3, SwappedAt
  <2>2. PICK k \in 1 .. Len(p) - 1 :
           /\ Mod(p[k]) # Mod(p[k + 1]) /\ v[k] = p[k + 1] /\ v[k + 1] = p[k]
           /\ \A j \in 1 .. Len(p) : j # k /\ j # k + 1 => v[j] = p[j]
    BY <1>1, <1>3, SwappedAt
  <2>3. CASE k = 1
    <3>1. 3 \in 1 .. Len(p) /\ 3 # 1 /\ 3 # 1 + 1 /\ 1 + 1 = 2
      BY <1>1
    <3>2. v[1] = p[1 + 1] /\ v[1 + 1] = p[1] /\ v[3] = p[3]
      BY <2>2, <2>3, <3>1, Zenon
    <3>3. v[1] = p[2] /\ v[2] = p[1]
      BY <3>1, <3>2, Zenon
    <3> QED
      BY <1>1, <2>1, <3>2, <3>3, SwapFirstRefused
  <2>4. CASE k \in 2 .. Len(p) - 1
    BY <1>1, <2>1, <2>2, <2>4, SwapBehindRefused
  <2> QED
    BY <2>3, <2>4
<1>4. ASSUME NEW v \in CutShort(p) PROVE Verdict(v) # "none"
  <2>1. PICK m \in 0 .. Len(p) - 1 : v = SubSeq(p, 1, m)
    BY <1>4 DEF CutShort
  <2> QED
    BY <1>1, <2>1, CutRefused
<1>5. ASSUME NEW v \in Damaged(p, {1}), Verdict(v) = "none" PROVE PacketInside(p)
  <2>1. {1} \in SUBSET (1 .. Len(p))
    BY <1>1
  <2>2. /\ v \in Seq(Nat) /\ Len(v) = Len(p)
        /\ \E i \in {1} : /\ Mod(v[i]) # Mod(p[i])
                          /\ \A j \in 1 .. Len(p) : j # i => v[j] = p[j]
    BY <1>1, <1>5, <2>1, DamagedAt
  <2>3. Mod(v[1]) # Mod(p[1]) /\ \A j \in 1 .. Len(p) : j # 1 => v[j] = p[j]
    BY <2>2, Zenon
  <2>4. v[1] # SOP
    BY <1>1, <2>3, Zenon
  <2> QED
    BY <1>1, <1>5, <2>2, <2>3, <2>4, StartLost
<1> QED
  BY <1>2, <1>3, <1>4, <1>5, Zenon

\* The checksums do what they are for, whatever blocks a packet holds: no change of one cell
\* behind the first, no swap of two neighbours and no cut is accepted by the constructor; only when
\* the first cell is lost, and a whole packet stands behind it, is that one taken for this.
THEOREM DamageIsRefused ==
    ASSUME NEW id \in Nat, NEW t \in Nat, \E k \in DOMAIN Types : t = Types[k],
           NEW bs \in BlockSeq, MaxPl < Word, Len(make_payload(bs)) <= MaxPl,
           Len(bs) % CountMod = Len(bs)
    PROVE  LET p == Make(id, t, bs)
           IN  /\ \A v \in Damaged(p, 2 .. Len(p)) \cup Swapped(p) \cup CutShort(p) : Verdict(v) # "none"
               /\ \A v \in Damaged(p, {1}) : Verdict(v) = "none" => PacketInside(p)
<1> DEFINE p == Make(id, t, bs)
<1>1. p = Make(id, t, bs)
  OBVIOUS
<1> HIDE DEF p
<1>2. Verdict(p) = "none"
  BY <1>1, PacketReadsBack
<1>3. WellMade(p)
  BY <1>1, <1>2, MadeIsWell
<1> QED
  BY <1>3, WellMadeDamaged, Zenon DEF p

\* The constructor of a received packet, behind other bytes, for every packet and every such bytes:
\* the packet is found and passes every check, but the copy begins with those bytes and ends as
\* many cells before the packet's end, so that what the host then holds is not the packet.
THEOREM JunkIsCopied ==
    ASSUME NEW id \in Nat, NEW t \in Nat, \E k \in DOMAIN Types : t = Types[k],
           NEW bs \in BlockSeq, MaxPl < Word, Len(make_payload(bs)) <= MaxPl,
           Len(bs) % CountMod = Len(bs),
           NEW j \in Seq(Nat), j # <<>>, \A i \in 1 .. Len(j) : j[i] # SOP
    PROVE  LET p == Make(id, t, bs)
           IN  /\ Verdict(j \o p) = "none"
               /\ Copied(j \o p) = SubSeq(j \o p, 1, Len(p)) /\ Copied(j \o p) # p
<1> DEFINE p == Make(id, t, bs)
           v == j \o p
           a == Len(j)
           N == Len(p)
           w == SubSeq(v, a + 1, Len(v))
<1>1. Verdict(p) = "none" /\ WellMade(p)
  <2>1. p = Make(id, t, bs)
    OBVIOUS
  <2> HIDE DEF p
  <2>2. Verdict(p) = "none"
    BY <2>1, PacketReadsBack
  <2> QED
    BY <2>1, <2>2, MadeIsWell
<1>2. /\ p \in Seq(Nat) /\ N \in Nat /\ N >= 10 /\ N = 10 + p[3] /\ p[1] = SOP
  BY <1>1, Zenon DEF WellMade
<1>3. a \in Nat /\ a >= 1 /\ \A i \in 1 .. a : j[i] # SOP
  OBVIOUS
<1> HIDE DEF p
<1>4. /\ v \in Seq(Nat) /\ Len(v) = a + N
      /\ \A i \in 1 .. a : v[i] = j[i]
      /\ \A i \in 1 .. N : v[a + i] = p[i]
  <2>1. j \in Seq(Nat) /\ p \in Seq(Nat)
    BY <1>2
  <2>2. j \o p \in Seq(Nat) /\ Len(j \o p) = Len(j) + Len(p)
    BY <2>1, Joined
  <2>3. ASSUME NEW i \in 1 .. Len(j) PROVE (j \o p)[i] = j[i]
    BY <2>1, <2>3, Joined
  <2>4. ASSUME NEW i \in 1 .. Len(p) PROVE (j \o p)[Len(j) + i] = p[i]
    BY <2>1, <2>4, Joined
  <2> QED
    BY <2>2, <2>3, <2>4, Zenon
<1> HIDE DEF v, a, N
<1>0. N \in Nat /\ N >= 10 /\ a \in Nat /\ a >= 1 /\ Len(v) = a + N /\ v \in Seq(Nat)
  BY <1>2, <1>3, <1>4, Zenon
<1>5. find_sop(v) = a + 1
  <2> DEFINE pos == find_sop(v)
  <2>1. pos \in 1 .. Len(v) + 1 /\ (pos <= Len(v) => v[pos] = SOP) /\ \A i \in 1 .. pos - 1 : v[i] # SOP
    BY <1>4, FoundSop, Zenon
  <2> HIDE DEF pos
  <2>2. v[a + 1] = SOP
    <3>1. 1 \in 1 .. N
      BY <1>2
    <3> QED
      BY <1>2, <1>4, <3>1, Zenon
  <2>3. ~(a + 1 \in 1 .. pos - 1)
    BY <2>1, <2>2, Zenon
  <2>4. ~(pos \in 1 .. a)
    <3>1. \A i \in 1 .. a : i <= Len(v) /\ v[i] # SOP
      <4>1. \A i \in 1 .. a : i <= Len(v)
        BY <1>0
      <4> QED
        BY <1>3, <1>4, <4>1, Zenon
    <3> QED
      BY <2>1, <3>1, Zenon
  <2>5. pos = a + 1
    <3>1. pos \in Nat /\ pos >= 1
      BY <1>0, <2>1
    <3>2. ~(pos <= a)
      BY <1>0, <2>4, <3>1
    <3>3. ~(pos > a + 1)
      BY <1>0, <2>3, <3>1
    <3> QED
      BY <1>0, <3>1, <3>2, <3>3
  <2> QED
    BY <2>5 DEF pos
<1>6. w \in Seq(Nat) /\ Len(w) = N /\ Verdict(w) = Verdict(v) /\ \A i \in 1 .. Len(w) : w[i] = v[a + i]
  <2>1. a < Len(v) /\ Len(v) - a = N
    BY <1>0
  <2> QED
    BY <1>3, <1>4, <1>5, <2>1, VerdictFromStart, Zenon
<1> HIDE DEF w
<1>7. w = p
  <2>1. Len(w) = Len(p) /\ \A i \in 1 .. Len(w) : w[i] = p[i]
    BY <1>4, <1>6, Zenon DEF N
  <2> QED
    BY <1>2, <1>6, <2>1, SameSequence, Zenon
<1>8. Copied(v) = SubSeq(v, 1, N)
  <2>1. a + 1 - 1 + 3 = a + 3 /\ 3 \in 1 .. N /\ 1 + N - 1 = N
    BY <1>2, <1>3
  <2>2. v[a + 3] = p[3]
    BY <1>4, <2>1, Zenon
  <2>3. Copied(v) = Cells(v, 1, 10 + v[a + 3])
    <3>1. Copied(v) = Cells(v, 1, 10 + v[find_sop(v) - 1 + 3])
      BY SMT DEF Copied, SizeofHeader, len
    <3> DEFINE q == find_sop(v)
    <3>2. q = a + 1
      BY <1>5
    <3> HIDE DEF q
    <3>3. q - 1 + 3 = a + 3
      BY <1>0, <3>2
    <3> QED
      BY <3>1, <3>3, Zenon DEF q
  <2>4. Copied(v) = Cells(v, 1, N)
    BY <1>2, <2>1, <2>2, <2>3, Zenon
  <2> QED
    BY <2>1, <2>4, Zenon DEF Cells
<1>9. SubSeq(v, 1, N) # p
  <2> DEFINE z == 0
             y == SubSeq(v, z + 1, z + N)
  <2>1. v \in Seq(Nat) /\ z \in Nat /\ N \in Nat /\ z + N <= Len(v) /\ z + N = N /\ z + 1 = 1 /\ 1 \in 1 .. N
    BY <1>0
  <2>2. y = SubSeq(v, 1, N)
    BY <2>1, Zenon
  <2> HIDE DEF z
  <2>3. \A i \in 1 .. N : y[i] = v[z + i]
    BY <2>1, CutOut
  <2> HIDE DEF y
  <2>4. y[1] = v[1]
    BY <2>1, <2>3, Zenon
  <2>5. v[1] # SOP
    <3>1. 1 \in 1 .. a
      BY <1>3
    <3> QED
      BY <1>3, <1>4, <3>1, Zenon
  <2> QED
    BY <1>2, <2>2, <2>4, <2>5, Zenon
<1> QED
  BY <1>1, <1>6, <1>7, <1>8, <1>9, Zenon DEF v, p, N

-----------------------------------------------------------------------------
(* The packets that are written.                                           *)

\* A packet with no block, one small one, or the four of a small identification.
Small(bs) ==
    \/ Len(bs) = 0
    \/ Len(bs) = 1 /\ Len(bs[1].data) <= 2
    \/ /\ Len(bs) = 4
       /\ Len(bs[1].data) + Len(bs[2].data) + Len(bs[3].data) + Len(bs[4].data) <= 4

\* Such a packet fits, and its header can count its blocks.
LEMMA SmallFits ==
    ASSUME NEW bs \in BlockSeq, Small(bs)
    PROVE  Len(bs) % CountMod = Len(bs) /\ Len(make_payload(bs)) <= MaxPl
<1> DEFINE n(i) == Len(Payloads(bs)[i])
           l(i) == Len(bs[i].data)
<1>1. Len(bs) \in Nat
  BY BlockOf
<1>2. n(0) = 0 /\ \A i \in 1 .. Len(bs) : n(i) = n(i - 1) + (l(i) + 2)
  BY PayloadLength
<1>3. \A i \in 1 .. Len(bs) : l(i) \in Nat
  BY BlockOf
<1>4. make_payload(bs) = Payloads(bs)[Len(bs)]
  BY PayloadStep
<1>5. \/ Len(bs) = 0
      \/ Len(bs) = 1 /\ l(1) <= 2
      \/ Len(bs) = 4 /\ l(1) + l(2) + l(3) + l(4) <= 4
  BY DEF Small
<1> HIDE DEF n, l
<1>6. CASE Len(bs) = 0
  <2>1. n(Len(bs)) <= 12
    BY <1>2, <1>6
  <2> QED
    BY <1>4, <1>6, <2>1, PacketAssumption, RoomAssumption DEF n
<1>7. CASE Len(bs) = 1 /\ l(1) <= 2
  <2>1. n(1) = l(1) + 2 /\ l(1) \in Nat
    <3>1. 1 \in 1 .. Len(bs) /\ 1 - 1 = 0
      BY <1>7
    <3> QED
      BY <1>2, <1>3, <3>1
  <2>2. n(Len(bs)) <= 12 /\ n(Len(bs)) \in Nat
    BY <1>7, <2>1
  <2> QED
    BY <1>4, <1>7, <2>2, PacketAssumption, RoomAssumption DEF n
<1>8. CASE Len(bs) = 4 /\ l(1) + l(2) + l(3) + l(4) <= 4
  <2>1. /\ 1 \in 1 .. Len(bs) /\ 2 \in 1 .. Len(bs) /\ 3 \in 1 .. Len(bs) /\ 4 \in 1 .. Len(bs)
        /\ 1 - 1 = 0 /\ 2 - 1 = 1 /\ 3 - 1 = 2 /\ 4 - 1 = 3
    BY <1>8
  <2>2. l(1) \in Nat /\ l(2) \in Nat /\ l(3) \in Nat /\ l(4) \in Nat
    BY <1>3, <2>1
  <2>3. n(1) = n(0) + (l(1) + 2) /\ n(2) = n(1) + (l(2) + 2)
        /\ n(3) = n(2) + (l(3) + 2) /\ n(4) = n(3) + (l(4) + 2)
    BY <1>2, <2>1
  <2>4. n(Len(bs)) <= 12 /\ n(Len(bs)) \in Nat
    BY <1>2, <1>8, <2>2, <2>3
  <2> QED
    BY <1>4, <1>8, <2>4, PacketAssumption, RoomAssumption DEF n
<1> QED
  BY <1>5, <1>6, <1>7, <1>8

\* It is read as it was made, and well made.
LEMMA SmallRead ==
    ASSUME NEW id \in Nat, NEW k \in DOMAIN Types, k # "data", NEW bs \in BlockSeq, Small(bs),
           NEW p, p = Make(id, Types[k], bs)
    PROVE  WellMade(p) /\ Verdict(p) = "none" /\ Copied(p) = p /\ type_of(p) # Types.data
<1>1. Len(bs) % CountMod = Len(bs) /\ Len(make_payload(bs)) <= MaxPl
  BY SmallFits
<1>2. Types[k] \in Nat /\ Types[k] # Types.data
  BY DEF Types
<1>3. \E j \in DOMAIN Types : Types[k] = Types[j]
  OBVIOUS
<1>4. /\ Verdict(p) = IF Len(bs) % CountMod = Len(bs) THEN "none" ELSE "invalid_number_of_block"
      /\ Copied(p) = p /\ type_of(p) = Types[k] /\ WellMade(p)
  <2> DEFINE t == Types[k]
  <2>1. t \in Nat /\ (\E j \in DOMAIN Types : t = Types[j]) /\ p = Make(id, t, bs)
    BY <1>2, <1>3
  <2> HIDE DEF t
  <2>2. /\ Verdict(p) = IF Len(bs) % CountMod = Len(bs) THEN "none" ELSE "invalid_number_of_block"
        /\ Copied(p) = p /\ type_of(p) = t
    BY <1>1, <2>1, RoomAssumption, PacketReadsBack
  <2>3. WellMade(p)
    BY <1>1, <2>1, <2>2, RoomAssumption, MadeIsWell
  <2> QED
    BY <2>2, <2>3 DEF t
<1> QED
  BY <1>1, <1>2, <1>4

\* Blocks whose lengths are below 2^16 can be described.
LEMMA InBlockSeq ==
    ASSUME NEW bs \in Seq([type : Nat, data : Seq(Nat)]), \A i \in 1 .. Len(bs) : Len(bs[i].data) < Word
    PROVE  bs \in BlockSeq
<1>1. DOMAIN bs = 1 .. Len(bs)
  OBVIOUS
<1> QED
  BY <1>1 DEF BlockSeq

\* A command and an acknowledgement have one small block.
LEMMA OneBlock ==
    ASSUME NEW t \in Nat, NEW v \in Seq(Nat), Len(v) <= 2,
           NEW bs, bs = <<[type |-> t, data |-> v]>>
    PROVE  bs \in BlockSeq /\ Small(bs)
<1>1. [type |-> t, data |-> v] \in [type : Nat, data : Seq(Nat)]
  OBVIOUS
<1>2. bs \in Seq([type : Nat, data : Seq(Nat)]) /\ Len(bs) = 1 /\ bs[1].data = v
  BY <1>1
<1>3. Len(v) \in Nat
  OBVIOUS
<1>4. Word \in Nat /\ 2 < Word
  BY PacketAssumption, RoomAssumption
<1>5. Len(v) < Word
  BY <1>3, <1>4
<1>6. ASSUME NEW i \in 1 .. Len(bs) PROVE Len(bs[i].data) < Word
  <2>1. i = 1
    BY <1>2
  <2> QED
    BY <1>2, <1>5, <2>1
<1> QED
  BY <1>2, <1>6, InBlockSeq DEF Small

\* An identification has four.
LEMMA FourBlocks ==
    ASSUME NEW s, \A i \in 1 .. 4 : s[i] \in Seq(Nat) /\ Len(s[i]) <= 2,
           Len(s[1]) + Len(s[2]) + Len(s[3]) + Len(s[4]) <= 4
    PROVE  Identification(s) \in BlockSeq /\ Small(Identification(s))
<1> DEFINE bs == Identification(s)
           B  == [type : Nat, data : Seq(Nat)]
<1>1. \A i \in 1 .. 4 : [type |-> i, data |-> s[i]] \in B
  OBVIOUS
<1>2. bs = [i \in 1 .. 4 |-> [type |-> i, data |-> s[i]]]
  BY DEF Identification
<1>3. \A i \in 1 .. 4 : bs[i].data = s[i]
  BY <1>2
<1> HIDE DEF bs, B
<1>4. bs \in Seq(B) /\ Len(bs) = 4
  BY <1>1, <1>2
<1>5. 2 < Word
  BY PacketAssumption, RoomAssumption
<1>6. \A i \in 1 .. Len(bs) : Len(bs[i].data) < Word
  <2>1. \A i \in 1 .. 4 : Len(s[i]) \in Nat
    OBVIOUS
  <2> QED
    BY <1>3, <1>4, <1>5, <2>1, PacketAssumption
<1>7. 1 \in 1 .. 4 /\ 2 \in 1 .. 4 /\ 3 \in 1 .. 4 /\ 4 \in 1 .. 4
  OBVIOUS
<1>8. Small(bs)
  BY <1>3, <1>4, <1>7 DEF Small
<1> QED
  BY <1>4, <1>6, <1>8, InBlockSeq DEF bs, B

\* So are the packets of every kind but data that the two sides write.
LEMMA OthersRead ==
    ASSUME NEW id \in Nat, NEW p \in OneOfEach(id)
    PROVE  WellMade(p) /\ Verdict(p) = "none" /\ Copied(p) = p /\ type_of(p) # Types.data
<1>1. SOP \in Nat /\ Word \in Nat \ {0}
  BY PacketAssumption DEF SOP
<1>2. <<>> \in BlockSeq /\ Small(<<>>)
  <2> DEFINE bs == <<>>
  <2>1. bs \in Seq([type : Nat, data : Seq(Nat)]) /\ Len(bs) = 0
    OBVIOUS
  <2> HIDE DEF bs
  <2>2. \A i \in 1 .. Len(bs) : Len(bs[i].data) < Word
    BY <2>1
  <2>3. bs \in BlockSeq /\ Small(bs)
    BY <2>1, <2>2, InBlockSeq DEF Small
  <2> QED
    BY <2>3 DEF bs
<1> HIDE DEF SOP
<1>3. CASE p = make_cmd_ack(id, 1, id)
  <2> DEFINE bs == <<[type |-> 1, data |-> <<id % Word>>]>>
  <2>1. <<id % Word>> \in Seq(Nat) /\ Len(<<id % Word>>) <= 2
    BY <1>1
  <2>2. bs \in BlockSeq /\ Small(bs)
    BY <2>1, OneBlock
  <2>3. p = Make(id, Types["cmd_ack"], bs) /\ "cmd_ack" \in DOMAIN Types
    BY <1>3 DEF make_cmd_ack, Types
  <2> HIDE DEF bs
  <2> QED
    BY <2>2, <2>3, SmallRead
<1>4. CASE p = make_keepalive_ack(id)
  <2>1. p = Make(id, Types["ka_ack"], <<>>) /\ "ka_ack" \in DOMAIN Types
    BY <1>4 DEF make_keepalive_ack, Types
  <2> QED
    BY <1>2, <2>1, SmallRead
<1>5. CASE p = make_keepalive(id)
  <2>1. p = Make(id, Types["ka"], <<>>) /\ "ka" \in DOMAIN Types
    BY <1>5 DEF make_keepalive, Types
  <2> QED
    BY <1>2, <2>1, SmallRead
<1>6. CASE p = make_command(id, 1, <<SOP, id>>)
  <2> DEFINE bs == <<[type |-> 1, data |-> <<SOP, id>>]>>
  <2>1. <<SOP, id>> \in Seq(Nat) /\ Len(<<SOP, id>>) <= 2
    BY <1>1
  <2>2. bs \in BlockSeq /\ Small(bs)
    BY <2>1, OneBlock
  <2>3. p = Make(id, Types["cmd"], bs) /\ "cmd" \in DOMAIN Types
    BY <1>6 DEF make_command, Types
  <2> HIDE DEF bs
  <2> QED
    BY <2>2, <2>3, SmallRead
<1>7. /\ <<1>> \in Seq(Nat) /\ <<>> \in Seq(Nat) /\ <<SOP>> \in Seq(Nat) /\ <<2, 3>> \in Seq(Nat)
      /\ Len(<<1>>) = 1 /\ Len(<<>>) = 0 /\ Len(<<SOP>>) = 1 /\ Len(<<2, 3>>) = 2
  BY <1>1
<1>8. CASE p = make_hip(id, <<<<1>>, <<>>, <<SOP>>, <<2, 3>>>>)
  <2> DEFINE s == <<<<1>>, <<>>, <<SOP>>, <<2, 3>>>>
  <2>1. s[1] = <<1>> /\ s[2] = <<>> /\ s[3] = <<SOP>> /\ s[4] = <<2, 3>>
    OBVIOUS
  <2>2. p = Make(id, Types["hip"], Identification(s)) /\ "hip" \in DOMAIN Types
    BY <1>8 DEF make_hip, Types
  <2> HIDE DEF s
  <2>3. /\ s[1] \in Seq(Nat) /\ s[2] \in Seq(Nat) /\ s[3] \in Seq(Nat) /\ s[4] \in Seq(Nat)
        /\ Len(s[1]) = 1 /\ Len(s[2]) = 0 /\ Len(s[3]) = 1 /\ Len(s[4]) = 2
    BY <1>7, <2>1
  <2>4. \A i \in 1 .. 4 : s[i] \in Seq(Nat) /\ Len(s[i]) <= 2
    <3>1. \A n \in {0, 1, 2} : n <= 2
      OBVIOUS
    <3>2. \A i \in 1 .. 4 : i = 1 \/ i = 2 \/ i = 3 \/ i = 4
      OBVIOUS
    <3>3. /\ Len(s[1]) <= 2 /\ Len(s[2]) <= 2 /\ Len(s[3]) <= 2 /\ Len(s[4]) <= 2
      BY <2>3, <3>1, Zenon
    <3> QED
      BY <2>3, <3>2, <3>3, Zenon
  <2>5. Len(s[1]) + Len(s[2]) + Len(s[3]) + Len(s[4]) <= 4
    BY <2>3
  <2>6. Identification(s) \in BlockSeq /\ Small(Identification(s))
    BY <2>4, <2>5, FourBlocks
  <2> QED
    BY <2>2, <2>6, SmallRead
<1>9. CASE p = make_dip(id, <<<<>>, <<1>>, <<2, 3>>, <<SOP>>>>)
  <2> DEFINE s == <<<<>>, <<1>>, <<2, 3>>, <<SOP>>>>
  <2>1. s[1] = <<>> /\ s[2] = <<1>> /\ s[3] = <<2, 3>> /\ s[4] = <<SOP>>
    OBVIOUS
  <2>2. p = Make(id, Types["dip"], Identification(s)) /\ "dip" \in DOMAIN Types
    BY <1>9 DEF make_dip, Types
  <2> HIDE DEF s
  <2>3. /\ s[1] \in Seq(Nat) /\ s[2] \in Seq(Nat) /\ s[3] \in Seq(Nat) /\ s[4] \in Seq(Nat)
        /\ Len(s[1]) = 0 /\ Len(s[2]) = 1 /\ Len(s[3]) = 2 /\ Len(s[4]) = 1
    BY <1>7, <2>1
  <2>4. \A i \in 1 .. 4 : s[i] \in Seq(Nat) /\ Len(s[i]) <= 2
    <3>1. \A n \in {0, 1, 2} : n <= 2
      OBVIOUS
    <3>2. \A i \in 1 .. 4 : i = 1 \/ i = 2 \/ i = 3 \/ i = 4
      OBVIOUS
    <3>3. /\ Len(s[1]) <= 2 /\ Len(s[2]) <= 2 /\ Len(s[3]) <= 2 /\ Len(s[4]) <= 2
      BY <2>3, <3>1, Zenon
    <3> QED
      BY <2>3, <3>2, <3>3, Zenon
  <2>5. Len(s[1]) + Len(s[2]) + Len(s[3]) + Len(s[4]) <= 4
    BY <2>3
  <2>6. Identification(s) \in BlockSeq /\ Small(Identification(s))
    BY <2>4, <2>5, FourBlocks
  <2> QED
    BY <2>2, <2>6, SmallRead
<1> QED
  BY <1>3, <1>4, <1>5, <1>6, <1>8, <1>9 DEF OneOfEach
\* A packet that a block holds is as large as a header.
LEMMA PacketInBlock ==
    ASSUME NEW id \in Nat
    PROVE  make_keepalive(id) \in Seq(Nat) /\ Len(make_keepalive(id)) = SizeofHeader
<1> DEFINE bs == <<>>
           p  == make_keepalive(id)
           t  == Types.ka
<1>1. bs \in Seq([type : Nat, data : Seq(Nat)]) /\ Len(bs) = 0
  OBVIOUS
<1>2. t \in Nat /\ (\E k \in DOMAIN Types : t = Types[k]) /\ p = Make(id, t, bs)
  BY DEF Types, make_keepalive
<1> HIDE DEF bs, t, p
<1>3. bs \in BlockSeq
  <2>1. \A i \in 1 .. Len(bs) : Len(bs[i].data) < Word
    BY <1>1
  <2> QED
    BY <1>1, <2>1, InBlockSeq
<1>4. Len(make_payload(bs)) = 0
  <2>1. make_payload(bs) = Payloads(bs)[Len(bs)]
    BY <1>3, PayloadStep
  <2>2. Len(Payloads(bs)[0]) = 0
    BY <1>3, PayloadLength
  <2> QED
    BY <1>1, <2>1, <2>2, Zenon
<1>5. p \in Seq(Nat) /\ Len(p) = SizeofHeader + Len(make_payload(bs))
  <2>1. Len(make_payload(bs)) <= MaxPl
    BY <1>4, PacketAssumption
  <2> QED
    BY <1>2, <1>3, <2>1, RoomAssumption, PacketReadsBack
<1> QED
  BY <1>4, <1>5 DEF p, SizeofHeader

\* The blocks of payload become a packet that BHeader and Header can describe, as large as what
\* the loop has counted.
LEMMA DataBlocks ==
    ASSUME TypeOK, FillInv, \A i \in first .. next - 1 : blocks[i] <= MaxPl,
           NEW bs, bs = Blocks(first, next - 1)
    PROVE  bs \in BlockSeq /\ Len(make_payload(bs)) <= MaxPl
<1> DEFINE n == next - first
           B == [type : Nat, data : Seq(Nat)]
           at(k) == first - 1 + k
<1>1. /\ Len(blocks) \in Nat /\ first \in Nat /\ next \in Nat /\ 1 <= first /\ first <= next
      /\ next <= Len(blocks) + 1 /\ n \in Nat /\ (next - 1) + 1 - first = n
  BY BlockFacts
<1>2. blocks \in Seq(Nat) /\ \A i \in 1 .. Len(blocks) : blocks[i] \in Nat /\ blocks[i] >= 2
  <2>1. blocks \in Seq(Sizes)
    BY DEF TypeOK
  <2>2. \A i \in 1 .. Len(blocks) : blocks[i] \in Sizes
    BY <2>1
  <2>3. \A x \in Sizes : x \in Nat /\ x >= 2
    BY SendAssumption DEF SizeofBHeader
  <2>4. Len(blocks) \in Nat /\ blocks \in [1 .. Len(blocks) -> Nat]
    BY <2>1, <2>2, <2>3
  <2> QED
    BY <2>2, <2>3, <2>4
<1>3. \A k \in 1 .. n : at(k) \in 1 .. Len(blocks) /\ at(k) \in first .. next - 1
  BY <1>1
<1>4. ASSUME NEW k \in 1 .. n
      PROVE  BlockAt(at(k)) \in B /\ Len(BlockAt(at(k)).data) = blocks[at(k)] - 2
  <2> DEFINE i == at(k)
             m == blocks[i] - 2
  <2>1. i \in Nat /\ m \in Nat
    <3>1. i \in 1 .. Len(blocks)
      BY <1>3
    <3>2. blocks[i] \in Nat /\ blocks[i] >= 2
      BY <1>2, <3>1
    <3> QED
      BY <1>1, <3>1, <3>2
  <2> HIDE DEF i
  <2>2. \A j \in 1 .. m : (i + j) % Byte \in Nat
    BY <2>1, PacketAssumption
  <2> HIDE DEF m
  <2>3. [j \in 1 .. m |-> (i + j) % Byte] \in Seq(Nat) /\ Len([j \in 1 .. m |-> (i + j) % Byte]) = m
    BY <2>1, <2>2
  <2>4. Content(i) \in Seq(Nat) /\ Len(Content(i)) = m
    <3>1. ASSUME blocks[i] = SizeofBHeader + SizeofHeader
          PROVE  Content(i) = make_keepalive(i) /\ m = SizeofHeader
      BY <3>1 DEF Content, SizeofBHeader, SizeofHeader, m
    <3>2. ASSUME blocks[i] # SizeofBHeader + SizeofHeader
          PROVE  Content(i) = [j \in 1 .. m |-> (i + j) % Byte]
      BY <3>2 DEF Content, SizeofBHeader, m
    <3>3. make_keepalive(i) \in Seq(Nat) /\ Len(make_keepalive(i)) = SizeofHeader
      BY <2>1, PacketInBlock
    <3> QED
      BY <2>3, <3>1, <3>2, <3>3, Zenon
  <2>5. i % 4 \in Nat
    BY <2>1
  <2> QED
    BY <2>4, <2>5 DEF BlockAt, i, m
<1>5. bs = [k \in 1 .. n |-> BlockAt(at(k))]
  BY <1>1 DEF Blocks
<1> HIDE DEF n, B, at
<1>6. bs \in Seq(B) /\ Len(bs) = n
  BY <1>1, <1>4, <1>5
<1>7. \A k \in 1 .. n : Len(bs[k].data) = blocks[at(k)] - 2 /\ blocks[at(k)] \in Nat /\ blocks[at(k)] >= 2
                        /\ blocks[at(k)] <= MaxPl
  BY <1>2, <1>3, <1>4, <1>5
<1>8. bs \in BlockSeq
  <2>1. ASSUME NEW k \in 1 .. Len(bs) PROVE Len(bs[k].data) < Word
    <3>1. Len(bs[k].data) = blocks[at(k)] - 2 /\ blocks[at(k)] \in Nat /\ blocks[at(k)] <= MaxPl
      BY <1>6, <1>7
    <3> QED
      BY <3>1, PacketAssumption, RoomAssumption
  <2> QED
    BY <1>6, <2>1, InBlockSeq DEF B
<1>9. /\ Total[0] = 0 /\ \A i \in 0 .. Len(blocks) : Total[i] \in Nat
      /\ \A i \in 1 .. Len(blocks) : Total[i] = Total[i - 1] + blocks[i]
  BY <1>2, Totals
<1> DEFINE T == {k \in 0 .. n : Len(Payloads(bs)[k]) = Total[at(k)] - Total[at(0)]}
<1>10. 0 \in T
  <2>1. at(0) \in 0 .. Len(blocks) /\ 0 \in 0 .. n
    BY <1>1 DEF at
  <2>2. Total[at(0)] - Total[at(0)] = 0
    BY <1>9, <2>1
  <2> QED
    BY <1>8, <2>1, <2>2, PayloadLength
<1>11. ASSUME NEW k \in 0 .. n - 1, k \in T PROVE k + 1 \in T
  <2>1. k + 1 \in 1 .. n /\ k + 1 \in 0 .. n /\ (k + 1) - 1 = k
    BY <1>1
  <2>2. Len(Payloads(bs)[k + 1]) = Len(Payloads(bs)[k]) + (Len(bs[k + 1].data) + 2)
    BY <1>6, <1>8, <2>1, PayloadLength
  <2>3. Len(bs[k + 1].data) = blocks[at(k + 1)] - 2 /\ blocks[at(k + 1)] \in Nat
    BY <1>7, <2>1
  <2>4. at(k + 1) \in 1 .. Len(blocks) /\ at(k + 1) - 1 = at(k) /\ at(k) \in 0 .. Len(blocks) /\ at(0) \in 0 .. Len(blocks)
    BY <1>1, <2>1 DEF at, n
  <2>5. /\ Total[at(k + 1)] = Total[at(k)] + blocks[at(k + 1)]
        /\ Total[at(k)] \in Nat /\ Total[at(0)] \in Nat
    BY <1>9, <2>4
  <2>6. Len(Payloads(bs)[k]) = Total[at(k)] - Total[at(0)]
    BY <1>11
  <2>7. Len(Payloads(bs)[k + 1]) = Total[at(k + 1)] - Total[at(0)]
    <3>1. \A a, b, c \in Nat : (a - b) + ((c - 2) + 2) = (a + c) - b
      OBVIOUS
    <3>2. Len(Payloads(bs)[k + 1])
            = (Total[at(k)] - Total[at(0)]) + ((blocks[at(k + 1)] - 2) + 2)
      BY <2>2, <2>3, <2>6, Zenon
    <3>3. (Total[at(k)] - Total[at(0)]) + ((blocks[at(k + 1)] - 2) + 2)
            = (Total[at(k)] + blocks[at(k + 1)]) - Total[at(0)]
      BY <2>3, <2>5, <3>1, Zenon
    <3> QED
      BY <2>5, <3>2, <3>3, Zenon
  <2> QED
    BY <2>1, <2>7
<1>12. n \in T
  <2>1. n \in 0 .. n
    BY <1>1
  <2> HIDE DEF T
  <2> QED
    BY <1>1, <1>10, <1>11, <2>1, UpTo
<1>13. Len(make_payload(bs)) = Total[next - 1] - Total[first - 1]
  <2>1. make_payload(bs) = Payloads(bs)[n]
    BY <1>6, <1>8, PayloadStep
  <2>2. at(n) = next - 1 /\ at(0) = first - 1
    BY <1>1 DEF at, n
  <2> QED
    BY <1>12, <2>1, <2>2
<1>14. Len(make_payload(bs)) <= MaxPl
  <2>1. payload_size = Bytes(first, next - 1) /\ payload_size <= MaxPl
    BY DEF FillInv, TypeOK
  <2> QED
    BY <1>13, <2>1 DEF Bytes
<1> QED
  BY <1>8, <1>14

\* The ids: both threads have taken theirs from packet_id_, so the one that a thread holds is
\* not the one the other holds, and has not been written; each is what was left of its number
\* when packet_id_ came round.
Round(x) == x.id = x.nth % IdMod

IdInv ==
    /\ packet_id = taken % IdMod
    /\ Round(data_id) /\ Round(ack_id) /\ \A i \in DOMAIN wire : Round(wire[i])
    /\ data_id.nth <= taken /\ ack_id.nth <= taken
    /\ \A i \in DOMAIN wire : wire[i].nth <= taken
    /\ pc = "write" =>
          /\ data_id.nth # 0 /\ data_id.nth # ack_id.nth
          /\ \A i \in DOMAIN wire : wire[i].nth # data_id.nth
    /\ ack_id # NoId => \A i \in DOMAIN wire : wire[i].nth # ack_id.nth
    /\ \A i, j \in DOMAIN wire : wire[i].nth = wire[j].nth => i = j

\* What the loop has put into payload fits a packet, and the constructor has read the packet
\* that is about to be written.
ReadInv ==
    /\ \A i \in first .. next - 1 : blocks[i] <= MaxPl
    /\ pc = "write" => Verdict(make_data(data_id.id, Blocks(first, next - 1))) = "none"

\* What one more id on the wire does to it.
LEMMA WireGrows ==
    ASSUME NEW w \in Seq(TakenId), NEW x \in TakenId, NEW v, v = Append(w, x)
    PROVE  /\ \A i \in DOMAIN v : v[i] = x \/ \E j \in DOMAIN w : v[i] = w[j]
           /\ ((\A i \in DOMAIN w : w[i].nth # x.nth) /\ (\A i, j \in DOMAIN w : w[i].nth = w[j].nth => i = j))
                => \A i, j \in DOMAIN v : v[i].nth = v[j].nth => i = j
<1>1. /\ Len(w) \in Nat /\ DOMAIN w = 1 .. Len(w) /\ DOMAIN v = 1 .. Len(w) + 1
      /\ v[Len(w) + 1] = x /\ \A i \in 1 .. Len(w) : v[i] = w[i]
  OBVIOUS
<1>2. \A i \in DOMAIN v : i = Len(w) + 1 \/ i \in DOMAIN w
  BY <1>1
<1>3. \A i \in DOMAIN v : v[i] = x \/ \E j \in DOMAIN w : v[i] = w[j]
  BY <1>1, <1>2
<1>4. ASSUME \A i \in DOMAIN w : w[i].nth # x.nth, \A i, j \in DOMAIN w : w[i].nth = w[j].nth => i = j,
             NEW i \in DOMAIN v, NEW j \in DOMAIN v, v[i].nth = v[j].nth
      PROVE  i = j
  <2>1. CASE i = Len(w) + 1 /\ j = Len(w) + 1
    BY <2>1
  <2>2. CASE i \in DOMAIN w /\ j = Len(w) + 1
    BY <1>1, <1>4, <2>2
  <2>3. CASE j \in DOMAIN w /\ i = Len(w) + 1
    BY <1>1, <1>4, <2>3
  <2>4. CASE i \in DOMAIN w /\ j \in DOMAIN w
    BY <1>1, <1>4, <2>4
  <2> QED
    BY <1>2, <2>1, <2>2, <2>3, <2>4
<1> QED
  BY <1>3, <1>4

\* What one more leaves depends on what was left.
LEMMA NextRound ==
    ASSUME NEW m \in Nat \ {0}, NEW n \in Nat
    PROVE  ((n % m) + 1) % m = (n + 1) % m
<1>1. PICK q \in Nat, r \in 0 .. m - 1 : n = m * q + r
  BY Quotient
<1>2. n % m = r
  BY <1>1, Remainder
<1>3. CASE r + 1 < m
  <2>1. n + 1 = m * q + (r + 1) /\ r + 1 \in 0 .. m - 1
    BY <1>1, <1>3
  <2>2. (n + 1) % m = r + 1
    BY <2>1, Remainder
  <2>3. (r + 1) % m = r + 1
    BY <2>1
  <2> QED
    BY <1>2, <2>2, <2>3
<1>4. CASE r = m - 1
  <2>1. n + 1 = m * (q + 1) + 0 /\ q + 1 \in Nat /\ 0 \in 0 .. m - 1
    BY <1>1, <1>4
  <2>2. (n + 1) % m = 0
    BY <2>1, Remainder
  <2>3. r + 1 = m /\ m % m = 0
    BY <1>4
  <2> QED
    BY <1>2, <2>2, <2>3
<1> QED
  BY <1>3, <1>4

\* The next id: its number is new.
LEMMA NextIdIs ==
    ASSUME TypeOK, packet_id = taken % IdMod
    PROVE  /\ Round(NextId) /\ NextId.nth = taken + 1 /\ NextId.nth # 0
           /\ NextId.id = (taken + 1) % IdMod
<1>1. packet_id \in Nat /\ taken \in Nat /\ IdMod \in Nat \ {0}
  BY SendAssumption DEF TypeOK
<1>2. (packet_id + 1) % IdMod = (taken + 1) % IdMod
  BY <1>1, NextRound
<1> QED
  BY <1>1, <1>2 DEF NextId, Round

\* Every step keeps the ids apart.
LEMMA IdStep ==
    ASSUME TypeOK, IdInv, [Next]_vars
    PROVE  IdInv'
<1> USE DEF ids
<1>1. taken \in Nat /\ data_id \in TakenId /\ ack_id \in TakenId /\ wire \in Seq(TakenId)
  BY DEF TypeOK
<1>2. (\A i \in DOMAIN wire : wire[i].nth \in Nat) /\ data_id.nth \in Nat /\ ack_id.nth \in Nat
  <2>1. \A i \in DOMAIN wire : wire[i] \in TakenId
    BY <1>1
  <2> QED
    BY <1>1, <2>1 DEF TakenId
<1>0. /\ Round(NextId) /\ NextId.nth = taken + 1 /\ NextId.nth # 0
      /\ NextId.id = (taken + 1) % IdMod
  BY NextIdIs DEF IdInv
<1>3. CASE SendData \/ DataTooBig \/ Push \/ WriteThrows \/ Return \/ UNCHANGED vars
  <2>1. UNCHANGED <<packet_id, taken, data_id, ack_id, wire>> /\ (pc' = "write" => pc = "write")
    BY <1>3 DEF SendData, DataTooBig, Push, WriteThrows, Return, vars
  <2> QED
    BY <2>1 DEF IdInv, Round
<1>4. CASE MakeData
  <2>1. /\ packet_id' = NextId.id /\ taken' = taken + 1 /\ data_id' = NextId
        /\ UNCHANGED <<ack_id, wire>>
    BY <1>0, <1>4 DEF MakeData, TakeId
  <2>2. /\ data_id'.nth <= taken' /\ ack_id'.nth <= taken' /\ data_id'.nth # 0
        /\ data_id'.nth # ack_id'.nth
    BY <1>0, <1>1, <1>2, <2>1 DEF IdInv
  <2>3. \A i \in DOMAIN wire' : wire'[i].nth <= taken' /\ wire'[i].nth # data_id'.nth
    BY <1>0, <1>1, <1>2, <2>1 DEF IdInv
  <2>4. /\ ack_id' # NoId => \A i \in DOMAIN wire' : wire'[i].nth # ack_id'.nth
        /\ \A i, j \in DOMAIN wire' : wire'[i].nth = wire'[j].nth => i = j
    BY <2>1 DEF IdInv
  <2>5. packet_id' = taken' % IdMod
    BY <1>0, <2>1
  <2>6. /\ Round(data_id)' /\ Round(ack_id)' /\ \A i \in DOMAIN wire' : Round(wire[i])'
    BY <1>0, <2>1 DEF IdInv, Round
  <2> QED
    BY <2>2, <2>3, <2>4, <2>5, <2>6 DEF IdInv
<1>5. CASE TakeAckId
  <2>1. /\ packet_id' = NextId.id /\ taken' = taken + 1 /\ ack_id' = NextId
        /\ UNCHANGED <<pc, data_id, wire>>
    BY <1>0, <1>5 DEF TakeAckId, TakeId
  <2>2. data_id'.nth <= taken' /\ ack_id'.nth <= taken' /\ data_id'.nth # ack_id'.nth
    BY <1>0, <1>1, <1>2, <2>1 DEF IdInv
  <2>3. \A i \in DOMAIN wire' : wire'[i].nth <= taken' /\ wire'[i].nth # ack_id'.nth
    BY <1>0, <1>1, <1>2, <2>1 DEF IdInv
  <2>4. /\ pc' = "write" => data_id'.nth # 0 /\ \A i \in DOMAIN wire' : wire'[i].nth # data_id'.nth
        /\ \A i, j \in DOMAIN wire' : wire'[i].nth = wire'[j].nth => i = j
    BY <2>1 DEF IdInv
  <2>5. packet_id' = taken' % IdMod
    BY <1>0, <2>1
  <2>6. /\ Round(data_id)' /\ Round(ack_id)' /\ \A i \in DOMAIN wire' : Round(wire[i])'
    BY <1>0, <2>1 DEF IdInv, Round
  <2> QED
    BY <2>2, <2>3, <2>4, <2>5, <2>6 DEF IdInv
<1>6. CASE Write
  <2>1. /\ wire' = Append(wire, data_id) /\ pc = "write" /\ pc' = "loop"
        /\ UNCHANGED <<packet_id, taken, data_id, ack_id>>
    BY <1>6 DEF Write
  <2>2. /\ \A i \in DOMAIN wire' : wire'[i] = data_id \/ \E j \in DOMAIN wire : wire'[i] = wire[j]
        /\ ((\A i \in DOMAIN wire : wire[i].nth # data_id.nth)
              /\ (\A i, j \in DOMAIN wire : wire[i].nth = wire[j].nth => i = j))
             => \A i, j \in DOMAIN wire' : wire'[i].nth = wire'[j].nth => i = j
    BY <1>1, <2>1, WireGrows
  <2>3. \A i \in DOMAIN wire' : wire'[i].nth <= taken'
    BY <1>1, <2>1, <2>2 DEF IdInv
  <2>4. ack_id' # NoId => \A i \in DOMAIN wire' : wire'[i].nth # ack_id'.nth
    BY <2>1, <2>2 DEF IdInv
  <2>5. \A i, j \in DOMAIN wire' : wire'[i].nth = wire'[j].nth => i = j
    BY <2>1, <2>2 DEF IdInv
  <2>6. /\ packet_id' = taken' % IdMod
        /\ Round(data_id)' /\ Round(ack_id)' /\ \A i \in DOMAIN wire' : Round(wire[i])'
    BY <2>1, <2>2 DEF IdInv, Round
  <2> QED
    BY <2>1, <2>3, <2>4, <2>5, <2>6 DEF IdInv
<1>7. CASE WriteAck
  <2>1. /\ wire' = Append(wire, ack_id) /\ ack_id # NoId /\ ack_id' = NoId
        /\ UNCHANGED <<pc, packet_id, taken, data_id>>
    BY <1>7 DEF WriteAck
  <2>2. /\ \A i \in DOMAIN wire' : wire'[i] = ack_id \/ \E j \in DOMAIN wire : wire'[i] = wire[j]
        /\ ((\A i \in DOMAIN wire : wire[i].nth # ack_id.nth)
              /\ (\A i, j \in DOMAIN wire : wire[i].nth = wire[j].nth => i = j))
             => \A i, j \in DOMAIN wire' : wire'[i].nth = wire'[j].nth => i = j
    BY <1>1, <2>1, WireGrows
  <2>3. \A i \in DOMAIN wire' : wire'[i].nth <= taken'
    BY <1>1, <2>1, <2>2 DEF IdInv
  <2>7. ack_id'.nth = 0 /\ Round(ack_id)'
    <3>1. 0 = 0 % IdMod
      BY SendAssumption
    <3> QED
      BY <2>1, <3>1 DEF NoId, Round
  <2>4. pc' = "write" =>
          /\ data_id'.nth # 0 /\ data_id'.nth # ack_id'.nth
          /\ \A i \in DOMAIN wire' : wire'[i].nth # data_id'.nth
    BY <2>1, <2>2, <2>7 DEF IdInv
  <2>5. \A i, j \in DOMAIN wire' : wire'[i].nth = wire'[j].nth => i = j
    BY <2>1, <2>2 DEF IdInv
  <2>6. ack_id'.nth <= taken' /\ data_id'.nth <= taken'
    BY <1>1, <2>1, <2>7 DEF IdInv
  <2>8. /\ packet_id' = taken' % IdMod
        /\ Round(data_id)' /\ \A i \in DOMAIN wire' : Round(wire[i])'
    BY <2>1, <2>2 DEF IdInv, Round
  <2> QED
    BY <2>1, <2>3, <2>4, <2>5, <2>6, <2>7, <2>8 DEF IdInv
<1> QED
  BY <1>3, <1>4, <1>5, <1>6, <1>7 DEF Next

\* Different numbers that leave the same id are a round apart.
LEMMA RoundApart ==
    ASSUME NEW m \in Nat \ {0}, NEW a \in Nat, NEW b \in Nat, a < b, a % m = b % m
    PROVE  a + m <= b
<1>1. PICK q \in Nat, r \in 0 .. m - 1 : a = m * q + r
  BY Quotient
<1>2. PICK p \in Nat, w \in 0 .. m - 1 : b = m * p + w
  BY Quotient
<1>3. r = w
  <2>1. a % m = r /\ b % m = w
    BY <1>1, <1>2, Remainder
  <2> QED
    BY <2>1
<1>4. m * q < m * p
  <2> DEFINE x == m * q
             y == m * p
  <2>1. x \in Nat /\ y \in Nat /\ a = x + r /\ b = y + r
    BY <1>1, <1>2, <1>3
  <2> HIDE DEF x, y
  <2>2. x < y
    BY <2>1
  <2> QED
    BY <2>2 DEF x, y
<1>5. q < p
  <2>1. SUFFICES ASSUME p <= q PROVE m * p <= m * q
    BY <1>4
  <2>2. PICK d \in Nat : q = p + d
    BY <2>1
  <2>3. m * (p + d) = m * p + m * d /\ m * d \in Nat /\ m * p \in Nat
    OBVIOUS
  <2> QED
    BY <2>2, <2>3
<1>6. PICK d \in Nat : p = q + 1 + d
  <2>1. p - q - 1 \in Nat /\ p = q + 1 + (p - q - 1)
    BY <1>5
  <2> QED
    BY <2>1
<1>7. m * (q + 1 + d) = m * q + m + m * d /\ m * d \in Nat /\ m * q \in Nat
  OBVIOUS
<1>8. m * p = m * q + m + m * d
  BY <1>6, <1>7
<1> QED
  <2> DEFINE x == m * q
             y == m * p
             z == m * d
  <2>1. x \in Nat /\ z \in Nat /\ y = x + m + z /\ a = x + r /\ b = y + r
    BY <1>1, <1>2, <1>3, <1>7, <1>8
  <2> HIDE DEF x, y, z
  <2> QED
    BY <2>1

LEMMA Apart == TypeOK /\ IdInv => IdsApart
<1> SUFFICES ASSUME TypeOK, IdInv, NEW i \in DOMAIN wire, NEW j \in DOMAIN wire, i # j,
                    wire[i].id = wire[j].id
             PROVE  wire[i].nth + IdMod <= wire[j].nth \/ wire[j].nth + IdMod <= wire[i].nth
  BY DEF IdsApart
<1> DEFINE a == wire[i].nth
           b == wire[j].nth
<1>1. a \in Nat /\ b \in Nat /\ IdMod \in Nat \ {0}
  <2>1. wire \in Seq(TakenId)
    BY DEF TypeOK
  <2>2. wire[i] \in TakenId /\ wire[j] \in TakenId
    BY <2>1
  <2> QED
    BY <2>2, SendAssumption DEF TakenId
<1>2. a % IdMod = b % IdMod /\ a # b
  BY DEF IdInv, Round
<1> HIDE DEF a, b
<1>3. a < b => a + IdMod <= b
  BY <1>1, <1>2, RoundApart
<1>4. b < a => b + IdMod <= a
  BY <1>1, <1>2, RoundApart
<1> QED
  BY <1>1, <1>2, <1>3, <1>4 DEF a, b

\* Every step keeps the packet that is about to be written readable.
LEMMA ReadStep ==
    ASSUME TypeOK, ReadInv, [Next]_vars
    PROVE  ReadInv'
<1>0. first \in Nat /\ next \in Nat
  BY BlockFacts
<1>1. CASE SendData \/ DataTooBig \/ WriteThrows \/ Return
  <2>1. UNCHANGED <<blocks, first, next>> /\ pc' # "write"
    BY <1>1 DEF SendData, DataTooBig, WriteThrows, Return, locals
  <2> QED
    BY <2>1 DEF ReadInv
<1>2. CASE TakeAckId \/ WriteAck \/ UNCHANGED vars
  <2>1. UNCHANGED <<blocks, first, next, pc, data_id>>
    BY <1>2 DEF TakeAckId, WriteAck, vars, locals
  <2>2. (Verdict(make_data(data_id.id, Blocks(first, next - 1))))'
          = Verdict(make_data(data_id.id, Blocks(first, next - 1)))
    BY <2>1 DEF Blocks, BlockAt, Content
  <2> QED
    BY <2>1, <2>2 DEF ReadInv
<1>3. CASE Push
  <2>1. UNCHANGED <<blocks, first, pc>> /\ next' = next + 1 /\ pc = "loop" /\ blocks[next] <= MaxPl
    BY <1>3 DEF Push, AtBlock
  <2>2. \A i \in first .. (next + 1) - 1 : i = next \/ i \in first .. next - 1
    BY <1>0
  <2> QED
    BY <2>1, <2>2 DEF ReadInv
<1>4. CASE MakeData
  <2>1. UNCHANGED <<blocks, first, next>> /\ data_id' = NextId
    BY <1>4 DEF MakeData, locals
  <2>2. pc' = "write" => Verdict(make_data(NextId.id, Blocks(first, next - 1))) = "none"
    BY <1>4 DEF MakeData, MadeVerdict
  <2>3. (Blocks(first, next - 1))' = Blocks(first, next - 1)
    BY <2>1 DEF Blocks, BlockAt, Content
  <2> QED
    BY <2>1, <2>2, <2>3 DEF ReadInv
<1>5. CASE Write
  <2>1. UNCHANGED blocks /\ first' = next /\ next' = next /\ pc' = "loop"
    BY <1>5 DEF Write
  <2>2. \A i \in next .. next - 1 : FALSE
    BY <1>0
  <2> QED
    BY <2>1, <2>2 DEF ReadInv
<1> QED
  BY <1>1, <1>2, <1>3, <1>4, <1>5 DEF Next

\* Both hold in every reachable state.
LEMMA ReadInvHolds == Spec => [](IdInv /\ ReadInv)
<1>1. Init => IdInv /\ ReadInv
  <2> SUFFICES ASSUME Init PROVE IdInv /\ ReadInv
    OBVIOUS
  <2>1. DOMAIN wire = {}
    BY DEF Init
  <2>2. \A i \in first .. next - 1 : FALSE
    BY DEF Init
  <2> QED
    <3>1. 0 = 0 % IdMod /\ taken \in Nat /\ packet_id = taken % IdMod
      BY SendAssumption DEF Init
    <3>2. IdInv
      BY <2>1, <3>1 DEF Init, IdInv, Round, NoId
    <3> QED
      BY <2>2, <3>2 DEF Init, ReadInv
<1>2. TypeOK /\ IdInv /\ ReadInv /\ [Next]_vars => (IdInv /\ ReadInv)'
  BY IdStep, ReadStep
<1> QED
  BY <1>1, <1>2, SendTypeCorrect, PTL DEF Spec

\* What is about to be written is well made, and read as it was made.
LEMMA WrittenRead ==
    ASSUME TypeOK, FillInv, ReadInv, NEW p \in ToWrite
    PROVE  /\ WellMade(p) /\ Verdict(p) = "none" /\ Copied(p) = p
           /\ type_of(p) = Types.data => blocks_of(payload_of(p)) = Blocks(first, next - 1)
<1> DEFINE bs == Blocks(first, next - 1)
<1>1. CASE pc = "write" /\ p = make_data(data_id.id, bs)
  <2>1. bs \in BlockSeq /\ Len(make_payload(bs)) <= MaxPl
    BY DataBlocks DEF ReadInv
  <2>2. Verdict(p) = "none"
    BY <1>1 DEF ReadInv
  <2> HIDE DEF bs
  <2> DEFINE t == Types.data
  <2>3. t \in Nat /\ (\E k \in DOMAIN Types : t = Types[k])
    BY DEF Types
  <2>4. p = Make(data_id.id, t, bs) /\ data_id.id \in Nat
    BY <1>1, SendAssumption DEF make_data, TypeOK, TakenId
  <2> HIDE DEF t
  <2>5. Copied(p) = p /\ blocks_of(payload_of(p)) = bs
    BY <2>1, <2>3, <2>4, RoomAssumption, PacketReadsBack
  <2>6. WellMade(p)
    BY <2>1, <2>2, <2>3, <2>4, RoomAssumption, MadeIsWell
  <2> QED
    BY <2>2, <2>5, <2>6, Zenon DEF bs
<1>2. CASE p \in OneOfEach(ack_id.id)
  <2>1. ack_id.id \in Nat
    BY SendAssumption DEF TypeOK, TakenId
  <2> QED
    BY <1>2, <2>1, OthersRead, Zenon
<1> QED
  BY <1>1, <1>2 DEF ToWrite

\* The other side reads what is written, for any call, any sizes and whatever the Slave thread
\* writes meanwhile: the constructor that send_data runs on its own packet refuses every one that
\* a header cannot describe, and the ids come from one counter, which gives an id again only
\* when it has come round.
THEOREM HostReadsHolds == Spec => []HostReads
<1>1. TypeOK /\ FillInv /\ IdInv /\ ReadInv => HostReads
  BY WrittenRead, Apart, Zenon DEF HostReads
<1> QED
  BY <1>1, ReadInvHolds, SendTypeCorrect, FillInvHolds, PTL

\* And no damaged one is taken for it, but for the loss of a start with a packet behind it.
THEOREM DamageRefusedHolds == Spec => []DamageRefused
<1>1. TypeOK /\ FillInv /\ ReadInv => DamageRefused
  BY WrittenRead, WellMadeDamaged, Zenon DEF DamageRefused
<1> QED
  BY <1>1, ReadInvHolds, SendTypeCorrect, FillInvHolds, PTL
=============================================================================
