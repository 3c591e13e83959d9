--------------------------- MODULE PipePathProofs ---------------------------
(***************************************************************************)
(* Proofs about the pipe and its readers, for every capacity, every number *)
(* of instances and items: types, the order of the ring as one process     *)
(* among the others, and what a stopped Worker may still queue.            *)
(***************************************************************************)
EXTENDS PipePath, SequenceTheorems, TLAPS

------------------------------------------------------------------------------
(***************************************************************************)
(* Proofs about the packet ring, for every number of slots, every traffic  *)
(* and every number of packets.                                            *)
(***************************************************************************)

\* Items that are in the ring or left it; items the consumer removed.
Stored  == IF producer \in {"flag", "read"} THEN Len(packets) ELSE Len(packets) - 1
Removed == IF consumer = "advance" THEN Len(taken) - 1 ELSE Len(taken)

\* The slots from one index up to another, and the slot x steps from slot 0.
Dist(f, g) == IF g >= f THEN g - f ELSE g - f + BufMax
Wrap(x)    == IF x >= BufMax THEN x - BufMax ELSE x
Occupied   == Dist(full_index, free_index)

\* Among the first n packets of ps there is a last registered one, or none.
HasLast(ps, n) ==
    Named(ps, n) = {} \/ \E k \in Named(ps, n) : \A l \in Named(ps, n) : l <= k

\* The producer's item and the name that goes with it.
InHand ==
    /\ producer \notin {"flag", "read"} => Len(packets) >= 1
    /\ producer \in {"default", "advanceDefault"} => packets[Len(packets)] = Timeout
    /\ producer \in {"room", "lock", "store", "advance"} => packets[Len(packets)] # Timeout
    /\ consumer = "advance" => Len(taken) >= 1
    /\ protoStr = LastName(packets, Len(packets))
    /\ \A n \in 0..Len(packets) : HasLast(packets, n)

\* What the ring holds until it is lapped: the items between those removed and
\* those stored, in order from full_index on.
Contents ==
    /\ Stored - Removed = Occupied
    /\ \A k \in 0..Occupied - 1 :
          shared_buff[Wrap(full_index + k)] = ItemOf(packets, Removed + 1 + k)
    /\ \A n \in 1..Len(taken) : taken[n] = ItemOf(packets, n)
    /\ producer \in {"lock", "store", "advance"} => Succ(free_index) # full_index
    /\ producer \in {"advanceDefault", "advance"} =>
          shared_buff[free_index] = ItemOf(packets, Len(packets))
    /\ consumer \in {"copy", "advance"} => free_index # full_index

RingInv ==
    /\ RingTypeOK
    /\ InHand
    /\ lapped \/ Contents

------------------------------------------------------------------------------
(* Names and items                                                         *)

\* A registered handler leaves one of the names.
LEMMA HandlerName ==
    ASSUME NEW p, p.proto \in Registered PROVE Handler(p) \in Names
<1>1. CASE p.proto = TCP
    <2>1. TcpName(p) \in {"TLS", "Http", "DNS", "TCP"}
        BY DEF TcpName
    <2>2. Handler(p) = TcpName(p)
        BY <1>1 DEF Handler, TCP, UDP
    <2> QED BY <2>1, <2>2 DEF Names
<1>2. CASE p.proto = UDP
    <2>1. UdpName(p) \in {"DNS", "DHCP", "UDP"}
        BY DEF UdpName
    <2>2. Handler(p) = UdpName(p)
        BY <1>2 DEF Handler, TCP, UDP
    <2> QED BY <2>1, <2>2 DEF Names
<1>3. CASE p.proto \notin {TCP, UDP}
    <2>1. p.proto \in DOMAIN FixedName
        BY <1>3 DEF Registered
    <2>2. Handler(p) = FixedName[p.proto]
        BY <1>3 DEF Handler
    <2> QED BY <2>1, <2>2 DEF Names
<1> QED BY <1>1, <1>2, <1>3

\* A timeout has no handler.
LEMMA TimeoutUnregistered == Timeout.proto \notin Registered
BY DEF Timeout, Registered, FixedName, TCP, UDP

\* What Append does to a sequence, in one place.
LEMMA RingAppend ==
    ASSUME NEW S, NEW s \in Seq(S), NEW e \in S
    PROVE  /\ Append(s, e) \in Seq(S)
           /\ Len(s) \in Nat
           /\ Len(Append(s, e)) = Len(s) + 1
           /\ \A i \in 1..Len(s) : Append(s, e)[i] = s[i]
           /\ Append(s, e)[Len(s) + 1] = e
<1>1. Len(s) \in Nat
    BY LenProperties
<1> QED BY <1>1, AppendProperties

\* A further packet changes neither the names nor the items of earlier ones.
LEMMA ItemsStable ==
    ASSUME NEW S, NEW ps \in Seq(S), NEW e \in S, NEW n \in 0..Len(ps), HasLast(ps, n)
    PROVE  /\ HasLast(Append(ps, e), n)
           /\ LastName(Append(ps, e), n) = LastName(ps, n)
           /\ n > 0 => ItemOf(Append(ps, e), n) = ItemOf(ps, n)
<1> DEFINE qs == Append(ps, e)
<1>1. /\ Len(ps) \in Nat
      /\ \A i \in 1..Len(ps) : qs[i] = ps[i]
    BY RingAppend
<1> HIDE DEF qs
<1>2. Named(qs, n) = Named(ps, n)
    BY <1>1 DEF Named
<1>3. LastName(qs, n) = LastName(ps, n)
    <2>1. CASE Named(ps, n) = {}
        BY <1>2, <2>1 DEF LastName
    <2>2. CASE Named(ps, n) # {}
        <3> DEFINE m == Latest(Named(ps, n))
        <3>1. m \in Named(ps, n)
            BY <2>2 DEF HasLast, Latest
        <3>2. m \in 1..Len(ps)
            BY <1>1, <3>1 DEF Named
        <3>3. LastName(ps, n) = Handler(ps[m])
            BY <2>2 DEF LastName
        <3>4. LastName(qs, n) = Handler(qs[m])
            BY <1>2, <2>2 DEF LastName
        <3> QED BY <1>1, <3>2, <3>3, <3>4
    <2> QED BY <2>1, <2>2
<1>4. n > 0 => ItemOf(qs, n) = ItemOf(ps, n)
    BY <1>1, <1>3 DEF ItemOf
<1>5. HasLast(qs, n)
    BY <1>2 DEF HasLast
<1> QED BY <1>3, <1>4, <1>5 DEF qs

\* The name left behind after a further packet.
LEMMA NameAppended ==
    ASSUME NEW S, NEW ps \in Seq(S), NEW e \in S, HasLast(ps, Len(ps))
    PROVE  /\ HasLast(Append(ps, e), Len(ps) + 1)
           /\ LastName(Append(ps, e), Len(ps) + 1) =
                 IF e.proto \in Registered THEN Handler(e) ELSE LastName(ps, Len(ps))
<1> DEFINE qs == Append(ps, e)
           n == Len(ps)
<1>1. /\ n \in Nat
      /\ \A i \in 1..n : qs[i] = ps[i]
      /\ qs[n + 1] = e
    BY RingAppend
<1>2. HasLast(qs, n) /\ LastName(qs, n) = LastName(ps, n)
    BY <1>1, ItemsStable
<1> HIDE DEF qs, n
<1>3. CASE e.proto \in Registered
    <2>1. n + 1 \in Named(qs, n + 1) /\ \A l \in Named(qs, n + 1) : l \in 1..n + 1
        BY <1>1, <1>3 DEF Named
    <2> DEFINE m == Latest(Named(qs, n + 1))
    <2>2. m \in Named(qs, n + 1) /\ \A l \in Named(qs, n + 1) : l <= m
        BY <1>1, <2>1 DEF Latest
    <2>3. m = n + 1
        BY <1>1, <2>1, <2>2
    <2>4. LastName(qs, n + 1) = Handler(qs[m])
        BY <2>1 DEF LastName
    <2>5. HasLast(qs, n + 1)
        BY <1>1, <2>1 DEF HasLast
    <2> QED BY <1>1, <1>3, <2>3, <2>4, <2>5 DEF qs, n
<1>4. CASE e.proto \notin Registered
    <2>1. Named(qs, n + 1) = Named(qs, n)
        BY <1>1, <1>4 DEF Named
    <2>2. LastName(qs, n + 1) = LastName(qs, n)
        BY <2>1 DEF LastName
    <2>3. HasLast(qs, n + 1)
        BY <1>2, <2>1 DEF HasLast
    <2> QED BY <1>2, <1>4, <2>2, <2>3 DEF qs, n
<1> QED BY <1>3, <1>4

------------------------------------------------------------------------------
(* The indices                                                             *)

\* The slots between two indices, and what a step of either does to them.
LEMMA RingIndices ==
    ASSUME NEW f \in Slots, NEW g \in Slots
    PROVE  /\ Dist(f, g) \in Nat
           /\ Dist(f, g) = 0 <=> f = g
           /\ Wrap(f + Dist(f, g)) = g
           /\ \A k \in 0..Dist(f, g) - 1 : Wrap(f + k) \in Slots /\ Wrap(f + k) # g
           /\ Succ(g) \in Slots /\ Succ(f) \in Slots
           /\ Succ(g) # f => Dist(f, Succ(g)) = Dist(f, g) + 1
           /\ f # g => /\ Succ(f) # Succ(g)
                       /\ Dist(Succ(f), g) = Dist(f, g) - 1
                       /\ \A k \in 0..Dist(f, g) - 2 :
                             Wrap(Succ(f) + k) = Wrap(f + (k + 1))
<1>1. /\ BufMax \in Nat /\ BufMax >= 2
      /\ f \in Nat /\ f < BufMax
      /\ g \in Nat /\ g < BufMax
    BY RingAssumption DEF Slots
<1>2. \A x \in Int : x \in Slots <=> (0 <= x /\ x < BufMax)
    BY <1>1 DEF Slots
<1>3. /\ Dist(f, g) \in Nat /\ Dist(f, g) < BufMax
      /\ Dist(f, g) = 0 <=> f = g
      /\ Wrap(f + Dist(f, g)) = g
    BY <1>1 DEF Dist, Wrap
<1>4. \A k \in 0..Dist(f, g) - 1 : Wrap(f + k) \in Slots /\ Wrap(f + k) # g
    BY <1>1, <1>2, <1>3 DEF Dist, Wrap
<1>5. Succ(g) \in Slots /\ Succ(f) \in Slots
    BY <1>1, <1>2 DEF Succ
<1>6. Succ(g) # f => Dist(f, Succ(g)) = Dist(f, g) + 1
    BY <1>1 DEF Succ, Dist
<1>7. f # g => Succ(f) # Succ(g) /\ Dist(Succ(f), g) = Dist(f, g) - 1
    BY <1>1 DEF Succ, Dist
<1>8. ASSUME f # g, NEW k \in 0..Dist(f, g) - 2
      PROVE  Wrap(Succ(f) + k) = Wrap(f + (k + 1))
    <2>1. k \in Nat /\ k < BufMax
        BY <1>1, <1>3, <1>8
    <2> QED BY <1>1, <2>1 DEF Succ, Wrap
<1> QED BY <1>3, <1>4, <1>5, <1>6, <1>7, <1>8

------------------------------------------------------------------------------
(* The invariant                                                           *)

LEMMA RingInvInit == RingInit => RingInv
<1> SUFFICES ASSUME RingInit PROVE RingInv
    OBVIOUS
<1>1. 0 \in Slots /\ BufMax \in Nat /\ MaxPackets \in Nat
    BY RingAssumption DEF Slots
<1>2. Unset \in Names
    BY DEF Names
<1>3. Len(packets) = 0 /\ Len(taken) = 0
    BY DEF RingInit
<1>4. RingTypeOK
    <2>1. NoItem \in Items
        BY <1>1, <1>2 DEF NoItem, Items
    <2> QED BY <1>1, <1>2, <1>3, <2>1 DEF RingInit, RingTypeOK
<1>5. InHand
    <2>1. Named(packets, 0) = {}
        BY DEF Named
    <2> QED BY <1>3, <2>1 DEF RingInit, InHand, LastName, HasLast
<1>6. Contents
    <2>1. Occupied = 0
        BY <1>1, RingIndices DEF RingInit, Occupied
    <2> QED BY <1>3, <2>1 DEF RingInit, Contents, Stored, Removed
<1> QED BY <1>4, <1>5, <1>6 DEF RingInv

\* The types survive every step.
LEMMA RingTypeStep ==
    ASSUME RingTypeOK, [RingNext]_ringVars PROVE RingTypeOK'
<1> USE DEF RingTypeOK
<1>1. /\ Succ(free_index) \in Slots /\ Succ(full_index) \in Slots
      /\ Len(packets) \in Nat /\ MaxPackets \in Nat
    BY RingIndices, RingAssumption, LenProperties
<1>2. Unset \in Names
    BY DEF Names
<1>3. CASE TakeHandle \/ LeaveLoop \/ WaitForRoom \/ ProducerLocks
    BY <1>3 DEF TakeHandle, LeaveLoop, WaitForRoom, ProducerLocks, consumerVars
<1>4. CASE ReadPacket
    <2>1. PICK p \in Traffic :
              /\ packets' = Append(packets, p)
              /\ protoStr' = IF p.proto \in Registered THEN Handler(p) ELSE protoStr
        BY <1>4 DEF ReadPacket
    <2>2. protoStr' \in Names
        BY <2>1, HandlerName
    <2>3. packets' \in Seq(Traffic \union {Timeout}) /\ Len(packets') = Len(packets) + 1
        BY <2>1, RingAppend
    <2> QED BY <1>1, <1>4, <2>2, <2>3 DEF ReadPacket, consumerVars
<1>5. CASE ReadTimeout
    <2>1. packets' \in Seq(Traffic \union {Timeout}) /\ Len(packets') = Len(packets) + 1
        BY <1>5, RingAppend DEF ReadTimeout
    <2> QED BY <1>1, <1>5, <2>1 DEF ReadTimeout, consumerVars
<1>6. CASE StoreDefault
    <2>1. [id |-> Len(packets), proto |-> Unset] \in Items
        BY <1>1, <1>2 DEF Items
    <2> QED BY <1>6, <2>1 DEF StoreDefault, consumerVars
<1>7. CASE StorePacket
    <2>1. [id |-> Len(packets), proto |-> protoStr] \in Items
        BY <1>1 DEF Items
    <2> QED BY <1>7, <2>1 DEF StorePacket, consumerVars
<1>8. CASE AdvanceDefault
    BY <1>1, <1>8 DEF AdvanceDefault, consumerVars
<1>9. CASE AdvancePacket
    BY <1>1, <1>9 DEF AdvancePacket, consumerVars
<1>10. CASE Poll \/ ConsumerLocks \/ TestEmpty \/ WriteItem
    BY <1>10 DEF Poll, ConsumerLocks, TestEmpty, WriteItem, producerVars
<1>11. CASE CopyItem
    <2>1. shared_buff[full_index] \in Items
        OBVIOUS
    <2>2. taken' \in Seq(Items)
        BY <1>11, <2>1, RingAppend DEF CopyItem
    <2> QED BY <1>11, <2>1, <2>2 DEF CopyItem, producerVars
<1>12. CASE AdvanceFull
    BY <1>1, <1>12 DEF AdvanceFull, producerVars
<1>13. CASE UNCHANGED ringVars
    BY <1>13 DEF ringVars, producerVars, consumerVars
<1> QED BY <1>3, <1>4, <1>5, <1>6, <1>7, <1>8, <1>9, <1>10, <1>11, <1>12, <1>13
        DEF RingNext, ProducerNext, ConsumerNext

\* The producer's item and its name survive every step.
LEMMA InHandStep ==
    ASSUME RingTypeOK, InHand, [RingNext]_ringVars PROVE InHand'
<1> DEFINE All == Traffic \union {Timeout}
<1>1. /\ packets \in Seq(All) /\ Len(packets) \in Nat
      /\ taken \in Seq(Items) /\ Len(taken) \in Nat
    BY LenProperties DEF RingTypeOK
<1>2. ASSUME NEW e \in All, packets' = Append(packets, e)
      PROVE  /\ Len(packets') = Len(packets) + 1
             /\ packets'[Len(packets')] = e
             /\ \A n \in 0..Len(packets') : HasLast(packets', n)
             /\ LastName(packets', Len(packets')) =
                   IF e.proto \in Registered THEN Handler(e) ELSE protoStr
    <2>1. Len(packets') = Len(packets) + 1 /\ packets'[Len(packets')] = e
        BY <1>1, <1>2, RingAppend
    <2>2. /\ \A n \in 0..Len(packets) : HasLast(packets, n)
          /\ HasLast(packets, Len(packets))
        BY <1>1 DEF InHand
    <2>3. \A n \in 0..Len(packets) : HasLast(packets', n)
        BY <1>1, <1>2, <2>2, ItemsStable
    <2>4. /\ HasLast(packets', Len(packets'))
          /\ LastName(packets', Len(packets')) =
                IF e.proto \in Registered THEN Handler(e) ELSE LastName(packets, Len(packets))
        BY <1>1, <1>2, <2>1, <2>2, NameAppended
    <2> QED BY <1>1, <2>1, <2>3, <2>4 DEF InHand
<1>3. CASE ReadPacket
    <2>1. PICK p \in Traffic :
              /\ packets' = Append(packets, p)
              /\ protoStr' = IF p.proto \in Registered THEN Handler(p) ELSE protoStr
        BY <1>3 DEF ReadPacket
    <2>2. p # Timeout
        <3>1. p.proto \in Protocols
            BY RingAssumption DEF Packets
        <3>2. Timeout.proto \notin Protocols
            BY DEF Timeout, Protocols
        <3> QED BY <3>1, <3>2
    <2>3. /\ Len(packets') = Len(packets) + 1
          /\ packets'[Len(packets')] = p
          /\ \A n \in 0..Len(packets') : HasLast(packets', n)
          /\ LastName(packets', Len(packets')) = protoStr'
        BY <1>2, <2>1
    <2> QED BY <1>1, <1>3, <2>2, <2>3 DEF ReadPacket, InHand, consumerVars
<1>4. CASE ReadTimeout
    <2>1. /\ Len(packets') = Len(packets) + 1
          /\ packets'[Len(packets')] = Timeout
          /\ \A n \in 0..Len(packets') : HasLast(packets', n)
          /\ LastName(packets', Len(packets')) = protoStr
        BY <1>2, <1>4, TimeoutUnregistered DEF ReadTimeout
    <2> QED BY <1>1, <1>4, <2>1 DEF ReadTimeout, InHand, consumerVars
<1>5. CASE CopyItem
    <2>1. shared_buff[full_index] \in Items
        BY DEF RingTypeOK
    <2>2. Len(taken') = Len(taken) + 1
        BY <1>1, <1>5, <2>1, RingAppend DEF CopyItem
    <2> QED BY <1>1, <1>5, <2>2 DEF CopyItem, InHand, producerVars
<1>6. CASE TakeHandle \/ LeaveLoop \/ WaitForRoom \/ ProducerLocks
    BY <1>6 DEF TakeHandle, LeaveLoop, WaitForRoom, ProducerLocks, InHand, consumerVars
<1>7. CASE StoreDefault \/ StorePacket
    BY <1>7 DEF StoreDefault, StorePacket, InHand, consumerVars
<1>8. CASE AdvanceDefault \/ AdvancePacket
    BY <1>8 DEF AdvanceDefault, AdvancePacket, InHand, consumerVars
<1>9. CASE Poll \/ ConsumerLocks \/ TestEmpty \/ WriteItem \/ AdvanceFull
    BY <1>9 DEF Poll, ConsumerLocks, TestEmpty, WriteItem, AdvanceFull, InHand, producerVars
<1>10. CASE UNCHANGED ringVars
    BY <1>10 DEF ringVars, producerVars, consumerVars, InHand
<1> QED BY <1>3, <1>4, <1>5, <1>6, <1>7, <1>8, <1>9, <1>10
        DEF RingNext, ProducerNext, ConsumerNext

\* Until the ring is lapped, its contents survive every step.
LEMMA ContentsStep ==
    ASSUME RingInv, Contents, [RingNext]_ringVars, ~lapped'
    PROVE  Contents'
<1> DEFINE All == Traffic \union {Timeout}
<1>1. /\ packets \in Seq(All) /\ Len(packets) \in Nat
      /\ taken \in Seq(Items) /\ Len(taken) \in Nat
      /\ free_index \in Slots /\ full_index \in Slots
      /\ shared_buff \in [Slots -> Items]
    BY LenProperties DEF RingInv, RingTypeOK
<1>2. /\ Occupied \in Nat
      /\ Occupied = 0 <=> full_index = free_index
      /\ Wrap(full_index + Occupied) = free_index
      /\ \A k \in 0..Occupied - 1 :
            Wrap(full_index + k) \in Slots /\ Wrap(full_index + k) # free_index
      /\ Succ(free_index) # full_index =>
            Dist(full_index, Succ(free_index)) = Occupied + 1
    BY <1>1, RingIndices DEF Occupied
<1>3. /\ Removed \in Nat /\ Stored \in Nat /\ Stored <= Len(packets)
      /\ Removed + Occupied = Stored
    BY <1>1, <1>2 DEF RingInv, InHand, Contents, Removed, Stored
<1>4. \A k \in 0..Occupied - 1 :
          shared_buff[Wrap(full_index + k)] = ItemOf(packets, Removed + 1 + k)
    BY DEF Contents
<1>5. Len(taken) <= Stored
    BY <1>1, <1>2, <1>3 DEF Removed, Contents
\* A further packet leaves the items as they are.
<1>6. ASSUME NEW e \in All, packets' = Append(packets, e), producer = "read",
             UNCHANGED <<shared_buff, free_index, full_index, consumerVars>>,
             producer' \in {"room", "default"}
      PROVE  Contents'
    <2>1. Len(packets') = Len(packets) + 1
        BY <1>1, <1>6, RingAppend
    <2>2. /\ Stored = Len(packets) /\ Stored' = Stored
          /\ Removed' = Removed /\ Occupied' = Occupied
        BY <1>1, <1>6, <2>1 DEF Stored, Removed, Occupied, consumerVars
    <2>3. \A n \in 1..Len(packets) : ItemOf(packets', n) = ItemOf(packets, n)
        <3>1. \A n \in 0..Len(packets) : HasLast(packets, n)
            BY DEF RingInv, InHand
        <3> QED BY <1>1, <1>6, <3>1, ItemsStable
    <2>4. \A k \in 0..Occupied - 1 :
              ItemOf(packets', Removed + 1 + k) = ItemOf(packets, Removed + 1 + k)
        BY <1>2, <1>3, <2>2, <2>3
    <2>5. \A k \in 0..Occupied' - 1 :
              shared_buff'[Wrap(full_index' + k)] = ItemOf(packets', Removed' + 1 + k)
        BY <1>4, <1>6, <2>2, <2>4
    <2>6. \A n \in 1..Len(taken') : taken'[n] = ItemOf(packets', n)
        BY <1>1, <1>3, <1>5, <1>6, <2>3 DEF Contents, consumerVars
    <2>7. Stored' - Removed' = Occupied'
        BY <2>2 DEF Contents
    <2> QED BY <1>6, <2>5, <2>6, <2>7 DEF Contents, consumerVars
\* What the producer stores goes to a slot that holds nothing.
<1>7. ASSUME NEW i, shared_buff' = [shared_buff EXCEPT ![free_index] = i]
      PROVE  /\ shared_buff'[free_index] = i
             /\ \A k \in 0..Occupied - 1 :
                   shared_buff'[Wrap(full_index + k)] = ItemOf(packets, Removed + 1 + k)
    BY <1>1, <1>2, <1>4, <1>7
<1>8. ASSUME StoreDefault \/ StorePacket
      PROVE  Contents'
    <2>1. ItemOf(packets, Len(packets)) =
              [id |-> Len(packets), proto |-> IF producer = "default" THEN Unset ELSE protoStr]
        BY <1>8 DEF RingInv, InHand, ItemOf, StoreDefault, StorePacket
    <2>2. shared_buff' = [shared_buff EXCEPT ![free_index] = ItemOf(packets, Len(packets))]
        BY <1>8, <2>1 DEF StoreDefault, StorePacket
    <2>3. Stored' = Stored /\ Removed' = Removed /\ Occupied' = Occupied
        BY <1>8 DEF StoreDefault, StorePacket, Stored, Removed, Occupied, consumerVars
    <2>4. /\ UNCHANGED <<free_index, full_index, packets, consumer, taken>>
          /\ producer \in {"default", "store"}
          /\ producer = "default" => producer' = "advanceDefault"
          /\ producer = "store" => producer' = "advance"
        BY <1>8 DEF StoreDefault, StorePacket, consumerVars
    <2>5. /\ shared_buff'[free_index] = ItemOf(packets, Len(packets))
          /\ \A k \in 0..Occupied - 1 :
                shared_buff'[Wrap(full_index + k)] = ItemOf(packets, Removed + 1 + k)
        BY <1>7, <2>2
    <2> QED BY <2>3, <2>4, <2>5 DEF Contents
\* The index moves over what was stored.
<1>9. ASSUME AdvanceDefault \/ AdvancePacket
      PROVE  Contents'
    <2>1. /\ free_index' = Succ(free_index)
          /\ producer \in {"advanceDefault", "advance"} /\ producer' = "read"
          /\ UNCHANGED <<shared_buff, full_index, packets, consumer, taken>>
        BY <1>9 DEF AdvanceDefault, AdvancePacket, consumerVars
    <2>2. Succ(free_index) # full_index
        BY <1>9 DEF AdvanceDefault, AdvancePacket, Contents
    <2>3. Occupied' = Occupied + 1
        BY <1>2, <2>1, <2>2 DEF Occupied
    <2>4. Stored' = Len(packets) /\ Stored = Len(packets) - 1 /\ Removed' = Removed
        BY <2>1 DEF Stored, Removed
    <2>5. shared_buff[free_index] = ItemOf(packets, Len(packets))
        BY <2>1 DEF Contents
    <2>6. ASSUME NEW k \in 0..Occupied' - 1
          PROVE  shared_buff[Wrap(full_index + k)] = ItemOf(packets, Removed + 1 + k)
        <3>1. CASE k = Occupied
            <4>1. Removed + 1 + k = Len(packets)
                BY <1>1, <1>3, <2>4, <3>1
            <4> QED BY <1>2, <2>5, <3>1, <4>1
        <3>2. CASE k # Occupied
            <4>1. k \in 0..Occupied - 1
                BY <1>2, <2>3, <3>2
            <4> QED BY <1>4, <4>1
        <3> QED BY <3>1, <3>2
    <2>7. Stored' - Removed' = Occupied'
        BY <1>1, <1>2, <1>3, <2>3, <2>4
    <2> QED BY <2>1, <2>2, <2>4, <2>6, <2>7 DEF Contents
<1>10. CASE CopyItem
    <2>1. Occupied # 0
        BY <1>2, <1>10 DEF CopyItem, Contents
    <2>2. Wrap(full_index + 0) = full_index
        BY <1>1, RingAssumption DEF Wrap, Slots
    <2>3. shared_buff[full_index] = ItemOf(packets, Removed + 1)
        BY <1>2, <1>3, <1>4, <2>1, <2>2
    <2>4. shared_buff[full_index] \in Items
        BY <1>1
    <2>5. /\ Len(taken') = Len(taken) + 1
          /\ \A n \in 1..Len(taken) : taken'[n] = taken[n]
          /\ taken'[Len(taken) + 1] = shared_buff[full_index]
        BY <1>1, <1>10, <2>4, RingAppend DEF CopyItem
    <2>6. Removed = Len(taken)
        BY <1>10 DEF CopyItem, Removed
    <2>7. Removed' = Removed /\ Stored' = Stored /\ Occupied' = Occupied
        BY <1>1, <1>10, <2>5, <2>6 DEF CopyItem, Removed, Stored, Occupied, producerVars
    <2>8. \A n \in 1..Len(taken') : taken'[n] = ItemOf(packets, n)
        BY <1>1, <2>3, <2>5, <2>6 DEF Contents
    <2> QED BY <1>10, <2>7, <2>8 DEF CopyItem, Contents, producerVars
<1>11. CASE AdvanceFull
    <2>1. /\ full_index' = Succ(full_index)
          /\ consumer = "advance" /\ consumer' = "write"
          /\ UNCHANGED <<shared_buff, free_index, producerVars, taken>>
        BY <1>11 DEF AdvanceFull
    <2>2. free_index # full_index
        BY <2>1 DEF Contents
    <2>3. /\ Occupied' = Occupied - 1
          /\ \A k \in 0..Occupied - 2 :
                Wrap(full_index' + k) = Wrap(full_index + (k + 1))
          /\ Succ(free_index) # full_index'
        BY <1>1, <2>1, <2>2, RingIndices DEF Occupied
    <2>4. Removed' = Removed + 1 /\ Stored' = Stored
        BY <1>1, <2>1 DEF Removed, Stored, producerVars
    <2>5. ASSUME NEW k \in 0..Occupied - 2
          PROVE  shared_buff[Wrap(full_index' + k)] = ItemOf(packets, Removed' + 1 + k)
        <3>1. k + 1 \in 0..Occupied - 1 /\ Removed + 1 + (k + 1) = Removed' + 1 + k
            BY <1>2, <1>3, <2>4
        <3> QED BY <1>4, <2>3, <3>1
    <2>6. Stored' - Removed' = Occupied'
        BY <1>2, <1>3, <2>3, <2>4
    <2>7. \A k \in 0..Occupied' - 1 :
              shared_buff[Wrap(full_index' + k)] = ItemOf(packets, Removed' + 1 + k)
        BY <1>2, <2>3, <2>5
    <2> QED BY <2>1, <2>3, <2>6, <2>7 DEF Contents, producerVars
<1>12. CASE ReadPacket
    BY <1>6, <1>12 DEF ReadPacket
<1>13. CASE ReadTimeout
    BY <1>6, <1>13 DEF ReadTimeout
<1>14. CASE TakeHandle \/ LeaveLoop \/ WaitForRoom \/ ProducerLocks
    BY <1>14 DEF TakeHandle, LeaveLoop, WaitForRoom, ProducerLocks, consumerVars,
                 Contents, Stored, Removed, Occupied
<1>15. CASE Poll \/ ConsumerLocks \/ TestEmpty \/ WriteItem
    BY <1>15 DEF Poll, ConsumerLocks, TestEmpty, WriteItem, producerVars,
                 Contents, Stored, Removed, Occupied
<1>16. CASE UNCHANGED ringVars
    BY <1>16 DEF ringVars, producerVars, consumerVars, Contents, Stored, Removed, Occupied
<1> QED BY <1>8, <1>9, <1>10, <1>11, <1>12, <1>13, <1>14, <1>15, <1>16
        DEF RingNext, ProducerNext, ConsumerNext

LEMMA RingInvStep ==
    ASSUME RingInv, [RingNext]_ringVars PROVE RingInv'
<1>1. RingTypeOK'
    BY RingTypeStep DEF RingInv
<1>2. InHand'
    BY InHandStep DEF RingInv
<1>3. lapped => lapped'
    <2>1. CASE RingNext
        BY <2>1 DEF RingNext, ProducerNext, ConsumerNext, TakeHandle, LeaveLoop,
            ReadPacket, ReadTimeout, StoreDefault, AdvanceDefault, WaitForRoom,
            ProducerLocks, StorePacket, AdvancePacket, Poll, ConsumerLocks, TestEmpty,
            CopyItem, AdvanceFull, WriteItem
    <2>2. CASE UNCHANGED ringVars
        BY <2>2 DEF ringVars
    <2> QED BY <2>1, <2>2
<1>4. lapped' \/ Contents'
    BY <1>3, ContentsStep DEF RingInv
<1> QED BY <1>1, <1>2, <1>4 DEF RingInv

LEMMA RingInvOrder == RingInv => RingOrder
<1> SUFFICES ASSUME RingInv, ~lapped PROVE RingOrder
    BY DEF RingOrder
<1>1. Contents
    BY DEF RingInv
<1>2. /\ Len(packets) \in Nat /\ Len(taken) \in Nat
      /\ Occupied \in Nat
      /\ Occupied = 0 <=> full_index = free_index
    BY RingIndices, LenProperties DEF RingInv, RingTypeOK, Occupied
<1>3. /\ Stored - Removed = Occupied
      /\ consumer = "advance" => free_index # full_index
    BY <1>1 DEF Contents
<1>4. Len(taken) <= Len(packets)
    BY <1>2, <1>3 DEF Removed, Stored
<1> QED BY <1>1, <1>4 DEF RingOrder, Contents

------------------------------------------------------------------------------

\* The inductive invariant of the ring.
THEOREM RingInvariant == RingSpec => []RingInv
BY RingInvInit, RingInvStep, PTL DEF RingSpec

\* The types of Packages' ring hold at every step.
THEOREM RingTypeCorrect == RingSpec => []RingTypeOK
<1>1. RingInv => RingTypeOK
    BY DEF RingInv
<1> QED BY <1>1, RingInvariant, PTL

\* packages.h: with any number of slots, the consumer takes the items in the
\* order of capture, each once and under its name, and never copies the slot
\* the producer stores into, until a default item laps the ring.
THEOREM RingInOrder == RingSpec => []RingOrder
BY RingInvOrder, RingInvariant, PTL

------------------------------------------------------------------------------
(* The pipe and its readers                                               *)

\* Taking the head of a queue of messages and adding one keep it such a queue.
LEMMA MessagesStay ==
    ASSUME NEW S, NEW q \in Seq(S)
    PROVE  /\ q # << >> => Head(q) \in S /\ Tail(q) \in Seq(S)
           /\ \A m \in S : Append(q, m) \in Seq(S)
BY HeadTailProperties, AppendProperties

------------------------------------------------------------------------------
(* Types                                                                   *)

LEMMA PathTypeInit == Init => TypeOK
<1> SUFFICES ASSUME Init PROVE TypeOK
    OBVIOUS
<1>1. PipeTypeOK
    BY PipeAssumption DEF Init, PipeInit, PipeTypeOK
<1>0. \A S : << >> \in Seq(S)
    OBVIOUS
<1>2. WorkerTypeOK
    BY <1>0 DEF Init, WorkerInit, WorkerTypeOK, WorkerStates, StopStates
<1>3. ServiceTypeOK
    <2>1. /\ logged \in [Serves -> Seq(0..MaxItems)]
          /\ attempt \in 0..MaxAttempts /\ captured \in 0..MaxCaptures
        BY <1>0, PipeAssumption, ServiceAssumption DEF Init, ServiceInit
    <2> QED BY <2>1 DEF Init, ServiceInit, ServiceTypeOK
<1>4. RingTypeOK
    BY RingInvInit DEF Init, RingInv
<1> QED BY <1>1, <1>2, <1>3, <1>4 DEF Init, TypeOK

\* What the operations of the pipe keep.
PipeTyped ==
    /\ serves \in 0..MaxServes
    /\ server \in [Serves -> {"none", "listening", "open", "closed"}]
    /\ holder \in [Serves -> Clients \union {Nobody}]
    /\ pipe \in [Serves -> Seq(0..MaxItems)]

LEMMA PipeOperations ==
    ASSUME PipeTyped, NEW c \in Clients
    PROVE  /\ Connect(c) => PipeTyped'
           /\ \A s \in Serves :
                 ReadMessage(c, s) => PipeTyped' /\ Head(pipe[s]) \in 0..MaxItems
           /\ Release(c) => PipeTyped'
           /\ \A m \in 0..MaxItems : WriteMessage(m) => PipeTyped'
           /\ UNCHANGED pipeVars => PipeTyped'
<1> USE DEF PipeTyped
<1>1. Connect(c) => PipeTyped'
    BY DEF Connect
<1>2. ASSUME NEW s \in Serves, ReadMessage(c, s)
      PROVE  PipeTyped' /\ Head(pipe[s]) \in 0..MaxItems
    <2>1. pipe[s] \in Seq(0..MaxItems) /\ pipe[s] # << >>
        BY <1>2 DEF ReadMessage
    <2>2. Head(pipe[s]) \in 0..MaxItems /\ Tail(pipe[s]) \in Seq(0..MaxItems)
        BY <2>1, HeadTailProperties
    <2> QED BY <1>2, <2>2 DEF ReadMessage
<1>3. ASSUME Release(c) PROVE PipeTyped'
    <2>1. << >> \in Seq(0..MaxItems)
        OBVIOUS
    <2>2. pipe' \in [Serves -> Seq(0..MaxItems)]
        BY <1>3, <2>1 DEF Release
    <2>3. holder' \in [Serves -> Clients \union {Nobody}]
        BY <1>3 DEF Release
    <2> QED BY <1>3, <2>2, <2>3 DEF Release
<1>4. ASSUME NEW m \in 0..MaxItems, WriteMessage(m) PROVE PipeTyped'
    <2>1. serves \in Serves
        BY <1>4, PipeAssumption DEF WriteMessage, Serves
    <2>2. Append(pipe[serves], m) \in Seq(0..MaxItems)
        BY <2>1, MessagesStay
    <2>3. pipe' \in [Serves -> Seq(0..MaxItems)]
        BY <1>4, <2>2 DEF WriteMessage
    <2> QED BY <1>4, <2>3 DEF WriteMessage
<1>5. UNCHANGED pipeVars => PipeTyped'
    BY DEF pipeVars
<1> QED BY <1>1, <1>2, <1>3, <1>4, <1>5

\* The thread that serves the pipe.
LEMMA DllTypes ==
    ASSUME PipeTypeOK, DllStep PROVE PipeTypeOK'
<1> USE DEF PipeTypeOK
<1>1. CASE DllCreate
    <2>1. serves' \in 0..MaxServes
        BY <1>1, PipeAssumption DEF DllCreate
    <2> QED BY <1>1, <2>1 DEF DllCreate
<1>2. CASE DllOpenEvent(EventExists) \/ DllGivesUp(EventExists)
    BY <1>2 DEF DllOpenEvent, DllGivesUp, pipeVars
<1>3. CASE DllAccept \/ DllStartCapture
    BY <1>3 DEF DllAccept, DllStartCapture, pipeVars
<1>4. CASE DllCreateFails \/ DllWaitFails
    BY <1>4 DEF DllCreateFails, DllWaitFails, pipeVars
<1>5. CASE DllAcceptFails
    BY <1>5 DEF DllAcceptFails, CloseServer
<1> QED BY <1>1, <1>2, <1>3, <1>4, <1>5 DEF DllStep, DllNext

\* The Worker.
LEMMA WorkerTypes ==
    ASSUME PipeTyped, WorkerTypeOK,
           WorkerStep \/ StopStep \/ UNCHANGED <<pipeVars, workerVars>>
    PROVE  PipeTyped' /\ WorkerTypeOK'
<1> USE DEF WorkerTypeOK, WorkerStates, StopStates
<1>1. "worker" \in Clients
    BY DEF Clients
<1>2. ASSUME NEW s \in Serves, NEW i \in 0..MaxItems, Enqueue(s, i)
      PROVE  /\ enqueued' \in [Serves -> Seq(0..MaxItems)] /\ late' \in Nat
             /\ uiQueue' \subseteq StopStates
    <2>1. Append(enqueued[s], i) \in Seq(0..MaxItems)
        BY MessagesStay
    <2> QED BY <1>2, <2>1 DEF Enqueue
<1>3. CASE WorkerReads
    <2>1. PICK s \in Serves : ReadMessage("worker", s) /\ Enqueue(s, Head(pipe[s]))
        BY <1>3 DEF WorkerReads
    <2>2. PipeTyped' /\ Head(pipe[s]) \in 0..MaxItems
        BY <1>1, <2>1, PipeOperations
    <2>3. /\ enqueued' \in [Serves -> Seq(0..MaxItems)] /\ late' \in Nat
          /\ uiQueue' \subseteq StopStates
        BY <1>2, <2>1, <2>2
    <2> QED BY <1>3, <2>2, <2>3 DEF WorkerReads
<1>4. CASE WorkerReadsEnd
    <2>1. PICK s \in Serves : Enqueue(s, Zeros)
        BY <1>4 DEF WorkerReadsEnd
    <2>2. Zeros \in 0..MaxItems
        BY PipeAssumption DEF Zeros
    <2>3. PipeTyped'
        BY <1>1, <1>4, PipeOperations DEF WorkerReadsEnd
    <2> QED BY <1>2, <1>4, <2>1, <2>2, <2>3 DEF WorkerReadsEnd
<1>5. CASE WorkerConnects
    BY <1>1, <1>5, PipeOperations DEF WorkerConnects, queueVars
<1>6. CASE WorkerInner
    BY <1>1, <1>6, PipeOperations DEF WorkerInner, queueVars
<1>7. CASE WorkerReadFails
    BY <1>1, <1>7, PipeOperations DEF WorkerReadFails, queueVars
<1>8. CASE WorkerLoop \/ WorkerConnectCancelled \/ WorkerAfter \/ WorkerDelay
    BY <1>1, <1>8, PipeOperations
       DEF WorkerLoop, WorkerConnectCancelled, WorkerAfter, WorkerDelay, queueVars
<1>10. CASE WorkerClean \/ WorkerCancel
    BY <1>1, <1>10, PipeOperations DEF WorkerClean, WorkerCancel, queueVars
<1>9. CASE UNCHANGED <<pipeVars, workerVars>>
    BY <1>1, <1>9, PipeOperations DEF workerVars
<1> QED BY <1>3, <1>4, <1>5, <1>6, <1>7, <1>8, <1>9, <1>10
        DEF WorkerStep, WorkerRuns, StopStep

\* serviceApp; fnCPPDLL is back at its start when a process starts or ends.
LEMMA ServiceTypes ==
    ASSUME PipeTypeOK, ServiceTypeOK,
           ServiceStep \/ SessionStep \/ ControlStep \/ ExitStep
    PROVE  PipeTypeOK' /\ ServiceTypeOK'
<1> USE DEF ServiceTypeOK
<1>1. "service" \in Clients
    BY DEF Clients
<1>2. PipeTyped
    BY DEF PipeTypeOK, PipeTyped
<1>3. ASSUME PipeTyped', UNCHANGED dll PROVE PipeTypeOK'
    BY <1>3 DEF PipeTypeOK, PipeTyped
<1>4. CASE ServiceReads
    <2>1. PICK s \in Serves :
              /\ ReadMessage("service", s)
              /\ logged' = [logged EXCEPT ![s] = Append(@, Head(pipe[s]))]
        BY <1>4 DEF ServiceReads
    <2>2. PipeTyped' /\ Head(pipe[s]) \in 0..MaxItems
        BY <1>1, <1>2, <2>1, PipeOperations
    <2>3. Append(logged[s], Head(pipe[s])) \in Seq(0..MaxItems)
        BY <2>2, MessagesStay
    <2>4. logged' \in [Serves -> Seq(0..MaxItems)]
        BY <2>1, <2>3
    <2> QED BY <1>3, <1>4, <2>2, <2>4 DEF ServiceReads
<1>5. CASE SessionWrites
    <2>1. captured' \in 0..MaxCaptures /\ captured' \in 0..MaxItems
        BY <1>5, PipeAssumption, ServiceAssumption DEF SessionWrites
    <2>2. PipeTyped'
        BY <1>1, <1>2, <1>5, <2>1, PipeOperations DEF SessionWrites
    <2> QED BY <1>3, <1>5, <2>1, <2>2 DEF SessionWrites
<1>6. CASE ServiceConnects
    <2>1. PipeTyped'
        BY <1>1, <1>2, <1>6, PipeOperations DEF ServiceConnects
    <2> QED BY <1>3, <1>6, <2>1 DEF ServiceConnects
<1>7. CASE ServiceAttemptFails
    <2>1. /\ attempt' \in 0..MaxAttempts
          /\ attempt' # MaxAttempts => attempt' < MaxAttempts
        BY <1>7, ServiceAssumption DEF ServiceAttemptFails
    <2> QED BY <1>7, <2>1 DEF ServiceAttemptFails, PipeTypeOK, pipeVars
<1>8. CASE ServicePeeks \/ PutAndSignal \/ ServiceStop
    BY <1>8 DEF ServicePeeks, PutAndSignal, ServiceStop, PipeTypeOK, pipeVars
<1>9. CASE SpawnDll
    BY <1>9 DEF SpawnDll, PipeTypeOK, pipeVars
<1>10. CASE ServiceStart
    BY <1>10, PipeAssumption, ServiceAssumption DEF ServiceStart, PipeTypeOK, pipeVars
<1>11. CASE ProcessExit
    <2>1. << >> \in Seq(0..MaxItems)
        OBVIOUS
    <2>2. pipe' \in [Serves -> Seq(0..MaxItems)]
        BY <1>11, <2>1 DEF ProcessExit, PipeTypeOK
    <2>3. holder' \in [Serves -> Clients \union {Nobody}]
        BY <1>11 DEF ProcessExit, PipeTypeOK
    <2>4. server' \in [Serves -> {"none", "listening", "open", "closed"}]
        BY <1>11 DEF ProcessExit, PipeTypeOK
    <2> QED BY <1>11, <2>2, <2>3, <2>4 DEF ProcessExit, PipeTypeOK
<1> QED BY <1>4, <1>5, <1>6, <1>7, <1>8, <1>9, <1>10, <1>11
        DEF ServiceStep, ServiceRuns, SessionStep, ControlStep, ExitStep

\* Whatever moves, the ring makes one of its own steps or none.
LEMMA RingMoves == [Next]_vars => [RingNext]_ringVars
<1> SUFFICES ASSUME [Next]_vars PROVE [RingNext]_ringVars
    OBVIOUS
<1>1. CASE ProducerStep \/ ConsumerStep
    BY <1>1 DEF ProducerStep, ConsumerStep, RingNext
<1>2. CASE WorkerStep \/ StopStep \/ DllStep
    BY <1>2 DEF WorkerStep, StopStep, DllStep
<1>3. CASE ServiceStep \/ SessionStep \/ ControlStep \/ ExitStep
    BY <1>3 DEF ServiceStep, SessionStep, ControlStep, ExitStep
<1>4. CASE UNCHANGED vars
    BY <1>4 DEF vars
<1> QED BY <1>1, <1>2, <1>3, <1>4 DEF Next

\* The ring's threads touch the pipe, and nothing else outside the ring.
LEMMA RingThreads ==
    ASSUME TypeOK, ProducerStep \/ ConsumerStep
    PROVE  PipeTyped' /\ UNCHANGED <<host, dll, workerVars, serviceVars>>
<1>1. "worker" \in Clients
    BY DEF Clients
<1>2. PipeTyped
    BY DEF TypeOK, PipeTypeOK, PipeTyped
<1>3. CASE ProducerStep
    BY <1>1, <1>2, <1>3, PipeOperations DEF ProducerStep
<1>4. CASE ConsumerStep
    <2>1. consumed_item \in Items
        BY DEF TypeOK, RingTypeOK
    <2>2. consumed_item.id \in 0..MaxPackets
        BY <2>1 DEF Items
    <2>3. consumed_item.id \in 0..MaxItems
        BY <2>2, PathAssumption, PipeAssumption, RingAssumption
    <2>4. PipeTyped'
        BY <1>1, <1>2, <1>4, <2>3, PipeOperations DEF ConsumerStep
    <2> QED BY <1>4, <2>4 DEF ConsumerStep
<1> QED BY <1>3, <1>4

LEMMA PathTypeStep ==
    ASSUME TypeOK, [Next]_vars PROVE TypeOK'
<1>1. RingTypeOK'
    BY RingMoves, RingTypeStep DEF TypeOK
<1>2. "worker" \in Clients
    BY DEF Clients
<1>3. PipeTyped
    BY DEF TypeOK, PipeTypeOK, PipeTyped
<1>4. ASSUME PipeTyped', UNCHANGED dll PROVE PipeTypeOK'
    BY <1>4 DEF TypeOK, PipeTypeOK, PipeTyped
<1>5. ASSUME UNCHANGED workerVars PROVE WorkerTypeOK'
    BY <1>5 DEF TypeOK, WorkerTypeOK, workerVars
<1>6. ASSUME UNCHANGED serviceVars PROVE ServiceTypeOK'
    BY <1>6 DEF TypeOK, ServiceTypeOK, serviceVars
<1>7. ASSUME UNCHANGED host PROVE host' \in Hosts
    BY <1>7 DEF TypeOK
<1>8. CASE WorkerStep \/ StopStep
    <2>1. PipeTyped' /\ WorkerTypeOK'
        BY <1>3, <1>8, WorkerTypes DEF TypeOK
    <2>2. UNCHANGED <<host, dll, serviceVars>>
        BY <1>8 DEF WorkerStep, StopStep
    <2> QED BY <1>1, <1>4, <1>6, <1>7, <2>1, <2>2 DEF TypeOK
<1>9. CASE DllStep
    <2>1. PipeTypeOK'
        BY <1>9, DllTypes DEF TypeOK
    <2>2. UNCHANGED <<host, workerVars, serviceVars>>
        BY <1>9 DEF DllStep
    <2> QED BY <1>1, <1>5, <1>6, <1>7, <2>1, <2>2 DEF TypeOK
<1>10. CASE ServiceStep \/ SessionStep \/ ControlStep \/ ExitStep
    <2>1. PipeTypeOK' /\ ServiceTypeOK'
        BY <1>10, ServiceTypes DEF TypeOK
    <2>2. UNCHANGED <<host, workerVars>>
        BY <1>10 DEF ServiceStep, SessionStep, ControlStep, ExitStep
    <2> QED BY <1>1, <1>5, <1>7, <2>1, <2>2 DEF TypeOK
<1>11. CASE ProducerStep \/ ConsumerStep
    <2>1. PipeTyped' /\ UNCHANGED <<host, dll, workerVars, serviceVars>>
        BY <1>11, RingThreads
    <2> QED BY <1>1, <1>4, <1>5, <1>6, <1>7, <2>1 DEF TypeOK
<1>12. CASE UNCHANGED vars
    <2>1. UNCHANGED <<host, dll, pipeVars, workerVars, serviceVars>>
        BY <1>12 DEF vars
    <2>2. PipeTyped'
        BY <1>2, <1>3, <2>1, PipeOperations
    <2> QED BY <1>1, <1>4, <1>5, <1>6, <1>7, <2>1, <2>2 DEF TypeOK
<1> QED BY <1>8, <1>9, <1>10, <1>11, <1>12 DEF Next

\* Every variable keeps its type in the whole path from the capture to the readers.
THEOREM PathTypeCorrect == SafetySpec => []TypeOK
BY PathTypeInit, PathTypeStep, PTL DEF SafetySpec

------------------------------------------------------------------------------

\* packages.h behind the pipe: the order of the ring does not depend on what
\* the pipe, its readers or their stops do.
THEOREM PathRingInOrder == SafetySpec => []RingOrder
<1>1. Init => RingInv
    BY RingInvInit DEF Init
<1>2. RingInv /\ [Next]_vars => RingInv'
    BY RingMoves, RingInvStep
<1> QED BY <1>1, <1>2, RingInvOrder, PTL DEF SafetySpec

------------------------------------------------------------------------------
(* What a stopped Worker queues                                            *)

\* A read is entered before the cancellation only, and queues one snapshot; the
\* clean-up leaves nothing behind, and what comes after it is told apart.
LateInv ==
    /\ late \in Nat /\ late <= 1
    /\ ~cancelled => late = 0
    /\ worker = "read" => late = 0
    /\ stopping # "no" => "no" \notin uiQueue

LEMMA LateStep ==
    ASSUME LateInv, [Next]_vars PROVE LateInv'
<1> USE DEF LateInv, cancelled
<1>1. CASE WorkerReads \/ WorkerReadsEnd
    <2>1. worker = "read" /\ worker' = "inner" /\ UNCHANGED stopping
        BY <1>1 DEF WorkerReads, WorkerReadsEnd
    <2>2. /\ late' = IF cancelled THEN late + 1 ELSE late
          /\ uiQueue' = uiQueue \union {stopping}
        BY <1>1 DEF WorkerReads, WorkerReadsEnd, Enqueue
    <2> QED BY <2>1, <2>2
<1>2. CASE WorkerInner
    BY <1>2 DEF WorkerInner, queueVars
<1>3. CASE WorkerLoop \/ WorkerConnects \/ WorkerConnectCancelled
    BY <1>3 DEF WorkerLoop, WorkerConnects, WorkerConnectCancelled, queueVars
<1>4. CASE WorkerReadFails \/ WorkerAfter \/ WorkerDelay
    BY <1>4 DEF WorkerReadFails, WorkerAfter, WorkerDelay, queueVars
<1>8. CASE WorkerClean \/ WorkerCancel
    BY <1>8 DEF WorkerClean, WorkerCancel, queueVars
<1>5. CASE UNCHANGED workerVars
    BY <1>5 DEF workerVars
<1>6. CASE DllStep \/ ServiceStep \/ SessionStep \/ ControlStep \/ ExitStep
    BY <1>5, <1>6 DEF DllStep, ServiceStep, SessionStep, ControlStep, ExitStep
<1>7. CASE ProducerStep \/ ConsumerStep \/ UNCHANGED vars
    BY <1>5, <1>7 DEF ProducerStep, ConsumerStep, vars
<1> QED BY <1>1, <1>2, <1>3, <1>4, <1>6, <1>7, <1>8 DEF Next, WorkerStep, WorkerRuns, StopStep

\* Worker.StopAsync: whatever else happens, nothing from before the stop stays in the
\* queue of the user interface, and one snapshot at most is queued after the
\* cancellation; between the two the Worker reads on.
THEOREM StopLeavesOneSnapshot == SafetySpec => []LateReads
<1>1. Init => LateInv
    BY DEF Init, WorkerInit, LateInv
<1>2. LateInv /\ [Next]_vars => LateInv'
    BY LateStep
<1>3. LateInv => LateReads
    BY DEF LateInv, LateReads
<1> QED BY <1>1, <1>2, <1>3, PTL DEF SafetySpec

------------------------------------------------------------------------------
(* Each reader's share of an instance                                      *)

\* The items of q follow the number n; q ends with the snapshot of zeros.
Numbered(q, n) == \A i \in 1..Len(q) : q[i] = n + i
Ended(q) == q # << >> /\ q[Len(q)] = Zeros

\* One instance with its server's end srv, its holder h, the messages p in it,
\* and what the Worker and the service have read of it, e and l.  What has been
\* read and what is left in the pipe are numbered through.
Share(srv, h, p, e, l) ==
    /\ e = << >> \/ l = << >>
    /\ h = "worker" => l = << >>
    /\ h = "service" => e = << >>
    /\ h = Nobody => p = << >>
    /\ InOrder(e) /\ Numbered(l, 0)
    /\ Ended(e) => srv = "closed"
    /\ h # Nobody /\ ~Ended(e) => Numbered(p, Len(e) + Len(l))
    /\ srv \in {"none", "listening"} => h = Nobody /\ e = << >> /\ l = << >>

Messages == Seq(0..MaxItems)

\* Removing and adding items keeps the numbering.
LEMMA NumberedItems ==
    ASSUME NEW q \in Messages, NEW n \in Nat, Numbered(q, n)
    PROVE  /\ Len(q) \in Nat
           /\ q # << >> => /\ Head(q) = n + 1
                           /\ Tail(q) \in Messages
                           /\ Len(q) = Len(Tail(q)) + 1
                           /\ Numbered(Tail(q), n + 1)
           /\ \A m \in 0..MaxItems :
                 /\ Append(q, m) \in Messages
                 /\ Len(Append(q, m)) = Len(q) + 1
                 /\ Append(q, m)[Len(q) + 1] = m
                 /\ m = n + Len(q) + 1 => Numbered(Append(q, m), n)
<1>1. Len(q) \in Nat
    BY DEF Messages
<1>2. ASSUME q # << >>
      PROVE  /\ Head(q) = n + 1
             /\ Tail(q) \in Messages
             /\ Len(q) = Len(Tail(q)) + 1
             /\ Numbered(Tail(q), n + 1)
    <2>1. /\ Head(q) = q[1] /\ Tail(q) \in Messages
          /\ Len(Tail(q)) = Len(q) - 1 /\ Len(q) > 0
          /\ \A i \in 1..Len(Tail(q)) : Tail(q)[i] = q[i + 1]
        BY <1>1, <1>2, HeadTailProperties DEF Messages
    <2>2. Head(q) = n + 1
        BY <1>1, <2>1 DEF Numbered
    <2>3. ASSUME NEW i \in 1..Len(Tail(q)) PROVE Tail(q)[i] = n + 1 + i
        <3>1. i + 1 \in 1..Len(q) /\ Tail(q)[i] = q[i + 1]
            BY <1>1, <2>1
        <3>2. q[i + 1] = n + (i + 1)
            BY <3>1 DEF Numbered
        <3> QED BY <1>1, <2>1, <3>1, <3>2
    <2>4. Numbered(Tail(q), n + 1)
        BY <2>3 DEF Numbered
    <2>5. Len(q) = Len(Tail(q)) + 1
        BY <1>1, <2>1
    <2> QED BY <2>1, <2>2, <2>4, <2>5
<1>3. ASSUME NEW m \in 0..MaxItems
      PROVE  /\ Append(q, m) \in Messages
             /\ Len(Append(q, m)) = Len(q) + 1
             /\ Append(q, m)[Len(q) + 1] = m
             /\ m = n + Len(q) + 1 => Numbered(Append(q, m), n)
    <2>1. /\ Append(q, m) \in Messages /\ Len(Append(q, m)) = Len(q) + 1
          /\ \A i \in 1..Len(q) : Append(q, m)[i] = q[i]
          /\ Append(q, m)[Len(q) + 1] = m
        BY AppendProperties DEF Messages
    <2>2. ASSUME m = n + Len(q) + 1 PROVE Numbered(Append(q, m), n)
        <3>1. ASSUME NEW i \in 1..Len(q) + 1 PROVE Append(q, m)[i] = n + i
            <4>1. CASE i \in 1..Len(q)
                BY <2>1, <4>1 DEF Numbered
            <4>2. CASE i = Len(q) + 1
                BY <1>1, <2>1, <2>2, <4>2
            <4> QED BY <1>1, <4>1, <4>2
        <3> QED BY <2>1, <3>1 DEF Numbered
    <2> QED BY <2>1, <2>2
<1> QED BY <1>1, <1>2, <1>3

\* A share without the snapshot of zeros is numbered from its first item on, and
\* stays in order with its next item or with the zeros behind it.
LEMMA InOrderItems ==
    ASSUME NEW q \in Messages, InOrder(q), ~Ended(q)
    PROVE  /\ Numbered(q, 0)
           /\ \A m \in 0..MaxItems : m \in {Zeros, Len(q) + 1} =>
                 InOrder(Append(q, m)) /\ (m # Zeros => ~Ended(Append(q, m)))
<1>1. Len(q) \in Nat
    BY DEF Messages
<1>2. ASSUME NEW i \in 1..Len(q) PROVE q[i] = i
    <2>1. q # << >>
        BY <1>1, <1>2
    <2> QED BY <2>1 DEF InOrder, Ended
<1>3. Numbered(q, 0)
    BY <1>1, <1>2 DEF Numbered
<1>4. ASSUME NEW m \in 0..MaxItems, m \in {Zeros, Len(q) + 1}
      PROVE  InOrder(Append(q, m)) /\ (m # Zeros => ~Ended(Append(q, m)))
    <2>1. /\ Append(q, m) \in Messages /\ Len(Append(q, m)) = Len(q) + 1
          /\ \A i \in 1..Len(q) : Append(q, m)[i] = q[i]
          /\ Append(q, m)[Len(q) + 1] = m
        BY AppendProperties DEF Messages
    <2> QED BY <1>1, <1>2, <1>4, <2>1 DEF InOrder, Ended
<1> QED BY <1>3, <1>4

\* A client opens the instance.
LEMMA ShareOpened ==
    ASSUME NEW h, NEW p, NEW e, NEW l, Share("listening", h, p, e, l), NEW c \in Clients
    PROVE  Share("open", c, p, e, l) /\ p = << >> /\ Len(e) = 0 /\ Len(l) = 0
<1>1. h = Nobody /\ p = << >> /\ e = << >> /\ l = << >>
    BY DEF Share
<1>2. ~Ended(e) /\ Numbered(p, Len(e) + Len(l))
    BY <1>1 DEF Ended, Numbered
<1> QED BY <1>1, <1>2 DEF Share, Clients, Nobody

\* The holder reads a message.
LEMMA ShareRead ==
    ASSUME NEW srv, NEW p \in Messages, NEW e \in Messages, NEW l \in Messages, p # << >>
    PROVE  /\ Share(srv, "worker", p, e, l) /\ ~Ended(e)
                 => /\ Share(srv, "worker", Tail(p), Append(e, Head(p)), l)
                    /\ ~Ended(Append(e, Head(p)))
           /\ Share(srv, "service", p, e, l)
                 => Share(srv, "service", Tail(p), e, Append(l, Head(p)))
<1>0. Head(p) \in 0..MaxItems /\ Tail(p) \in Messages
    BY MessagesStay DEF Messages
<1>1. /\ Head(p) \in 0..MaxItems /\ Tail(p) \in Messages
      /\ Len(e) \in Nat /\ Len(l) \in Nat
    BY <1>0, LenProperties DEF Messages
<1>2. ASSUME Share(srv, "worker", p, e, l), ~Ended(e)
      PROVE  /\ Share(srv, "worker", Tail(p), Append(e, Head(p)), l)
             /\ ~Ended(Append(e, Head(p)))
    <2>1. /\ l = << >> /\ Len(l) = 0 /\ InOrder(e) /\ Numbered(p, Len(e))
          /\ srv \notin {"none", "listening"} /\ Numbered(l, 0)
        BY <1>1, <1>2 DEF Share, Nobody
    <2>2. Head(p) = Len(e) + 1 /\ Numbered(Tail(p), Len(e) + 1)
        BY <1>1, <2>1, NumberedItems
    <2>3. InOrder(Append(e, Head(p))) /\ ~Ended(Append(e, Head(p)))
        BY <1>1, <1>2, <2>1, <2>2, InOrderItems DEF Zeros
    <2>4. Len(Append(e, Head(p))) = Len(e) + 1
        BY <1>1, AppendProperties DEF Messages
    <2> QED BY <1>1, <2>1, <2>2, <2>3, <2>4 DEF Share, Nobody
<1>3. ASSUME Share(srv, "service", p, e, l)
      PROVE  Share(srv, "service", Tail(p), e, Append(l, Head(p)))
    <2>1. /\ e = << >> /\ Len(e) = 0 /\ ~Ended(e) /\ InOrder(e)
          /\ Numbered(l, 0) /\ srv \notin {"none", "listening"}
        BY <1>3 DEF Share, Nobody, Ended
    <2>2. Numbered(p, Len(l))
        BY <1>1, <1>3, <2>1 DEF Share, Nobody
    <2>3. Head(p) = Len(l) + 1 /\ Numbered(Tail(p), Len(l) + 1)
        BY <1>1, <2>2, NumberedItems
    <2>4. Numbered(Append(l, Head(p)), 0) /\ Len(Append(l, Head(p))) = Len(l) + 1
        BY <1>1, <2>1, <2>3, NumberedItems
    <2> QED BY <1>1, <2>1, <2>3, <2>4 DEF Share, Nobody
<1> QED BY <1>2, <1>3

\* The Worker meets the end of the instance.
LEMMA ShareEnds ==
    ASSUME NEW e \in Messages, NEW l, Share("closed", "worker", << >>, e, l), ~Ended(e)
    PROVE  Share("closed", "worker", << >>, Append(e, Zeros), l)
<1>1. Zeros \in 0..MaxItems
    BY PipeAssumption DEF Zeros
<1>2. Ended(Append(e, Zeros))
    <2>1. /\ Len(e) \in Nat /\ Len(Append(e, Zeros)) = Len(e) + 1
          /\ Append(e, Zeros)[Len(e) + 1] = Zeros
        BY <1>1, RingAppend DEF Messages
    <2>2. Append(e, Zeros) # << >>
        BY <2>1
    <2> QED BY <2>1, <2>2 DEF Ended
<1>3. InOrder(Append(e, Zeros))
    BY <1>1, InOrderItems DEF Share
<1> QED BY <1>2, <1>3 DEF Share, Nobody

\* The holder closes its handle; the server closes its end.
LEMMA ShareClosed ==
    ASSUME NEW srv, NEW h, NEW p, NEW e, NEW l, Share(srv, h, p, e, l)
    PROVE  /\ Share(srv, Nobody, << >>, e, l)
           /\ srv # "none" => Share("closed", h, p, e, l)
BY DEF Share, Nobody

\* The next item is written for a holder.
LEMMA ShareWritten ==
    ASSUME NEW h, h # Nobody, NEW p \in Messages, NEW e \in Messages, NEW l \in Messages,
           Share("open", h, p, e, l), NEW m \in 0..MaxItems,
           m = Len(e) + Len(l) + Len(p) + 1
    PROVE  Share("open", h, Append(p, m), e, l)
<1>1. Len(e) + Len(l) \in Nat
    BY DEF Messages
<1>2. Numbered(p, Len(e) + Len(l)) /\ ~Ended(e)
    BY DEF Share
<1>3. Numbered(Append(p, m), Len(e) + Len(l))
    BY <1>1, <1>2, NumberedItems
<1> QED BY <1>2, <1>3 DEF Share

------------------------------------------------------------------------------
(* Every reader gets its instance in order                                 *)

\* The capture runs, or can: the ring's process, or one of the service.
Up == host = "ring" \/ process

\* The items that a client of the newest instance has had the chance to get.
Written ==
    IF host = "service" THEN captured
    ELSE IF consumer \in {"advance", "write"} THEN Len(taken) - 1 ELSE Len(taken)

\* Nothing is written before the capture starts, and it starts from the first
\* item in each process; the ring's consumer has one item in its hands.
Writer ==
    /\ Up /\ dll # "capture" => Written = 0
    /\ process /\ serviceMain = "spawn" => dll = "idle"
    /\ ~process => serviceMain = "none"
    /\ consumer \in {"advance", "write"} =>
          Len(taken) > 0 /\ consumed_item = taken[Len(taken)]

\* A reader holds an instance only while it reads, and the Worker does not read
\* again after the end of the pipe.
Readers ==
    /\ worker \notin {"inner", "read"} => \A s \in Serves : holder[s] # "worker"
    /\ serviceMain \notin {"peek", "read"} => \A s \in Serves : holder[s] # "service"
    /\ worker = "read" => ~broken

\* Only the newest instance can be opened or written, and only in a process that
\* created it; its holder has read, or finds in it, all that was written.
Instance(s) ==
    /\ server[s] = "none" <=> s > serves
    /\ server[s] \in {"listening", "open"} =>
          s = serves /\ Up /\ dll \in {"accept", "waitEvent", "capture", "gaveUp"}
    /\ server[s] = "listening" => dll = "accept"
    /\ server[s] = "open" /\ holder[s] # Nobody =>
          Len(enqueued[s]) + Len(logged[s]) + Len(pipe[s]) = Written
    /\ holder[s] = "worker" /\ Ended(enqueued[s]) => broken
    /\ Share(server[s], holder[s], pipe[s], enqueued[s], logged[s])

Delivery == Writer /\ Readers /\ \A s \in Serves : Instance(s)

OrderInv == TypeOK /\ RingInv /\ (lapped \/ Delivery)

\* An instance that is left alone stays as it is, if what its state depends on
\* stays too.
LEMMA InstanceKept ==
    ASSUME NEW s \in Serves, Instance(s),
           UNCHANGED <<serves, server[s], holder[s], pipe[s], enqueued[s], logged[s]>>,
           server[s] \in {"listening", "open"} =>
              Up' /\ dll' \in {"accept", "waitEvent", "capture", "gaveUp"},
           server[s] = "listening" => dll' = "accept",
           server[s] = "open" /\ holder[s] # Nobody => Written' = Written,
           holder[s] = "worker" /\ broken => broken'
    PROVE  Instance(s)'
BY DEF Instance

\* Nothing happens to the pipe.
LEMMA InstancesKept ==
    ASSUME \A s \in Serves : Instance(s),
           UNCHANGED <<pipeVars, dll, enqueued, logged, Up, Written>>,
           broken => (broken' \/ \A s \in Serves : holder[s] # "worker")
    PROVE  \A s \in Serves : Instance(s)'
<1>1. ASSUME NEW s \in Serves PROVE Instance(s)'
    <2>1. Instance(s)
        OBVIOUS
    <2>2. /\ UNCHANGED <<serves, server[s], holder[s], pipe[s], enqueued[s], logged[s]>>
          /\ holder[s] = "worker" /\ broken => broken'
        BY DEF pipeVars
    <2>3. server[s] \in {"listening", "open"} =>
              Up' /\ dll' \in {"accept", "waitEvent", "capture", "gaveUp"}
        BY <2>1 DEF Instance
    <2>4. server[s] = "listening" => dll' = "accept"
        BY <2>1 DEF Instance
    <2> QED BY <2>1, <2>2, <2>3, <2>4, InstanceKept
<1> QED BY <1>1

\* A client opens the newest instance, before anything is written to it.
LEMMA InstancesOpened ==
    ASSUME TypeOK, Writer, \A s \in Serves : Instance(s),
           NEW c \in Clients, Connect(c),
           UNCHANGED <<dll, enqueued, logged, broken, Up, Written>>
    PROVE  \A s \in Serves : Instance(s)'
<1>1. PICK t \in Serves :
          /\ server[t] = "listening"
          /\ server' = [server EXCEPT ![t] = "open"]
          /\ holder' = [holder EXCEPT ![t] = c]
          /\ UNCHANGED <<serves, pipe>>
    BY DEF Connect
<1>2. ASSUME NEW s \in Serves PROVE Instance(s)'
    <2>1. Instance(s) /\ Instance(t)
        OBVIOUS
    <2>2. /\ server \in [Serves -> {"none", "listening", "open", "closed"}]
          /\ holder \in [Serves -> Clients \union {Nobody}]
        BY DEF TypeOK, PipeTypeOK
    <2>3. CASE s # t
        <3>1. UNCHANGED <<serves, server[s], holder[s], pipe[s], enqueued[s], logged[s]>>
            BY <1>1, <2>2, <2>3
        <3>2. /\ server[s] \in {"listening", "open"} =>
                     Up' /\ dll' \in {"accept", "waitEvent", "capture", "gaveUp"}
              /\ server[s] = "listening" => dll' = "accept"
            BY <2>1 DEF Instance
        <3> QED BY <2>1, <3>1, <3>2, InstanceKept
    <2>4. CASE s = t
        <3>1. /\ server'[t] = "open" /\ holder'[t] = c /\ pipe'[t] = pipe[t]
              /\ enqueued'[t] = enqueued[t] /\ logged'[t] = logged[t]
            BY <1>1, <2>2
        <3>2. Share("listening", holder[t], pipe[t], enqueued[t], logged[t])
            BY <1>1, <2>1 DEF Instance
        <3>3. /\ Share("open", c, pipe[t], enqueued[t], logged[t])
              /\ pipe[t] = << >> /\ Len(enqueued[t]) = 0 /\ Len(logged[t]) = 0
            BY <3>2, ShareOpened
        <3>4. t = serves /\ Up /\ dll = "accept" /\ Written = 0
            BY <1>1, <2>1 DEF Instance, Writer
        <3>5. ~Ended(enqueued[t])
            BY <3>2, <1>1 DEF Share, Ended
        <3>6. t \in Nat /\ Len(pipe[t]) = 0
            BY <3>3, PipeAssumption DEF Serves
        <3> QED BY <1>1, <2>4, <3>1, <3>3, <3>4, <3>5, <3>6 DEF Instance
    <2> QED BY <2>3, <2>4
<1> QED BY <1>2

\* A client closes its handle.
LEMMA InstancesReleased ==
    ASSUME TypeOK, \A s \in Serves : Instance(s),
           NEW c \in Clients, Release(c),
           UNCHANGED <<dll, enqueued, logged, broken, Up, Written>>
    PROVE  /\ \A s \in Serves : Instance(s)'
           /\ \A s \in Serves : holder'[s] # c
           /\ \A s \in Serves, d \in Clients : holder[s] # d => holder'[s] # d
<1>1. /\ holder' = [s \in Serves |-> IF holder[s] = c THEN Nobody ELSE holder[s]]
      /\ pipe' = [s \in Serves |-> IF holder[s] = c THEN << >> ELSE pipe[s]]
      /\ UNCHANGED <<serves, server>>
    BY DEF Release
<1>2. ASSUME NEW s \in Serves PROVE Instance(s)'
    <2>1. Instance(s)
        OBVIOUS
    <2>2. /\ server[s] \in {"listening", "open"} =>
                 Up' /\ dll' \in {"accept", "waitEvent", "capture", "gaveUp"}
          /\ server[s] = "listening" => dll' = "accept"
        BY <2>1 DEF Instance
    <2>3. CASE holder[s] # c
        <3>1. UNCHANGED <<serves, server[s], holder[s], pipe[s], enqueued[s], logged[s]>>
            BY <1>1, <2>3
        <3> QED BY <2>1, <2>2, <3>1, InstanceKept
    <2>4. CASE holder[s] = c
        <3>1. /\ holder'[s] = Nobody /\ pipe'[s] = << >> /\ server'[s] = server[s]
              /\ enqueued'[s] = enqueued[s] /\ logged'[s] = logged[s]
              /\ UNCHANGED serves
            BY <1>1, <2>4
        <3>2. Share(server[s], Nobody, << >>, enqueued[s], logged[s])
            BY <2>1, ShareClosed DEF Instance
        <3>3. /\ server[s] = "none" <=> s > serves
              /\ server[s] \in {"listening", "open"} => s = serves
            BY <2>1 DEF Instance
        <3> QED BY <2>2, <3>1, <3>2, <3>3 DEF Instance, Nobody
    <2> QED BY <2>3, <2>4
<1>3. \A s \in Serves : holder'[s] # c
    BY <1>1 DEF Clients, Nobody
<1>4. \A s \in Serves, d \in Clients : holder[s] # d => holder'[s] # d
    BY <1>1 DEF Clients, Nobody
<1> QED BY <1>2, <1>3, <1>4

\* The holder takes a message out of its instance.
LEMMA InstancesRead ==
    ASSUME TypeOK, \A s \in Serves : Instance(s),
           NEW t \in Serves, NEW c \in Clients, ReadMessage(c, t),
           UNCHANGED <<dll, broken, Up, Written>>,
           c = "worker" =>
              /\ ~broken
              /\ enqueued' = [enqueued EXCEPT ![t] = Append(@, Head(pipe[t]))]
              /\ UNCHANGED logged,
           c = "service" =>
              /\ logged' = [logged EXCEPT ![t] = Append(@, Head(pipe[t]))]
              /\ UNCHANGED enqueued
    PROVE  \A s \in Serves : Instance(s)'
<1>1. /\ holder[t] = c /\ pipe[t] # << >>
      /\ pipe' = [pipe EXCEPT ![t] = Tail(pipe[t])]
      /\ UNCHANGED <<serves, server, holder>>
    BY DEF ReadMessage
<1>2. /\ pipe \in [Serves -> Messages]
      /\ enqueued \in [Serves -> Messages] /\ logged \in [Serves -> Messages]
    BY DEF TypeOK, PipeTypeOK, WorkerTypeOK, ServiceTypeOK, Messages
<1>3. c \in {"worker", "service"}
    BY DEF Clients
<1>4. ASSUME NEW s \in Serves PROVE Instance(s)'
    <2>1. Instance(s) /\ Instance(t)
        OBVIOUS
    <2>2. /\ server[s] \in {"listening", "open"} =>
                 Up' /\ dll' \in {"accept", "waitEvent", "capture", "gaveUp"}
          /\ server[s] = "listening" => dll' = "accept"
        BY <2>1 DEF Instance
    <2>3. CASE s # t
        <3>1. UNCHANGED <<serves, server[s], holder[s], pipe[s], enqueued[s], logged[s]>>
            BY <1>1, <1>2, <1>3, <2>3
        <3> QED BY <2>1, <2>2, <3>1, InstanceKept
    <2>4. CASE s = t
        <3> DEFINE p == pipe[t]
                   e == enqueued[t]
                   l == logged[t]
                   rest == Tail(p)
                   more == Append(e, Head(p))
                   most == Append(l, Head(p))
        <3>1. /\ Share(server[t], c, p, e, l)
              /\ server[t] = "open" => Len(e) + Len(l) + Len(p) = Written
              /\ server[t] = "none" <=> t > serves
              /\ server[t] \in {"listening", "open"} => t = serves
            BY <1>1, <1>3, <2>1 DEF Instance, Nobody
        <3>2. p \in Messages /\ e \in Messages /\ l \in Messages
            BY <1>2
        <3>3. /\ Len(p) \in Nat /\ Len(e) \in Nat /\ Len(l) \in Nat
              /\ Len(rest) = Len(p) - 1
              /\ Len(more) = Len(e) + 1
              /\ Len(most) = Len(l) + 1
            <4>1. Len(p) \in Nat /\ Len(e) \in Nat /\ Len(l) \in Nat
                BY <3>2, LenProperties DEF Messages
            <4>2. Head(p) \in 0..MaxItems /\ Len(Tail(p)) = Len(p) - 1
                BY <1>1, <3>2, HeadTailProperties DEF Messages
            <4>3. /\ Len(Append(e, Head(p))) = Len(e) + 1
                  /\ Len(Append(l, Head(p))) = Len(l) + 1
                BY <3>2, <4>2, AppendProperties DEF Messages
            <4> QED BY <4>1, <4>2, <4>3
        <3>4. pipe'[t] = rest /\ server'[t] = server[t] /\ holder'[t] = c /\ serves' = serves
            BY <1>1, <1>2
        <3>5. c = "worker" => /\ enqueued'[t] = more /\ logged'[t] = l
                              /\ Share(server[t], c, rest, more, l) /\ ~Ended(more)
            <4> SUFFICES ASSUME c = "worker" PROVE enqueued'[t] = more /\ logged'[t] = l
                              /\ Share(server[t], c, rest, more, l) /\ ~Ended(more)
                OBVIOUS
            <4>1. ~Ended(e)
                BY <1>1, <2>1 DEF Instance
            <4>2. enqueued'[t] = more /\ logged'[t] = l
                BY <1>2
            <4> QED BY <1>1, <3>1, <3>2, <4>1, <4>2, ShareRead
        <3>6. c = "service" => /\ enqueued'[t] = e /\ logged'[t] = most
                               /\ Share(server[t], c, rest, e, most)
            BY <1>1, <1>2, <3>1, <3>2, ShareRead
        <3> HIDE DEF p, e, l, rest, more, most
        <3>7. server[t] = "open" => /\ Len(more) + Len(l) + Len(rest) = Written
                                    /\ Len(e) + Len(most) + Len(rest) = Written
            BY <3>1, <3>3
        <3>8. CASE c = "worker"
            BY <2>2, <2>4, <3>1, <3>4, <3>5, <3>7, <3>8 DEF Instance
        <3>9. CASE c = "service"
            BY <2>2, <2>4, <3>1, <3>4, <3>6, <3>7, <3>9 DEF Instance
        <3> QED BY <1>3, <3>8, <3>9
    <2> QED BY <2>3, <2>4
<1> QED BY <1>4

\* The Worker queues the snapshot of zeros, and sees the end of the pipe.
LEMMA InstancesEnded ==
    ASSUME TypeOK, \A s \in Serves : Instance(s), ~broken, broken',
           NEW t \in Serves, AtEnd("worker", t), Enqueue(t, Zeros),
           UNCHANGED <<dll, pipeVars, logged, Up, Written>>
    PROVE  \A s \in Serves : Instance(s)'
<1>1. holder[t] = "worker" /\ pipe[t] = << >> /\ server[t] = "closed"
    BY DEF AtEnd
<1>2. enqueued' = [enqueued EXCEPT ![t] = Append(@, Zeros)]
    BY DEF Enqueue
<1>3. enqueued \in [Serves -> Messages]
    BY DEF TypeOK, WorkerTypeOK, Messages
<1>4. ASSUME NEW s \in Serves PROVE Instance(s)'
    <2>1. Instance(s)
        OBVIOUS
    <2>2. /\ server[s] \in {"listening", "open"} =>
                 Up' /\ dll' \in {"accept", "waitEvent", "capture", "gaveUp"}
          /\ server[s] = "listening" => dll' = "accept"
        BY <2>1 DEF Instance
    <2>3. CASE s # t
        <3>1. UNCHANGED <<serves, server[s], holder[s], pipe[s], enqueued[s], logged[s]>>
            BY <1>2, <1>3, <2>3 DEF pipeVars
        <3> QED BY <2>1, <2>2, <3>1, InstanceKept
    <2>4. CASE s = t
        <3>1. Share("closed", "worker", << >>, enqueued[t], logged[t]) /\ ~Ended(enqueued[t])
            BY <1>1, <2>1, <2>4 DEF Instance
        <3>2. Share("closed", "worker", << >>, Append(enqueued[t], Zeros), logged[t])
            BY <1>3, <3>1, ShareEnds
        <3>3. enqueued'[t] = Append(enqueued[t], Zeros)
            BY <1>2, <1>3
        <3> QED BY <1>1, <2>1, <2>4, <3>2, <3>3 DEF Instance, pipeVars
    <2> QED BY <2>3, <2>4
<1> QED BY <1>4

\* The next item of the capture is written, or its client has gone.
LEMMA InstancesWritten ==
    ASSUME TypeOK, \A s \in Serves : Instance(s),
           Written \in Nat, Written' = Written + 1,
           \/ Written + 1 \in 0..MaxItems /\ WriteMessage(Written + 1)
           \/ WriteRefused /\ UNCHANGED pipeVars,
           UNCHANGED <<dll, enqueued, logged, broken, Up>>
    PROVE  \A s \in Serves : Instance(s)'
<1>1. ASSUME NEW s \in Serves PROVE Instance(s)'
    <2>1. Instance(s)
        OBVIOUS
    <2>2. /\ server[s] \in {"listening", "open"} =>
                 s = serves /\ Up' /\ dll' \in {"accept", "waitEvent", "capture", "gaveUp"}
          /\ server[s] = "listening" => dll' = "accept"
        BY <2>1 DEF Instance
    <2>3. CASE WriteRefused /\ UNCHANGED pipeVars
        <3>1. UNCHANGED <<serves, server[s], holder[s], pipe[s], enqueued[s], logged[s]>>
            BY <2>3 DEF pipeVars
        <3>2. serves # 0
              => (server[s] = "open" => holder[s] = Nobody)
            BY <2>2, <2>3 DEF WriteRefused
        <3>3. s # 0
            BY PipeAssumption DEF Serves
        <3> QED BY <2>1, <2>2, <3>1, <3>2, <3>3, InstanceKept
    <2>4. CASE Written + 1 \in 0..MaxItems /\ WriteMessage(Written + 1)
        <3>1. /\ server[serves] = "open" /\ holder[serves] # Nobody
              /\ pipe' = [pipe EXCEPT ![serves] = Append(@, Written + 1)]
              /\ UNCHANGED <<serves, server, holder>>
            BY <2>4 DEF WriteMessage
        <3>2. /\ pipe \in [Serves -> Messages]
              /\ enqueued \in [Serves -> Messages] /\ logged \in [Serves -> Messages]
            BY DEF TypeOK, PipeTypeOK, WorkerTypeOK, ServiceTypeOK, Messages
        <3>3. CASE s # serves
            <4>1. UNCHANGED <<serves, server[s], holder[s], pipe[s], enqueued[s], logged[s]>>
                BY <3>1, <3>2, <3>3
            <4> QED BY <2>1, <2>2, <3>3, <4>1, InstanceKept
        <3>4. CASE s = serves
            <4> DEFINE p == pipe[s]
                       e == enqueued[s]
                       l == logged[s]
                       more == Append(p, Written + 1)
            <4>1. /\ Share("open", holder[s], p, e, l)
                  /\ Len(e) + Len(l) + Len(p) = Written
                  /\ holder[s] = "worker" /\ Ended(e) => broken
                BY <2>1, <3>1, <3>4 DEF Instance
            <4>2. p \in Messages /\ e \in Messages /\ l \in Messages
                BY <3>2
            <4>3. /\ Len(p) \in Nat /\ Len(e) \in Nat /\ Len(l) \in Nat
                  /\ Len(more) = Len(p) + 1
                BY <2>4, <4>2, LenProperties, AppendProperties DEF Messages
            <4>4. Share("open", holder[s], more, e, l)
                BY <2>4, <3>1, <3>4, <4>1, <4>2, ShareWritten
            <4>5. /\ pipe'[s] = more /\ enqueued'[s] = e /\ logged'[s] = l
                  /\ server'[s] = "open" /\ holder'[s] = holder[s] /\ serves' = serves
                BY <3>1, <3>2, <3>4
            <4>6. ~(s > serves)
                BY <3>4, PipeAssumption DEF Serves
            <4> HIDE DEF p, e, l, more
            <4>7. Len(e) + Len(l) + Len(more) = Written'
                BY <4>1, <4>3
            <4>8. server[s] = "open"
                BY <3>1, <3>4
            <4> QED BY <2>2, <3>4, <4>1, <4>4, <4>5, <4>6, <4>7, <4>8 DEF Instance
        <3> QED BY <3>3, <3>4
    <2> QED BY <2>3, <2>4
<1> QED BY <1>1

\* What the Worker does keeps the delivery in order.
LEMMA DeliveryWorker ==
    ASSUME TypeOK, Delivery, WorkerStep \/ StopStep PROVE Delivery'
<1>1. UNCHANGED <<host, dll, serviceVars, ringVars>>
    BY DEF WorkerStep, StopStep
<1>2. /\ Up' = Up /\ Written' = Written
      /\ UNCHANGED <<process, serviceMain, captured, logged, consumer, taken, consumed_item>>
    BY <1>1 DEF Up, Written, serviceVars, ringVars, consumerVars
<1>3. Writer'
    BY <1>1, <1>2 DEF Delivery, Writer
<1>4. /\ Readers /\ Writer /\ \A s \in Serves : Instance(s)
      /\ "worker" \in Clients /\ "service" \in Clients
    BY DEF Delivery, Clients
<1>5. CASE WorkerLoop \/ WorkerConnectCancelled \/ WorkerAfter \/ WorkerDelay \/ StopStep
    <2>1. UNCHANGED <<pipeVars, enqueued>>
        BY <1>5 DEF WorkerLoop, WorkerConnectCancelled, WorkerAfter, WorkerDelay, StopStep,
           WorkerClean, WorkerCancel, queueVars
    <2>2. broken => (broken' \/ \A s \in Serves : holder[s] # "worker")
        BY <1>4, <1>5 DEF WorkerLoop, WorkerConnectCancelled, WorkerAfter, WorkerDelay,
           StopStep, WorkerClean, WorkerCancel, Readers
    <2>3. \A s \in Serves : Instance(s)'
        BY <1>1, <1>2, <1>4, <2>1, <2>2, InstancesKept
    <2>4. Readers'
        BY <1>2, <1>4, <1>5 DEF WorkerLoop, WorkerConnectCancelled, WorkerAfter,
           WorkerDelay, StopStep, WorkerClean, WorkerCancel, Readers, pipeVars
    <2> QED BY <1>3, <2>3, <2>4 DEF Delivery
<1>6. CASE WorkerConnects
    <2>1. Connect("worker") /\ worker' = "inner" /\ UNCHANGED <<broken, enqueued>>
        BY <1>6 DEF WorkerConnects, queueVars
    <2>2. \A s \in Serves : Instance(s)'
        BY <1>1, <1>2, <1>4, <2>1, InstancesOpened
    <2>3. Readers'
        BY <1>2, <1>4, <2>1 DEF Readers, Connect
    <2> QED BY <1>3, <2>2, <2>3 DEF Delivery
<1>7. CASE WorkerInner /\ worker' = "read"
    <2>1. ~broken /\ UNCHANGED <<broken, enqueued, pipeVars>>
        BY <1>7 DEF WorkerInner, IsConnected, queueVars
    <2>2. \A s \in Serves : Instance(s)'
        BY <1>1, <1>2, <1>4, <2>1, InstancesKept
    <2>3. Readers'
        BY <1>2, <1>4, <1>7, <2>1 DEF Readers, pipeVars
    <2> QED BY <1>3, <2>2, <2>3 DEF Delivery
<1>8. CASE WorkerReadFails \/ (WorkerInner /\ worker' # "read")
    <2>1. Release("worker") /\ worker' = "after" /\ UNCHANGED <<broken, enqueued>>
        BY <1>8 DEF WorkerReadFails, WorkerInner, queueVars
    <2>2. /\ \A s \in Serves : Instance(s)'
          /\ \A s \in Serves : holder'[s] # "worker"
          /\ \A s \in Serves : holder[s] # "service" => holder'[s] # "service"
        BY <1>1, <1>2, <1>4, <2>1, InstancesReleased
    <2>3. Readers'
        BY <1>2, <1>4, <2>1, <2>2 DEF Readers
    <2> QED BY <1>3, <2>2, <2>3 DEF Delivery
<1>9. CASE WorkerReads
    <2>1. PICK t \in Serves : ReadMessage("worker", t) /\ Enqueue(t, Head(pipe[t]))
        BY <1>9 DEF WorkerReads
    <2>2. ~broken /\ UNCHANGED broken /\ worker' = "inner"
        BY <1>4, <1>9 DEF WorkerReads, Readers
    <2>3. \A s \in Serves : Instance(s)'
        BY <1>1, <1>2, <1>4, <2>1, <2>2, InstancesRead DEF Enqueue
    <2>4. Readers'
        BY <1>2, <1>4, <2>1, <2>2, <1>9 DEF Readers, ReadMessage, WorkerReads
    <2> QED BY <1>3, <2>3, <2>4 DEF Delivery
<1>10. CASE WorkerReadsEnd
    <2>1. PICK t \in Serves : AtEnd("worker", t) /\ Enqueue(t, Zeros)
        BY <1>10 DEF WorkerReadsEnd
    <2>2. ~broken /\ broken' /\ worker' = "inner" /\ UNCHANGED pipeVars
        BY <1>4, <1>10 DEF WorkerReadsEnd, Readers
    <2>3. \A s \in Serves : Instance(s)'
        BY <1>1, <1>2, <1>4, <2>1, <2>2, InstancesEnded DEF Enqueue
    <2>4. Readers'
        BY <1>2, <1>4, <2>2 DEF Readers, pipeVars
    <2> QED BY <1>3, <2>3, <2>4 DEF Delivery
<1> QED BY <1>5, <1>6, <1>7, <1>8, <1>9, <1>10 DEF WorkerStep, WorkerRuns, StopStep

\* fnCPPDLL: a new instance is served, with nothing written to it.
LEMMA DeliveryDll ==
    ASSUME TypeOK, Delivery, DllStep PROVE Delivery'
<1>1. UNCHANGED <<host, workerVars, serviceVars, ringVars>> /\ Up /\ DllNext(EventExists)
    BY DEF DllStep, Up
<1>2. /\ Up' = Up /\ Written' = Written
      /\ UNCHANGED <<process, serviceMain, logged, consumer, taken, consumed_item,
                     worker, broken, enqueued>>
    BY <1>1 DEF Up, Written, serviceVars, ringVars, consumerVars, workerVars
<1>3. Writer /\ Readers /\ \A s \in Serves : Instance(s)
    BY DEF Delivery
<1>4. dll # "idle" /\ (dll' = "capture" => dll = "waitEvent")
    BY <1>1 DEF DllNext, DllOpenEvent, DllGivesUp, DllCreate, DllCreateFails, DllAccept,
       DllAcceptFails, DllStartCapture, DllWaitFails
<1>5. Writer'
    <2>1. dll # "capture"
        BY <1>1 DEF DllNext, DllOpenEvent, DllGivesUp, DllCreate, DllCreateFails, DllAccept,
           DllAcceptFails, DllStartCapture, DllWaitFails
    <2> QED BY <1>1, <1>2, <1>3, <1>4, <2>1 DEF Writer
<1>6. Readers'
    BY <1>1, <1>2, <1>3
       DEF DllNext, DllOpenEvent, DllGivesUp, DllCreate, DllCreateFails, DllAccept,
           DllAcceptFails, DllStartCapture, DllWaitFails, CloseServer, Readers, pipeVars
<1>7. ASSUME NEW s \in Serves PROVE Instance(s)'
    <2>1. Instance(s)
        BY <1>3
    <2>2. CASE DllCreate
        <3>1. /\ dll = "create" /\ dll' = "accept" /\ serves' = serves + 1
              /\ server' = [server EXCEPT ![serves + 1] = "listening"]
              /\ UNCHANGED <<holder, pipe>>
            BY <2>2 DEF DllCreate
        <3>2. /\ server \in [Serves -> {"none", "listening", "open", "closed"}]
              /\ serves \in Nat /\ s \in Nat
            BY PipeAssumption DEF TypeOK, PipeTypeOK, Serves
        <3>3. CASE s = serves + 1
            <4>1. server[s] = "none" /\ server'[s] = "listening"
                BY <2>1, <3>1, <3>2, <3>3 DEF Instance
            <4>2. holder[s] = Nobody /\ enqueued[s] = << >> /\ logged[s] = << >>
                BY <2>1, <4>1 DEF Instance, Share
            <4>3. Share("listening", holder[s], pipe[s], enqueued[s], logged[s])
                BY <2>1, <4>1, <4>2 DEF Instance, Share, Nobody
            <4> QED BY <1>1, <1>2, <3>1, <3>2, <3>3, <4>1, <4>2, <4>3 DEF Instance, Nobody
        <3>4. CASE s # serves + 1
            <4>1. server'[s] = server[s] /\ server[s] \notin {"listening", "open"}
                BY <2>1, <3>1, <3>2, <3>4 DEF Instance
            <4>2. s > serves <=> s > serves'
                BY <3>1, <3>2, <3>4
            <4>3. UNCHANGED <<server[s], holder[s], pipe[s], enqueued[s], logged[s], broken>>
                BY <1>2, <3>1, <4>1
            <4> QED BY <2>1, <4>1, <4>2, <4>3 DEF Instance
        <3> QED BY <3>3, <3>4
    <2>3. CASE DllOpenEvent(EventExists) \/ DllGivesUp(EventExists) \/ DllCreateFails
                  \/ DllAccept \/ DllStartCapture \/ DllWaitFails
        <3>1. UNCHANGED pipeVars
            BY <2>3 DEF DllOpenEvent, DllGivesUp, DllCreateFails, DllAccept, DllStartCapture,
               DllWaitFails
        <3>2. UNCHANGED <<serves, server[s], holder[s], pipe[s], enqueued[s], logged[s]>>
            BY <1>2, <3>1 DEF pipeVars
        <3>3. /\ server[s] \in {"listening", "open"} =>
                     Up' /\ dll' \in {"accept", "waitEvent", "capture", "gaveUp"}
              /\ server[s] = "listening" => dll' = "accept"
            BY <1>1, <1>2, <2>1, <2>3
               DEF Instance, DllOpenEvent, DllGivesUp, DllCreateFails, DllAccept,
                   DllStartCapture, DllWaitFails
        <3> QED BY <1>2, <2>1, <3>2, <3>3, InstanceKept
    <2>4. CASE DllAcceptFails
        <3>1. /\ dll = "accept" /\ dll' = "waitEvent" /\ UNCHANGED <<serves, holder, pipe>>
              /\ server' = [t \in Serves |-> IF t <= serves THEN "closed" ELSE server[t]]
            BY <2>4 DEF DllAcceptFails, CloseServer
        <3>2. s \in Nat /\ serves \in Nat
            BY PipeAssumption DEF TypeOK, PipeTypeOK, Serves
        <3>3. UNCHANGED <<broken, holder[s], pipe[s], enqueued[s], logged[s]>>
            BY <1>2, <3>1
        <3>4. CASE server[s] = "none"
            <4>1. server'[s] = "none"
                BY <2>1, <3>1, <3>2, <3>4 DEF Instance
            <4> QED BY <2>1, <3>1, <3>3, <3>4, <4>1 DEF Instance
        <3>5. CASE server[s] # "none"
            <4>1. server'[s] = "closed" /\ ~(s > serves')
                BY <2>1, <3>1, <3>2, <3>5 DEF Instance
            <4>2. Share("closed", holder[s], pipe[s], enqueued[s], logged[s])
                BY <2>1, <3>5, ShareClosed DEF Instance
            <4> QED BY <2>1, <3>1, <3>3, <4>1, <4>2 DEF Instance
        <3> QED BY <3>4, <3>5
    <2> QED BY <1>1, <2>2, <2>3, <2>4 DEF DllNext
<1> QED BY <1>5, <1>6, <1>7 DEF Delivery

\* serviceApp: a new process starts the capture from its first item, and the end
\* of one closes what it served.
LEMMA DeliveryService ==
    ASSUME TypeOK, Delivery, ServiceStep \/ SessionStep \/ ControlStep \/ ExitStep
    PROVE  Delivery'
<1>1. host = "service" /\ UNCHANGED <<host, workerVars, ringVars>>
    BY DEF ServiceStep, SessionStep, ControlStep, ExitStep
<1>2. /\ UNCHANGED <<worker, broken, enqueued, consumer, taken, consumed_item>>
      /\ Written = captured /\ Written' = captured'
      /\ Up <=> process
      /\ Up' <=> process'
    BY <1>1 DEF Up, Written, ringVars, consumerVars, workerVars
<1>3. /\ Writer /\ Readers /\ \A s \in Serves : Instance(s)
      /\ "worker" \in Clients /\ "service" \in Clients
    BY DEF Delivery, Clients
<1>4. ASSUME UNCHANGED <<dll, process, broken>>, UNCHANGED captured
      PROVE  Up' = Up /\ Written' = Written
    BY <1>1, <1>4 DEF Up, Written
<1>5. CASE ServicePeeks \/ PutAndSignal \/ ServiceAttemptFails \/ ServiceStop
    <2>1. /\ UNCHANGED <<dll, process, captured, logged, pipeVars>>
          /\ serviceMain' \in {"peek", "read"} => serviceMain \in {"peek", "read"}
          /\ serviceMain' = "spawn" => serviceMain = "spawn"
          /\ process
        BY <1>5 DEF ServicePeeks, PutAndSignal, ServiceAttemptFails, ServiceStop
    <2>2. \A s \in Serves : Instance(s)'
        BY <1>2, <1>3, <1>4, <2>1, InstancesKept
    <2>3. Readers'
        BY <1>2, <1>3, <1>5, <2>1
           DEF Readers, pipeVars, ServicePeeks, PutAndSignal, ServiceAttemptFails, ServiceStop
    <2>4. Writer'
        BY <1>2, <1>3, <2>1 DEF Writer
    <2> QED BY <2>2, <2>3, <2>4 DEF Delivery
<1>6. CASE SpawnDll
    <2>1. /\ process /\ serviceMain = "spawn" /\ dll = "idle" /\ dll' = "openEvent"
          /\ serviceMain' = "put" /\ UNCHANGED <<process, captured, logged, pipeVars>>
        BY <1>3, <1>6 DEF SpawnDll, Writer
    <2>2. ASSUME NEW s \in Serves PROVE Instance(s)'
        <3>1. Instance(s) /\ server[s] \notin {"listening", "open"}
            BY <1>3, <2>1 DEF Instance
        <3>2. UNCHANGED <<serves, server[s], holder[s], pipe[s], enqueued[s], logged[s]>>
            BY <1>2, <2>1 DEF pipeVars
        <3> QED BY <1>2, <3>1, <3>2, InstanceKept
    <2>3. Readers' /\ Writer'
        BY <1>2, <1>3, <2>1 DEF Readers, Writer, pipeVars
    <2> QED BY <2>2, <2>3 DEF Delivery
<1>7. CASE ServiceConnects
    <2>1. /\ Connect("service") /\ process /\ serviceMain' = "peek"
          /\ UNCHANGED <<process, captured, logged, dll>>
        BY <1>7 DEF ServiceConnects
    <2>2. \A s \in Serves : Instance(s)'
        BY <1>2, <1>3, <1>4, <2>1, InstancesOpened
    <2>3. Readers' /\ Writer'
        BY <1>2, <1>3, <2>1 DEF Readers, Writer, Connect
    <2> QED BY <2>2, <2>3 DEF Delivery
<1>8. CASE ServiceReads
    <2>1. PICK t \in Serves :
              /\ ReadMessage("service", t)
              /\ logged' = [logged EXCEPT ![t] = Append(@, Head(pipe[t]))]
        BY <1>8 DEF ServiceReads
    <2>2. process /\ serviceMain' = "peek" /\ UNCHANGED <<process, captured, dll, holder>>
        BY <1>8, <2>1 DEF ServiceReads, ReadMessage
    <2>3. \A s \in Serves : Instance(s)'
        BY <1>2, <1>3, <1>4, <2>1, <2>2, InstancesRead
    <2>4. Readers' /\ Writer'
        BY <1>2, <1>3, <2>2 DEF Readers, Writer
    <2> QED BY <2>3, <2>4 DEF Delivery
<1>9. CASE SessionWrites
    <2>1. /\ process /\ dll = "capture" /\ captured < MaxCaptures /\ captured' = captured + 1
          /\ \/ WriteMessage(captured + 1)
             \/ WriteRefused /\ UNCHANGED pipeVars
          /\ UNCHANGED <<process, serviceMain, logged, dll>>
        BY <1>9 DEF SessionWrites
    <2>2. captured \in Nat /\ captured + 1 \in 0..MaxItems
        BY <2>1, PipeAssumption, ServiceAssumption DEF TypeOK, ServiceTypeOK
    <2>3. Up' = Up
        BY <1>1, <2>1 DEF Up
    <2>4. \A s \in Serves : Instance(s)'
        BY <1>2, <1>3, <2>1, <2>2, <2>3, InstancesWritten
    <2>5. UNCHANGED holder
        BY <2>1 DEF WriteMessage, pipeVars
    <2>6. Readers' /\ Writer'
        BY <1>2, <1>3, <2>1, <2>5 DEF Readers, Writer
    <2> QED BY <2>4, <2>6 DEF Delivery
<1>10. CASE ServiceStart
    <2>1. /\ ~process /\ process' /\ serviceMain' = "spawn" /\ captured' = 0
          /\ dll' = "idle" /\ serviceMain = "none" /\ UNCHANGED <<logged, pipeVars>>
        BY <1>3, <1>10 DEF ServiceStart, Writer
    <2>2. ASSUME NEW s \in Serves PROVE Instance(s)'
        <3>1. Instance(s) /\ server[s] \notin {"listening", "open"}
            BY <1>2, <1>3, <2>1 DEF Instance
        <3>2. UNCHANGED <<serves, server[s], holder[s], pipe[s], enqueued[s], logged[s]>>
            BY <1>2, <2>1 DEF pipeVars
        <3> QED BY <1>2, <3>1, <3>2, InstanceKept
    <2>3. Readers' /\ Writer'
        BY <1>2, <1>3, <2>1 DEF Readers, Writer, pipeVars
    <2> QED BY <2>2, <2>3 DEF Delivery
<1>11. CASE ProcessExit
    <2>1. /\ ~process' /\ serviceMain' = "none" /\ dll' = "idle"
          /\ server' = [s \in Serves |-> IF s <= serves THEN "closed" ELSE server[s]]
          /\ holder' = [s \in Serves |-> IF holder[s] = "service" THEN Nobody ELSE holder[s]]
          /\ pipe' = [s \in Serves |-> IF holder[s] = "service" THEN << >> ELSE pipe[s]]
          /\ UNCHANGED <<serves, captured, logged>>
        BY <1>11 DEF ProcessExit
    <2>2. ASSUME NEW s \in Serves PROVE Instance(s)'
        <3> DEFINE p == IF holder[s] = "service" THEN << >> ELSE pipe[s]
                   h == IF holder[s] = "service" THEN Nobody ELSE holder[s]
        <3>1. Instance(s) /\ s \in Nat /\ serves \in Nat
            BY <1>3, PipeAssumption DEF TypeOK, PipeTypeOK, Serves
        <3>2. Share(server[s], h, p, enqueued[s], logged[s])
            BY <3>1, ShareClosed DEF Instance
        <3>3. pipe'[s] = p /\ holder'[s] = h /\ enqueued'[s] = enqueued[s] /\ logged'[s] = logged[s]
            BY <1>2, <2>1
        <3>4. CASE server[s] = "none"
            <4>1. server'[s] = "none"
                BY <2>1, <3>1, <3>4 DEF Instance
            <4>2. holder[s] # "worker" /\ h # "worker"
                BY <3>1, <3>4 DEF Instance, Share, Nobody
            <4> QED BY <2>1, <3>1, <3>2, <3>3, <3>4, <4>1, <4>2 DEF Instance
        <3>5. CASE server[s] # "none"
            <4>1. server'[s] = "closed"
                BY <2>1, <3>1, <3>5 DEF Instance
            <4>2. Share("closed", h, p, enqueued[s], logged[s])
                BY <3>2, <3>5, ShareClosed
            <4> QED BY <1>2, <2>1, <3>1, <3>3, <3>5, <4>1, <4>2 DEF Instance, Nobody
        <3> QED BY <3>4, <3>5
    <2>3. Readers'
        BY <1>2, <1>3, <2>1 DEF Readers, Nobody
    <2>4. Writer'
        BY <1>2, <1>3, <2>1 DEF Writer
    <2> QED BY <2>2, <2>3, <2>4 DEF Delivery
<1> QED BY <1>5, <1>6, <1>7, <1>8, <1>9, <1>10, <1>11
        DEF ServiceStep, ServiceRuns, SessionStep, ControlStep, ExitStep

\* The ring: its consumer writes what it took last, the items in their order.
LEMMA DeliveryRing ==
    ASSUME TypeOK, RingInv, ~lapped, Delivery, ProducerStep \/ ConsumerStep
    PROVE  Delivery'
<1>1. /\ host = "ring" /\ dll = "capture"
      /\ UNCHANGED <<host, dll, workerVars, serviceVars>>
    BY DEF ProducerStep, ConsumerStep
<1>2. /\ Up /\ Up'
      /\ UNCHANGED <<process, serviceMain, logged, worker, broken, enqueued>>
    BY <1>1 DEF Up, serviceVars, workerVars
<1>3. Writer /\ Readers /\ \A s \in Serves : Instance(s)
    BY DEF Delivery
<1>4. taken \in Seq(Items) /\ Len(taken) \in Nat
    BY DEF TypeOK, RingTypeOK
<1>5. ASSUME UNCHANGED pipeVars, Written' = Written PROVE Readers' /\ \A s \in Serves : Instance(s)'
    <2>1. UNCHANGED Up
        BY <1>2
    <2>2. \A s \in Serves : Instance(s)'
        BY <1>1, <1>2, <1>3, <1>5, <2>1, InstancesKept
    <2> QED BY <1>2, <1>3, <1>5, <2>2 DEF Readers, pipeVars
<1>6. CASE ProducerStep
    <2>1. UNCHANGED <<consumer, taken, consumed_item, pipeVars>>
        BY <1>6 DEF ProducerStep, ProducerNext, TakeHandle, LeaveLoop, ReadPacket,
           ReadTimeout, StoreDefault, AdvanceDefault, WaitForRoom, ProducerLocks,
           StorePacket, AdvancePacket, consumerVars
    <2>2. Written' = Written
        BY <1>1, <2>1 DEF Written
    <2>3. Writer'
        BY <1>1, <1>2, <1>3, <2>1 DEF Writer
    <2> QED BY <1>5, <2>1, <2>2, <2>3 DEF Delivery
<1>7. CASE ConsumerStep /\ ConsumerNext /\ UNCHANGED pipeVars
    <2>1. CASE CopyItem
        <3>1. /\ consumer = "copy" /\ consumer' = "advance"
              /\ taken' = Append(taken, consumed_item')
              /\ consumed_item' = shared_buff[full_index]
            BY <2>1 DEF CopyItem
        <3>2. consumed_item' \in Items
            BY <3>1 DEF TypeOK, RingTypeOK
        <3>3. /\ Len(taken') = Len(taken) + 1
              /\ taken'[Len(taken')] = consumed_item'
            BY <1>4, <3>1, <3>2, RingAppend
        <3>4. Written' = Written
            BY <1>1, <1>4, <3>1, <3>3 DEF Written
        <3>5. Writer'
            BY <1>1, <1>2, <1>3, <1>4, <3>1, <3>3 DEF Writer
        <3> QED BY <1>5, <1>7, <3>4, <3>5 DEF Delivery
    <2>2. CASE AdvanceFull
        <3>1. /\ consumer = "advance" /\ consumer' = "write"
              /\ UNCHANGED <<taken, consumed_item>>
            BY <2>2 DEF AdvanceFull
        <3>2. Written' = Written
            BY <1>1, <3>1 DEF Written
        <3>3. Writer'
            BY <1>1, <1>2, <1>3, <3>1 DEF Writer
        <3> QED BY <1>5, <1>7, <3>2, <3>3 DEF Delivery
    <2>3. CASE Poll \/ ConsumerLocks \/ TestEmpty
        <3>1. /\ consumer \in {"poll", "lock", "test"}
              /\ consumer' \in {"poll", "lock", "test", "copy"}
              /\ UNCHANGED <<taken, consumed_item>>
            BY <2>3 DEF Poll, ConsumerLocks, TestEmpty
        <3>2. Written' = Written
            BY <1>1, <3>1 DEF Written
        <3>3. Writer'
            BY <1>1, <1>2, <1>3, <3>1 DEF Writer
        <3> QED BY <1>5, <1>7, <3>2, <3>3 DEF Delivery
    <2> QED BY <1>7, <2>1, <2>2, <2>3 DEF ConsumerNext
<1>8. CASE ConsumerStep /\ WriteItem
    <2>1. /\ consumer = "write" /\ consumer' = "test" /\ UNCHANGED <<taken, consumed_item>>
          /\ Len(taken) > 0 /\ consumed_item = taken[Len(taken)]
        BY <1>3, <1>8 DEF WriteItem, Writer
    <2>2. /\ Written = Len(taken) - 1 /\ Written' = Len(taken)
          /\ Written \in Nat /\ Written' = Written + 1
        BY <1>1, <1>4, <2>1 DEF Written
    <2>3. consumed_item.id = Written + 1
        <3>1. Contents
            BY DEF RingInv
        <3>2. consumed_item = ItemOf(packets, Len(taken))
            BY <1>4, <2>1, <3>1 DEF Contents
        <3> QED BY <1>4, <2>2, <3>2 DEF ItemOf
    <2>4. consumed_item.id \in 0..MaxItems
        <3>1. consumed_item.id \in 0..MaxPackets
            BY DEF TypeOK, RingTypeOK, Items
        <3> QED BY <3>1, PathAssumption, PipeAssumption, RingAssumption
    <2>5. \/ WriteMessage(consumed_item.id)
          \/ WriteRefused /\ UNCHANGED pipeVars
        BY <1>8, <2>1 DEF ConsumerStep, ConsumerNext, Poll, ConsumerLocks, TestEmpty,
           CopyItem, AdvanceFull
    <2>6. UNCHANGED Up
        BY <1>2
    <2>7. \A s \in Serves : Instance(s)'
        BY <1>1, <1>2, <1>3, <2>2, <2>3, <2>4, <2>5, <2>6, InstancesWritten
    <2>8. UNCHANGED holder
        BY <2>5 DEF WriteMessage, pipeVars
    <2>9. Readers' /\ Writer'
        BY <1>1, <1>2, <1>3, <2>1, <2>8 DEF Readers, Writer
    <2> QED BY <2>7, <2>9 DEF Delivery
<1> QED BY <1>6, <1>7, <1>8 DEF ConsumerStep

LEMMA OrderInvInit == Init => OrderInv
<1> SUFFICES ASSUME Init PROVE OrderInv
    OBVIOUS
<1>1. TypeOK /\ RingInv
    BY PathTypeInit, RingInvInit DEF Init
<1>2. Writer /\ Readers
    BY DEF Init, WorkerInit, ServiceInit, RingInit, PipeInit, Writer, Readers, Written,
       Up, Nobody
<1>3. ASSUME NEW s \in Serves PROVE Instance(s)
    <2>1. /\ server[s] = "none" /\ holder[s] = Nobody /\ pipe[s] = << >>
          /\ enqueued[s] = << >> /\ logged[s] = << >> /\ serves = 0
        BY DEF Init, PipeInit, WorkerInit, ServiceInit
    <2>2. s > serves
        BY <2>1, PipeAssumption DEF Serves
    <2>3. ~Ended(<< >>) /\ Numbered(<< >>, 0) /\ InOrder(<< >>)
        BY DEF Ended, Numbered, InOrder
    <2> QED BY <2>1, <2>2, <2>3 DEF Instance, Share, Nobody
<1> QED BY <1>1, <1>2, <1>3 DEF OrderInv, Delivery

LEMMA OrderInvStep ==
    ASSUME OrderInv, [Next]_vars PROVE OrderInv'
<1>1. TypeOK' /\ RingInv'
    BY PathTypeStep, RingMoves, RingInvStep DEF OrderInv
<1>2. lapped => lapped'
    BY RingMoves DEF RingNext, ProducerNext, ConsumerNext, TakeHandle, LeaveLoop,
       ReadPacket, ReadTimeout, StoreDefault, AdvanceDefault, WaitForRoom, ProducerLocks,
       StorePacket, AdvancePacket, Poll, ConsumerLocks, TestEmpty, CopyItem, AdvanceFull,
       WriteItem, ringVars
<1>3. ASSUME Delivery, ~lapped PROVE Delivery'
    <2>1. TypeOK /\ RingInv
        BY DEF OrderInv
    <2>2. CASE UNCHANGED vars
        <3>1. UNCHANGED <<host, pipeVars, dll, workerVars, serviceVars, ringVars>>
            BY <2>2 DEF vars
        <3>2. /\ UNCHANGED <<enqueued, logged, broken, worker, process, serviceMain,
                             consumer, taken, consumed_item, Up, Written>>
            BY <3>1 DEF workerVars, serviceVars, ringVars, consumerVars, Up, Written
        <3>3. \A s \in Serves : Instance(s)'
            BY <1>3, <3>1, <3>2, InstancesKept DEF Delivery
        <3>4. Readers' /\ Writer'
            BY <1>3, <3>1, <3>2 DEF Delivery, Readers, Writer, pipeVars
        <3> QED BY <3>3, <3>4 DEF Delivery
    <2> QED BY <1>3, <2>1, <2>2, DeliveryWorker, DeliveryDll, DeliveryService,
               DeliveryRing DEF Next
<1> QED BY <1>1, <1>2, <1>3 DEF OrderInv

\* Each instance of the pipe has one reader, and that one gets the capture from
\* its first item on, in order and once, with at most the snapshot of zeros behind
\* it: whoever serves the pipe, whoever opens it first, however often the service
\* and its reader are stopped and started, until a lap of the old ring.
THEOREM PipeInOrder == SafetySpec => []ReadInOrder
<1>1. OrderInv => ReadInOrder
    <2> SUFFICES ASSUME OrderInv, ~lapped, NEW s \in Serves
                 PROVE  /\ InOrder(enqueued[s])
                        /\ InOrder(logged[s])
                        /\ enqueued[s] = << >> \/ logged[s] = << >>
        BY DEF ReadInOrder
    <2>1. Share(server[s], holder[s], pipe[s], enqueued[s], logged[s])
        BY DEF OrderInv, Delivery, Instance
    <2>2. Len(logged[s]) \in Nat
        BY DEF OrderInv, TypeOK, ServiceTypeOK
    <2> QED BY <2>1, <2>2 DEF Share, InOrder, Numbered
<1> QED BY <1>1, OrderInvInit, OrderInvStep, PTL DEF SafetySpec
==============================================================================
