----------------------------- MODULE PacketRing -----------------------------
(***************************************************************************)
(* The first generation of the capture path, Packages::producer and        *)
(* Packages::consumer of sniffer_packages/packages.h: a ring of BufMax     *)
(* slots with two atomic indices.  The producer stores a packet under the  *)
(* mutex after it has waited for room; the default item of a read timeout  *)
(* it stores without either.  The consumer empties the ring under the      *)
(* mutex and writes what it takes to the pipe, ignoring the result.        *)
(*                                                                         *)
(* A default item stored into a full ring makes free_index meet full_index *)
(* (a lap): the ring then looks empty and what it held is lost.  The copy  *)
(* of a slot is one step: a torn copy needs both threads in one slot,      *)
(* which RingOrder rules out until the first lap, and nothing is promised  *)
(* after it.  The switch `on`, quit_flag and the event only decide whether *)
(* the producer goes on; they are inputs of its steps.  The traffic has no *)
(* packet whose name overruns its field: after one nothing is defined.     *)
(***************************************************************************)
EXTENDS Integers, Sequences, ProtocolNames

CONSTANTS
    BufMax,          \* buff_max, 5
    Traffic,         \* the packets that may arrive, some of Packets
    MaxPackets       \* bound: results of pcap_next_ex

ASSUME RingAssumption ==
    /\ BufMax \in Nat \ {0, 1}
    /\ Traffic \subseteq Packets
    /\ \A p \in Traffic : ~Overruns(p)
    /\ MaxPackets \in Nat

Slots == 0..BufMax - 1
Timeout == [proto |-> -1, src_port |-> 0, dst_port |-> 0]
NoItem == [id |-> 0, proto |-> Unset]

VARIABLES
    shared_buff,     \* the slots: each item's number and protocol name
    free_index,      \* the slot the next item goes to
    full_index,      \* the slot the next item comes from
    producer,        \* where the producer is
    consumer,        \* where the consumer is
    protoStr,        \* the name the last registered handler left behind
    consumed_item,   \* the consumer's copy
    packets,         \* history: what pcap_next_ex returned, in order
    taken,           \* history: the items copied from the ring, in order
    lapped           \* history: TRUE iff a default item hit a full ring

producerVars == <<producer, protoStr, packets>>
consumerVars == <<consumer, consumed_item, taken>>
ringVars == <<shared_buff, free_index, full_index, producerVars, consumerVars, lapped>>

Items == [id : 0..MaxPackets, proto : Names]

RingTypeOK ==
    /\ shared_buff \in [Slots -> Items]
    /\ free_index \in Slots
    /\ full_index \in Slots
    /\ producer \in {"flag", "read", "default", "room", "lock", "store",
                     "advanceDefault", "advance"}
    /\ consumer \in {"poll", "lock", "test", "copy", "advance", "write"}
    /\ protoStr \in Names
    /\ consumed_item \in Items
    /\ packets \in Seq(Traffic \union {Timeout})
    /\ Len(packets) <= MaxPackets
    /\ taken \in Seq(Items)
    /\ lapped \in BOOLEAN

RingInit ==
    /\ shared_buff = [i \in Slots |-> NoItem]
    /\ free_index = 0
    /\ full_index = 0
    /\ producer = "flag"
    /\ consumer = "poll"
    /\ protoStr = Unset
    /\ consumed_item = NoItem
    /\ packets = << >>
    /\ taken = << >>
    /\ lapped = FALSE

\* (i + 1) mod buff_max.
Succ(i) == IF i = BufMax - 1 THEN 0 ELSE i + 1

\* The mutex mtx.
Locked == producer \in {"store", "advance"}
              \/ consumer \in {"test", "copy", "advance", "write"}

------------------------------------------------------------------------------
(* Packages::producer                                                      *)

\* The outer loop: quit_flag is set, the handle is taken over.
TakeHandle ==
    /\ producer = "flag"
    /\ producer' = "read"
    /\ UNCHANGED <<shared_buff, free_index, full_index, protoStr, packets,
                   consumerVars, lapped>>

\* pcap_next_ex fails, or returns a packet that is dropped because `on` is off.
LeaveLoop ==
    /\ producer = "read"
    /\ producer' = "flag"
    /\ UNCHANGED <<shared_buff, free_index, full_index, protoStr, packets,
                   consumerVars, lapped>>

\* A packet: its handler, if its protocol has one, leaves a name in protoStr.
ReadPacket ==
    /\ producer = "read"
    /\ Len(packets) < MaxPackets
    /\ \E p \in Traffic :
          /\ packets' = Append(packets, p)
          /\ protoStr' = IF p.proto \in Registered THEN Handler(p) ELSE protoStr
    /\ producer' = "room"
    /\ UNCHANGED <<shared_buff, free_index, full_index, consumerVars, lapped>>

\* A read timeout.
ReadTimeout ==
    /\ producer = "read"
    /\ Len(packets) < MaxPackets
    /\ packets' = Append(packets, Timeout)
    /\ producer' = "default"
    /\ UNCHANGED <<shared_buff, free_index, full_index, protoStr, consumerVars, lapped>>

\* defaultToStruct sets every field but the protocol; no lock, no test for room.
StoreDefault ==
    /\ producer = "default"
    /\ shared_buff' = [shared_buff EXCEPT ![free_index] =
                          [id |-> Len(packets), proto |-> Unset]]
    /\ producer' = "advanceDefault"
    /\ UNCHANGED <<free_index, full_index, protoStr, packets, consumerVars, lapped>>

AdvanceDefault ==
    /\ producer = "advanceDefault"
    /\ free_index' = Succ(free_index)
    /\ lapped' = (lapped \/ free_index' = full_index)
    /\ producer' = "read"
    /\ UNCHANGED <<shared_buff, full_index, protoStr, packets, consumerVars>>

\* Faulty variant of WaitForRoom: the ring may fill up to the last slot.
WaitForRoomOffByOne ==
    /\ producer = "room"
    /\ producer' = "lock"
    /\ UNCHANGED <<shared_buff, free_index, full_index, protoStr, packets,
                   consumerVars, lapped>>

\* The test for room, without the lock.
WaitForRoom ==
    /\ producer = "room"
    /\ Succ(free_index) # full_index
    /\ producer' = "lock"
    /\ UNCHANGED <<shared_buff, free_index, full_index, protoStr, packets,
                   consumerVars, lapped>>

ProducerLocks ==
    /\ producer = "lock"
    /\ ~Locked
    /\ producer' = "store"
    /\ UNCHANGED <<shared_buff, free_index, full_index, protoStr, packets,
                   consumerVars, lapped>>

\* addToStruct, with the name in protoStr.
StorePacket ==
    /\ producer = "store"
    /\ shared_buff' = [shared_buff EXCEPT ![free_index] =
                          [id |-> Len(packets), proto |-> protoStr]]
    /\ producer' = "advance"
    /\ UNCHANGED <<free_index, full_index, protoStr, packets, consumerVars, lapped>>

AdvancePacket ==
    /\ producer = "advance"
    /\ free_index' = Succ(free_index)
    /\ producer' = "read"
    /\ UNCHANGED <<shared_buff, full_index, protoStr, packets, consumerVars, lapped>>

------------------------------------------------------------------------------
(* Packages::consumer                                                      *)

Poll ==
    /\ consumer = "poll"
    /\ free_index # full_index
    /\ consumer' = "lock"
    /\ UNCHANGED <<shared_buff, free_index, full_index, producerVars,
                   consumed_item, taken, lapped>>

ConsumerLocks ==
    /\ consumer = "lock"
    /\ ~Locked
    /\ consumer' = "test"
    /\ UNCHANGED <<shared_buff, free_index, full_index, producerVars,
                   consumed_item, taken, lapped>>

\* The inner loop; the mutex is released when the ring is empty.
TestEmpty ==
    /\ consumer = "test"
    /\ consumer' = IF free_index # full_index THEN "copy" ELSE "poll"
    /\ UNCHANGED <<shared_buff, free_index, full_index, producerVars,
                   consumed_item, taken, lapped>>

CopyItem ==
    /\ consumer = "copy"
    /\ consumed_item' = shared_buff[full_index]
    /\ taken' = Append(taken, consumed_item')
    /\ consumer' = "advance"
    /\ UNCHANGED <<shared_buff, free_index, full_index, producerVars, lapped>>

AdvanceFull ==
    /\ consumer = "advance"
    /\ full_index' = Succ(full_index)
    /\ consumer' = "write"
    /\ UNCHANGED <<shared_buff, free_index, producerVars, consumed_item, taken, lapped>>

\* WriteFile, still under the mutex; its result is ignored.
WriteItem ==
    /\ consumer = "write"
    /\ consumer' = "test"
    /\ UNCHANGED <<shared_buff, free_index, full_index, producerVars,
                   consumed_item, taken, lapped>>

ProducerNext ==
    \/ TakeHandle \/ LeaveLoop \/ ReadPacket \/ ReadTimeout
    \/ StoreDefault \/ AdvanceDefault
    \/ WaitForRoom \/ ProducerLocks \/ StorePacket \/ AdvancePacket

ConsumerNext ==
    Poll \/ ConsumerLocks \/ TestEmpty \/ CopyItem \/ AdvanceFull

RingNext == ProducerNext \/ ConsumerNext \/ WriteItem

RingSpec == RingInit /\ [][RingNext]_ringVars

------------------------------------------------------------------------------
(* Properties                                                              *)

\* The first n packets of ps whose protocol has a handler, by position.
Named(ps, n) == {k \in 1..n : ps[k].proto \in Registered}

Latest(S) == CHOOSE k \in S : \A l \in S : l <= k

\* The name the last of them leaves behind.
LastName(ps, n) ==
    IF Named(ps, n) = {} THEN Unset ELSE Handler(ps[Latest(Named(ps, n))])

\* Item n as it should be: a packet carries the name the table gives its
\* protocol, and where the table has none, that of the last one before it.
ItemOf(ps, n) ==
    [id |-> n, proto |-> IF ps[n] = Timeout THEN Unset ELSE LastName(ps, n)]

\* Until the first lap every item is taken once, in the order of its capture and
\* under its name, and the two threads are never in the same slot: one copies a
\* slot under the mutex that the other stores into without it.
RingOrder ==
    \/ lapped
    \/ /\ Len(taken) <= Len(packets)
       /\ \A n \in 1..Len(taken) : taken[n] = ItemOf(packets, n)
       /\ consumer = "copy" /\ producer \in {"default", "store"} => free_index # full_index
==============================================================================
