---------------------------- MODULE PacketChannel ----------------------------
(***************************************************************************)
(* What the capture DLL (sniffer_packages) promises the process at the     *)
(* other end of the named pipe: a bounded channel that hands over the      *)
(* captured items in the order of their capture, from the first one on,    *)
(* without a gap, and that may break once and for all.  Items are numbered *)
(* by their position in the capture.  Nothing is promised about how much   *)
(* of what was accepted is delivered after the break.                      *)
(***************************************************************************)
EXTENDS Integers, Sequences

CONSTANT Capacity    \* items accepted and not yet delivered, while open

VARIABLES
    accepted,        \* how many items the channel has taken in
    received,        \* the items handed over, in the order of delivery
    open             \* FALSE once the channel is broken

channelVars == <<accepted, received, open>>

ChannelInit ==
    /\ accepted = 0
    /\ received = << >>
    /\ open \in BOOLEAN

\* The next item enters; an open channel never holds more than Capacity.
Accept ==
    /\ open => accepted - Len(received) < Capacity
    /\ accepted' = accepted + 1
    /\ UNCHANGED <<received, open>>

\* The oldest item not yet delivered is delivered.
Deliver ==
    /\ Len(received) < accepted
    /\ received' = Append(received, Len(received) + 1)
    /\ UNCHANGED <<accepted, open>>

Break ==
    /\ open
    /\ open' = FALSE
    /\ UNCHANGED <<accepted, received>>

ChannelNext == Accept \/ Deliver \/ Break

ChannelSpec == ChannelInit /\ [][ChannelNext]_channelVars
==============================================================================
