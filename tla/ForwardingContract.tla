-------------------------- MODULE ForwardingContract --------------------------
(***************************************************************************)
(* What srv_sub and MasterNode together owe the topic: a cursor that only  *)
(* moves forward, never past the topic, and never without an answer: each  *)
(* of its moves uses up one chunk that MasterNode has accepted.  Crashes,  *)
(* broken connections and restarts leave all of that as it is.             *)
(***************************************************************************)
EXTENDS Integers

VARIABLES
    topic,           \* the length of the topic
    cursor,          \* the last message committed; -1 before the first commit
    accepted,        \* chunks MasterNode has accepted
    moves            \* commits so far

contractVars == <<topic, cursor, accepted, moves>>

ContractInit ==
    /\ topic = 0
    /\ cursor = -1
    /\ accepted = 0
    /\ moves = 0

Grow == topic' = topic + 1 /\ UNCHANGED <<cursor, accepted, moves>>

Grant == accepted' = accepted + 1 /\ UNCHANGED <<topic, cursor, moves>>

\* To a message that was produced, the one of the last move included.
Move(m) ==
    /\ moves < accepted
    /\ m >= cursor
    /\ cursor' = m
    /\ moves' = moves + 1
    /\ UNCHANGED <<topic, accepted>>

ContractNext == Grow \/ Grant \/ \E m \in 1..topic : Move(m)

ContractSpec == ContractInit /\ [][ContractNext]_contractVars
==============================================================================
