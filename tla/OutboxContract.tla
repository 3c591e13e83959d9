---------------------------- MODULE OutboxContract ----------------------------
(***************************************************************************)
(* What the outbox promises about a message once it is stored: it stays    *)
(* accepted, and it is finished with only after a copy of it reached the   *)
(* Kafka topic or the broker's delivery report refused it.  Only accepted  *)
(* messages are ever published.  How many copies are published is open.    *)
(***************************************************************************)
EXTENDS Integers

CONSTANT Messages

VARIABLES
    accepted,      \* messages stored for good
    published,     \* messages the topic holds at least one copy of
    refused,       \* messages some delivery report gave up
    finished       \* messages the outbox will not publish again

contractVars == <<accepted, published, refused, finished>>

ContractInit ==
    /\ accepted = {}
    /\ published = {}
    /\ refused = {}
    /\ finished = {}

Accept(m) ==
    /\ m \notin accepted
    /\ accepted' = accepted \union {m}
    /\ UNCHANGED <<published, refused, finished>>

Publish(m) ==
    /\ m \in accepted
    /\ published' = published \union {m}
    /\ UNCHANGED <<accepted, refused, finished>>

Refuse(m) ==
    /\ m \in accepted
    /\ refused' = refused \union {m}
    /\ UNCHANGED <<accepted, published, finished>>

\* A batch is finished in one step.
Finish(ms) ==
    /\ ms \subseteq accepted
    /\ ms \subseteq published \union refused
    /\ finished' = finished \union ms
    /\ UNCHANGED <<accepted, published, refused>>

ContractNext ==
    \/ \E m \in Messages : Accept(m) \/ Publish(m) \/ Refuse(m)
    \/ \E ms \in SUBSET Messages : Finish(ms)

ContractSpec == ContractInit /\ [][ContractNext]_contractVars
==============================================================================
