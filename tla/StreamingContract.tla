-------------------------- MODULE StreamingContract --------------------------
(***************************************************************************)
(* What the gRPC leg promises about a snapshot once it is posted: it stays *)
(* pending until the server has stored it for one of the calls, or it is   *)
(* lost; once and never both.  The snapshots of a call are stored in the   *)
(* order of capture, and all of an earlier call were captured before those *)
(* of a later one, whenever they are stored.  Snapshots are lost only with *)
(* a call that fails, or after one did or was ended under its sender.      *)
(***************************************************************************)
EXTENDS Integers, Sequences

CONSTANT Calls       \* numbers, in the order in which they are opened

VARIABLES
    posted,          \* how many snapshots were posted: snapshot i is the i-th
    pending,         \* posted, neither stored nor lost
    stored,          \* per call: the snapshots stored for it, in that order
    lost,
    disturbed        \* a call has failed or was ended under its sender

contractVars == <<posted, pending, stored, lost, disturbed>>

ContractInit ==
    /\ posted = 0
    /\ pending = {}
    /\ stored = [c \in Calls |-> << >>]
    /\ lost = {}
    /\ disturbed = FALSE

Post ==
    /\ posted' = posted + 1
    /\ pending' = pending \union {posted + 1}
    /\ UNCHANGED <<stored, lost, disturbed>>

StoreOf(c, i) ==
    /\ i \in pending
    /\ pending' = pending \ {i}
    /\ \A d \in Calls : \A k \in 1..Len(stored[d]) :
           /\ d <= c => stored[d][k] < i
           /\ d > c => stored[d][k] > i
    /\ stored' = [stored EXCEPT ![c] = Append(@, i)]
    /\ UNCHANGED <<posted, lost, disturbed>>

Lose(dropped) ==
    /\ dropped \subseteq pending
    /\ pending' = pending \ dropped
    /\ lost' = lost \union dropped
    /\ UNCHANGED <<posted, stored>>

\* Afterwards a sender may meet what is left of the call, with one snapshot.
Drop(i) == disturbed /\ Lose({i}) /\ UNCHANGED disturbed

Disturb(dropped) == Lose(dropped) /\ disturbed' = TRUE

ContractNext ==
    \/ Post
    \/ \E c \in Calls, i \in pending : StoreOf(c, i)
    \/ \E i \in pending : Drop(i)
    \/ \E dropped \in SUBSET pending : Disturb(dropped)

ContractSpec == ContractInit /\ [][ContractNext]_contractVars
==============================================================================
