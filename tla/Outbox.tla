-------------------------------- MODULE Outbox --------------------------------
(***************************************************************************)
(* The transactional outbox of srv_pub (outbox/, kafka/): gRPC handlers    *)
(* store messages in a MySQL table (Outbox.AddAsync), and in every replica *)
(* a publish job reserves a batch of rows, produces them to Kafka, waits   *)
(* for the delivery reports, marks the rows and commits, all in ONE        *)
(* database transaction (Relay.PublishAsync); a cleanup job deletes marked *)
(* rows.  Replicas share nothing but the table and the topic.              *)
(*                                                                         *)
(* Rows are numbered in the order of their timestamps.  The columns        *)
(* written inside an open transaction are not visible to others, so        *)
(* isProcessing and isProcessed are the committed columns, and a           *)
(* transaction's own writes follow from the stage of its worker.  The row  *)
(* locks of the database are kept in lock.                                 *)
(***************************************************************************)
EXTENDS Integers, FiniteSets

CONSTANTS
    Workers,       \* the replicas of srv_pub
    NoWorker,      \* the owner of a row nobody locks
    MaxRows,       \* bound: rows ever inserted
    BatchSize,     \* Relay.BatchSize (100 in Relay.cs:11)
    MaxFaults      \* bound: crashes, lost connections, failed sends, retries

ASSUME OutboxAssumption ==
    /\ NoWorker \notin Workers
    /\ MaxRows \in Nat
    /\ BatchSize \in Nat \ {0}
    /\ MaxFaults \in Nat

Rows == 1..MaxRows

VARIABLES
    inserted,      \* how many rows AddAsync has inserted so far
    table,         \* per row: where it is in its life
    isProcessing,  \* rows whose committed IsProcessing is 1
    isProcessed,   \* rows whose committed IsProcessed is 1
    lock,          \* per row: the replica whose transaction locks it
    stage,         \* per replica: where its publish job is
    session,       \* replicas whose publishing transaction the database keeps
    batch,         \* per replica: the rows ReserveAsync returned
    toSend,        \* per replica: rows of the batch not produced yet
    inflight,      \* per replica and row: messages in its Kafka producer
    copies,        \* per row: messages the topic holds
    failed,        \* rows with a delivery report that was not Persisted
    faults         \* faults so far

tableVars  == <<inserted, table, isProcessing, isProcessed, lock>>
workerVars == <<stage, session, batch, toSend>>
kafkaVars  == <<inflight, copies, failed>>
vars == <<tableVars, workerVars, kafkaVars, faults>>

RowStates == {"new", "inserting", "stored", "rolledBack", "deleted"}
Stages == {"down", "idle", "producing", "flushing", "marking", "committing"}
Publishing == {"producing", "flushing", "marking", "committing"}

TypeOK ==
    /\ inserted \in 0..MaxRows
    /\ table \in [Rows -> RowStates]
    /\ isProcessing \subseteq Rows
    /\ isProcessed \subseteq Rows
    /\ lock \in [Rows -> Workers \union {NoWorker}]
    /\ stage \in [Workers -> Stages]
    /\ session \subseteq Workers
    /\ batch \in [Workers -> SUBSET Rows]
    /\ toSend \in [Workers -> SUBSET Rows]
    /\ inflight \in [Workers -> [Rows -> Nat]]
    /\ copies \in [Rows -> Nat]
    /\ failed \subseteq Rows
    /\ faults \in 0..MaxFaults

Init ==
    /\ inserted = 0
    /\ table = [r \in Rows |-> "new"]
    /\ isProcessing = {}
    /\ isProcessed = {}
    /\ lock = [r \in Rows |-> NoWorker]
    /\ stage = [w \in Workers |-> "idle"]
    /\ session = {}
    /\ batch = [w \in Workers |-> {}]
    /\ toSend = [w \in Workers |-> {}]
    /\ inflight = [w \in Workers |-> [r \in Rows |-> 0]]
    /\ copies = [r \in Rows |-> 0]
    /\ failed = {}
    /\ faults = 0

Fault == faults < MaxFaults /\ faults' = faults + 1

\* The row locks left when replica w's transaction over the rows R ends.
Unlocked(R) == [r \in Rows |-> IF r \in R THEN NoWorker ELSE lock[r]]

------------------------------------------------------------------------------
(* Outbox.AddAsync, called by StreamingService.GetStreamingData            *)

AddExecute(w) ==
    /\ stage[w] # "down"
    /\ inserted < MaxRows
    /\ inserted' = inserted + 1
    /\ table' = [table EXCEPT ![inserted + 1] = "inserting"]
    /\ lock' = [lock EXCEPT ![inserted + 1] = w]
    /\ UNCHANGED <<isProcessing, isProcessed, workerVars, kafkaVars, faults>>

\* CommitAsync, or RollbackAsync after an exception.
AddEnd(w, r) ==
    /\ table[r] = "inserting"
    /\ lock[r] = w
    /\ \E s \in {"stored", "rolledBack"} : table' = [table EXCEPT ![r] = s]
    /\ lock' = [lock EXCEPT ![r] = NoWorker]
    /\ UNCHANGED <<inserted, isProcessing, isProcessed, workerVars, kafkaVars, faults>>

------------------------------------------------------------------------------
(* Relay.PublishAsync, run by PublishOutboxJob                             *)

\* Faulty variant of Candidates: FOR UPDATE without SKIP LOCKED's effect.
CandidatesIgnoreLocks(expired) ==
    {r \in Rows : /\ table[r] = "stored"
                  /\ r \notin isProcessed
                  /\ r \notin isProcessing \/ r \in expired}

\* WHERE IsProcessed = 0 AND (IsProcessing = 0 OR its reservation expired);
\* SKIP LOCKED leaves out the rows other transactions hold.
Candidates(expired) ==
    {r \in Rows : /\ table[r] = "stored"
                  /\ r \notin isProcessed
                  /\ r \notin isProcessing \/ r \in expired
                  /\ lock[r] = NoWorker}

\* ORDER BY DateTimestamp LIMIT BatchSize.
Oldest(S) == {r \in S : Cardinality({q \in S : q < r}) < BatchSize}

\* The job begins its transaction and calls ReserveAsync, which locks the rows.
Reserve(w) ==
    /\ stage[w] = "idle"
    /\ \E expired \in SUBSET isProcessing :
         LET chosen == Oldest(Candidates(expired)) IN
         /\ batch' = [batch EXCEPT ![w] = chosen]
         /\ toSend' = [toSend EXCEPT ![w] = chosen]
         /\ lock' = [r \in Rows |-> IF r \in chosen THEN w ELSE lock[r]]
    /\ stage' = [stage EXCEPT ![w] = "producing"]
    /\ session' = session \union {w}
    /\ UNCHANGED <<inserted, table, isProcessing, isProcessed, kafkaVars, faults>>

\* Produce hands one message to the producer's queue; the stored procedure
\* returns the rows in no particular order.
Produce(w, r) ==
    /\ stage[w] = "producing"
    /\ r \in toSend[w]
    /\ toSend' = [toSend EXCEPT ![w] = @ \ {r}]
    /\ inflight' = [inflight EXCEPT ![w][r] = @ + 1]
    /\ UNCHANGED <<tableVars, stage, session, batch, copies, failed, faults>>

\* The loop of SendAsync is over: Flush waits for the reports.
BeginFlush(w) ==
    /\ stage[w] = "producing"
    /\ toSend[w] = {}
    /\ stage' = [stage EXCEPT ![w] = "flushing"]
    /\ UNCHANGED <<tableVars, session, batch, toSend, kafkaVars, faults>>

\* Faulty variant of FlushDone: SendAsync returns without a Flush.
FlushSkipped(w) ==
    /\ stage[w] = "flushing"
    /\ stage' = [stage EXCEPT ![w] = "marking"]
    /\ UNCHANGED <<tableVars, session, batch, toSend, kafkaVars, faults>>

\* Flush returns when the producer holds no message any more, delivered or not.
FlushDone(w) ==
    /\ stage[w] = "flushing"
    /\ \A r \in Rows : inflight[w][r] = 0
    /\ stage' = [stage EXCEPT ![w] = "marking"]
    /\ UNCHANGED <<tableVars, session, batch, toSend, kafkaVars, faults>>

MarkAsProcessed(w) ==
    /\ stage[w] = "marking"
    /\ w \in session
    /\ stage' = [stage EXCEPT ![w] = "committing"]
    /\ UNCHANGED <<tableVars, session, batch, toSend, kafkaVars, faults>>

\* Faulty variant of Commit: MarkAsProcessedAsync is not called before it.
CommitUnmarked(w) ==
    /\ stage[w] = "committing"
    /\ w \in session
    /\ isProcessing' = isProcessing \union batch[w]
    /\ lock' = Unlocked(batch[w])
    /\ stage' = [stage EXCEPT ![w] = "idle"]
    /\ session' = session \ {w}
    /\ batch' = [batch EXCEPT ![w] = {}]
    /\ UNCHANGED <<inserted, table, isProcessed, toSend, kafkaVars, faults>>

\* The commit makes the reservation and the mark visible together.
Commit(w) ==
    /\ stage[w] = "committing"
    /\ w \in session
    /\ isProcessing' = isProcessing \union batch[w]
    /\ isProcessed' = isProcessed \union batch[w]
    /\ lock' = Unlocked(batch[w])
    /\ stage' = [stage EXCEPT ![w] = "idle"]
    /\ session' = session \ {w}
    /\ batch' = [batch EXCEPT ![w] = {}]
    /\ UNCHANGED <<inserted, table, toSend, kafkaVars, faults>>

\* Faulty variant of RollBack: frees the rows although the transaction that
\* held them is gone.
RollBackFreesAll(w) ==
    /\ stage' = [stage EXCEPT ![w] = "idle"]
    /\ session' = session \ {w}
    /\ batch' = [batch EXCEPT ![w] = {}]
    /\ toSend' = [toSend EXCEPT ![w] = {}]
    /\ lock' = Unlocked(batch[w])
    /\ UNCHANGED <<inserted, table, isProcessing, isProcessed, kafkaVars>>

\* An exception anywhere in PublishAsync: the transaction, if the database
\* still keeps it, is rolled back, and the job logs and goes on.  What was
\* produced stays with the producer.
RollBack(w) ==
    /\ stage' = [stage EXCEPT ![w] = "idle"]
    /\ session' = session \ {w}
    /\ batch' = [batch EXCEPT ![w] = {}]
    /\ toSend' = [toSend EXCEPT ![w] = {}]
    /\ lock' = IF w \in session THEN Unlocked(batch[w]) ELSE lock
    /\ UNCHANGED <<inserted, table, isProcessing, isProcessed, kafkaVars>>

\* Produce throws (its queue is full), or Flush, the update or the commit does.
PublishThrows(w) ==
    /\ stage[w] \in Publishing
    /\ Fault
    /\ RollBack(w)

\* Without its transaction the update or the commit throws.
MarkThrows(w) ==
    /\ stage[w] \in {"marking", "committing"}
    /\ w \notin session
    /\ RollBack(w)
    /\ UNCHANGED faults

------------------------------------------------------------------------------
(* Relay.CleanupAsync, run by CleanupOutboxJob                             *)

\* Faulty variant of Cleanup: deletes whatever is stored.
CleanupAll(w) ==
    /\ stage[w] # "down"
    /\ table' = [r \in Rows |-> IF table[r] = "stored" THEN "deleted" ELSE table[r]]
    /\ isProcessed' = {}
    /\ isProcessing' = {}
    /\ UNCHANGED <<inserted, lock, workerVars, kafkaVars, faults>>

\* DELETE ... WHERE IsProcessed = 1, and its commit.
Cleanup(w) ==
    /\ stage[w] # "down"
    /\ isProcessed # {}
    /\ table' = [r \in Rows |-> IF r \in isProcessed THEN "deleted" ELSE table[r]]
    /\ isProcessed' = {}
    /\ isProcessing' = isProcessing \ isProcessed
    /\ UNCHANGED <<inserted, lock, workerVars, kafkaVars, faults>>

------------------------------------------------------------------------------
(* The Kafka client and broker                                             *)

\* A message is persisted and reported.
Deliver(w, r) ==
    /\ inflight[w][r] > 0
    /\ inflight' = [inflight EXCEPT ![w][r] = @ - 1]
    /\ copies' = [copies EXCEPT ![r] = @ + 1]
    /\ UNCHANGED <<tableVars, workerVars, failed, faults>>

\* MessageTimeoutMs or MessageSendMaxRetries is over: SendAsync's report
\* handler logs the failure, and nothing else.
DeliveryFails(w, r) ==
    /\ inflight[w][r] > 0
    /\ Fault
    /\ inflight' = [inflight EXCEPT ![w][r] = @ - 1]
    /\ failed' = failed \union {r}
    /\ UNCHANGED <<tableVars, workerVars, copies>>

\* A persisted message whose acknowledgement is lost is sent again: the
\* producer is not idempotent.
LostAck(w, r) ==
    /\ inflight[w][r] > 0
    /\ Fault
    /\ copies' = [copies EXCEPT ![r] = @ + 1]
    /\ UNCHANGED <<tableVars, workerVars, inflight, failed>>

------------------------------------------------------------------------------
(* Faults of the replicas                                                  *)

\* The database ends w's publishing transaction; the job notices only when it
\* uses the connection again.
ConnectionLost(w) ==
    /\ w \in session
    /\ Fault
    /\ session' = session \ {w}
    /\ lock' = Unlocked(batch[w])
    /\ UNCHANGED <<inserted, table, isProcessing, isProcessed,
                   stage, batch, toSend, kafkaVars>>

\* Faulty variant of Crash: the rows the replica reserved stay locked.
CrashKeepsLocks(w) ==
    /\ stage[w] # "down"
    /\ Fault
    /\ stage' = [stage EXCEPT ![w] = "down"]
    /\ session' = session \ {w}
    /\ batch' = [batch EXCEPT ![w] = {}]
    /\ toSend' = [toSend EXCEPT ![w] = {}]
    /\ inflight' = [inflight EXCEPT ![w] = [r \in Rows |-> 0]]
    /\ UNCHANGED <<tableVars, copies, failed>>

\* The process ends: the database rolls back all its transactions, and the
\* producer's queue is gone.
Crash(w) ==
    /\ stage[w] # "down"
    /\ Fault
    /\ stage' = [stage EXCEPT ![w] = "down"]
    /\ session' = session \ {w}
    /\ batch' = [batch EXCEPT ![w] = {}]
    /\ toSend' = [toSend EXCEPT ![w] = {}]
    /\ table' = [r \in Rows |-> IF table[r] = "inserting" /\ lock[r] = w
                                THEN "rolledBack" ELSE table[r]]
    /\ lock' = Unlocked({r \in Rows : lock[r] = w})
    /\ inflight' = [inflight EXCEPT ![w] = [r \in Rows |-> 0]]
    /\ UNCHANGED <<inserted, isProcessing, isProcessed, copies, failed>>

Restart(w) ==
    /\ stage[w] = "down"
    /\ stage' = [stage EXCEPT ![w] = "idle"]
    /\ UNCHANGED <<tableVars, session, batch, toSend, kafkaVars, faults>>

------------------------------------------------------------------------------
AddNext(w) == AddExecute(w) \/ \E r \in Rows : AddEnd(w, r)

PublishNext(w) ==
    \/ Reserve(w)
    \/ \E r \in Rows : Produce(w, r)
    \/ BeginFlush(w) \/ FlushDone(w)
    \/ MarkAsProcessed(w) \/ Commit(w) \/ MarkThrows(w)

KafkaNext(w) == \E r \in Rows : Deliver(w, r) \/ DeliveryFails(w, r) \/ LostAck(w, r)

FaultNext(w) == PublishThrows(w) \/ ConnectionLost(w) \/ Crash(w) \/ Restart(w)

Next ==
    \E w \in Workers :
        AddNext(w) \/ PublishNext(w) \/ Cleanup(w) \/ KafkaNext(w) \/ FaultNext(w)

SafetySpec == Init /\ [][Next]_vars

\* A running job loops every 500 ms, and the producer delivers or reports every
\* message within MessageTimeoutMs.  Nothing restarts a replica: its compose
\* service has no restart policy.
Fairness ==
    \A w \in Workers :
        /\ WF_vars(PublishNext(w))
        /\ WF_vars(\E r \in Rows : Deliver(w, r))
        /\ WF_vars(\E r \in Rows : AddEnd(w, r))

Spec == SafetySpec /\ Fairness

------------------------------------------------------------------------------
(* Properties                                                              *)

\* "Lock only the chosen rows and skip ones locked by other workers"
\* (ReserveForProcessing.sql:13): as long as the database keeps a replica's
\* transaction, the rows it publishes are its own, stored, and unmarked, so two
\* such replicas never publish the same row.
BatchesOwned ==
    \A w \in session : \A r \in batch[w] :
        /\ lock[r] = w
        /\ table[r] = "stored"
        /\ r \notin isProcessed

\* The reservation columns protect nothing: since reserve and mark commit
\* together, no visible row is reserved without being processed, and the
\* expiry of a reservation (Relay.cs:12) never decides anything.
ReservationNeverVisible == isProcessing = isProcessed

\* A row is marked, or deleted, only after its delivery report came in.
MarkedWasReported ==
    \A r \in Rows :
        r \in isProcessed \/ table[r] = "deleted" => copies[r] > 0 \/ r \in failed

\* Every copy beyond the first is the work of a fault: without faults the
\* replicas together publish a row at most once.
DuplicatesNeedFaults == \A r \in Rows : copies[r] <= 1 + faults

\* A row is locked only by a transaction that will end: an insert of a replica
\* that is up, or a publish job in the middle of its batch.  However replicas and
\* connections die, no row stays reserved for nobody (Relay.cs:27-58), and
\* SKIP LOCKED passes it over for a while only.
NothingOrphaned ==
    \A r \in Rows, w \in Workers :
        lock[r] = w =>
            /\ stage[w] # "down"
            /\ \/ table[r] = "inserting"
               \/ w \in session /\ r \in batch[w] /\ stage[w] \in Publishing

\* What reached the topic was stored: an insert that is rolled back is never
\* published.
OnlyStoredPublished ==
    \A r \in Rows : copies[r] > 0 => table[r] \in {"stored", "deleted"}

\* A stored row is published, or given up by a delivery report, in the end,
\* although replicas may die with it reserved, unless all are down for good.
StoredEventuallyPublished ==
    []<>(\E w \in Workers : stage[w] # "down") =>
        \A r \in Rows : table[r] = "stored" ~> copies[r] > 0 \/ r \in failed

\* The delay topic is "for failed requests" (KafkaMessagePub.cs:68): a row
\* leaves the outbox only when a topic holds it.
NothingLost ==
    \A r \in Rows : r \in isProcessed \/ table[r] = "deleted" => copies[r] > 0

\* The outbox implements the contract of OutboxContract.
Contract == INSTANCE OutboxContract WITH
    Messages  <- Rows,
    accepted  <- {r \in Rows : table[r] \in {"stored", "deleted"}},
    published <- {r \in Rows : copies[r] > 0},
    refused   <- failed,
    finished  <- {r \in Rows : r \in isProcessed \/ table[r] = "deleted"}

ImplementsContract == Contract!ContractSpec
==============================================================================
