----------------------------- MODULE OutboxProofs -----------------------------
(***************************************************************************)
(* Proofs about the outbox, for any set of replicas, any number of rows,   *)
(* any batch size and any number of faults.                                *)
(***************************************************************************)
EXTENDS Outbox, FiniteSetTheorems, TLAPS

\* The life of a row: rows beyond `inserted` are new, a row being inserted is
\* locked, and a marked row is stored.
RowLife ==
    /\ \A r \in Rows : r > inserted => table[r] = "new"
    /\ \A r \in Rows : table[r] = "inserting" => lock[r] # NoWorker
    /\ \A r \in isProcessed : table[r] = "stored"
    /\ isProcessing = isProcessed

Known == {r \in Rows : table[r] \in {"stored", "deleted"}}

\* A publish job holds a batch only while it publishes, and whatever it or its
\* producer holds was stored, also when its transaction is lost.
Holdings ==
    /\ \A w \in session : stage[w] \in Publishing
    /\ \A w \in Workers : stage[w] \notin Publishing => batch[w] = {}
    /\ \A w \in Workers : toSend[w] \subseteq batch[w]
    /\ \A w \in Workers : stage[w] # "producing" => toSend[w] = {}
    /\ \A w \in Workers : batch[w] \subseteq Known
    /\ \A w \in Workers : \A r \in Rows : inflight[w][r] > 0 => r \in Known
    /\ \A r \in Rows : copies[r] > 0 => r \in Known
    /\ failed \subseteq Known

Reported(r) == copies[r] > 0 \/ r \in failed

\* What a job has produced is with its producer or reported, and once Flush
\* returned, reported.
Reports ==
    /\ \A w \in Workers : stage[w] \in {"producing", "flushing"} =>
            \A r \in batch[w] \ toSend[w] : inflight[w][r] > 0 \/ Reported(r)
    /\ \A w \in Workers : stage[w] \in {"marking", "committing"} =>
            \A r \in batch[w] : Reported(r)
    /\ \A r \in Rows : r \in isProcessed \/ table[r] = "deleted" => Reported(r)

OutboxInv == TypeOK /\ RowLife /\ BatchesOwned /\ Holdings /\ Reports

\* The initial states satisfy the inductive invariant.
LEMMA InitInv == Init => OutboxInv
BY OutboxAssumption DEF Init, OutboxInv, TypeOK, RowLife, BatchesOwned, Holdings,
   Reports, Reported, Known, Rows, RowStates, Stages, Publishing

\* What setting one producer's count of one row does.
LEMMA SetInflight ==
    ASSUME NEW f \in [Workers -> [Rows -> Nat]],
           NEW w \in Workers, NEW r \in Rows, NEW n \in Nat
    PROVE  LET g == [f EXCEPT ![w][r] = n] IN
           /\ g \in [Workers -> [Rows -> Nat]]
           /\ g[w][r] = n
           /\ \A v \in Workers, q \in Rows : v # w \/ q # r => g[v][q] = f[v][q]
OBVIOUS

\* Every step keeps the variables in their sets.
LEMMA TypeStep == TypeOK /\ [Next]_vars => TypeOK'
<1> SUFFICES ASSUME TypeOK, [Next]_vars PROVE TypeOK'
    OBVIOUS
<1> USE OutboxAssumption DEF TypeOK, Rows, RowStates, Stages, Publishing,
        tableVars, workerVars, kafkaVars, Fault, Unlocked
<1>1. ASSUME NEW w \in Workers, AddNext(w) PROVE TypeOK'
    <2>1. CASE AddExecute(w)
        <3>1. inserted + 1 \in Rows
            BY <2>1 DEF AddExecute
        <3>2. inserted' \in 0..MaxRows
            BY <2>1 DEF AddExecute
        <3>3. table' \in [Rows -> RowStates]
            BY <2>1, <3>1 DEF AddExecute
        <3>4. lock' \in [Rows -> Workers \union {NoWorker}]
            BY <2>1, <3>1 DEF AddExecute
        <3> QED BY <2>1, <3>2, <3>3, <3>4 DEF AddExecute
    <2>2. ASSUME NEW r \in Rows, AddEnd(w, r) PROVE TypeOK'
        <3>1. table' \in [Rows -> RowStates]
            BY <2>2 DEF AddEnd
        <3>2. lock' \in [Rows -> Workers \union {NoWorker}]
            BY <2>2 DEF AddEnd
        <3> QED BY <2>2, <3>1, <3>2 DEF AddEnd
    <2> QED BY <1>1, <2>1, <2>2 DEF AddNext
<1>2. ASSUME NEW w \in Workers, Reserve(w) PROVE TypeOK'
    <2>1. PICK expired \in SUBSET isProcessing :
             LET chosen == Oldest(Candidates(expired)) IN
             /\ batch' = [batch EXCEPT ![w] = chosen]
             /\ toSend' = [toSend EXCEPT ![w] = chosen]
             /\ lock' = [r \in Rows |-> IF r \in chosen THEN w ELSE lock[r]]
        BY <1>2 DEF Reserve
    <2> DEFINE chosen == Oldest(Candidates(expired))
    <2>2. chosen \in SUBSET Rows
        BY DEF Oldest, Candidates
    <2> HIDE DEF chosen
    <2>3. batch' = [batch EXCEPT ![w] = chosen]
        BY <2>1 DEF chosen
    <2>4. toSend' = [toSend EXCEPT ![w] = chosen]
        BY <2>1 DEF chosen
    <2>5. lock' = [r \in Rows |-> IF r \in chosen THEN w ELSE lock[r]]
        BY <2>1 DEF chosen
    <2>6. /\ batch' \in [Workers -> SUBSET Rows]
          /\ toSend' \in [Workers -> SUBSET Rows]
          /\ lock' \in [Rows -> Workers \union {NoWorker}]
        BY <2>2, <2>3, <2>4, <2>5
    <2>7. stage' \in [Workers -> Stages] /\ session' \subseteq Workers
        BY <1>2 DEF Reserve
    <2> QED BY <1>2, <2>6, <2>7 DEF Reserve
<1>3. ASSUME NEW w \in Workers, NEW r \in Rows, Produce(w, r) PROVE TypeOK'
    <2>1. inflight' \in [Workers -> [Rows -> Nat]]
        BY <1>3, SetInflight DEF Produce
    <2>2. toSend' \in [Workers -> SUBSET Rows]
        BY <1>3 DEF Produce
    <2> QED BY <1>3, <2>1, <2>2 DEF Produce
<1>4. ASSUME NEW w \in Workers,
             BeginFlush(w) \/ FlushDone(w) \/ MarkAsProcessed(w)
      PROVE  TypeOK'
    BY <1>4 DEF BeginFlush, FlushDone, MarkAsProcessed
<1>5. ASSUME NEW w \in Workers, Commit(w) PROVE TypeOK'
    BY <1>5 DEF Commit
<1>6. ASSUME NEW w \in Workers, MarkThrows(w) \/ PublishThrows(w) PROVE TypeOK'
    <2>1. RollBack(w) /\ faults' \in 0..MaxFaults
        BY <1>6 DEF MarkThrows, PublishThrows
    <2>2. lock' \in [Rows -> Workers \union {NoWorker}]
        BY <2>1 DEF RollBack
    <2>3. /\ stage' \in [Workers -> Stages]
          /\ session' \subseteq Workers
          /\ batch' \in [Workers -> SUBSET Rows]
          /\ toSend' \in [Workers -> SUBSET Rows]
        BY <2>1 DEF RollBack
    <2>4. UNCHANGED <<inserted, table, isProcessing, isProcessed,
                      inflight, copies, failed>>
        BY <2>1 DEF RollBack
    <2> QED BY <2>1, <2>2, <2>3, <2>4
<1>7. ASSUME NEW w \in Workers, Cleanup(w) PROVE TypeOK'
    BY <1>7 DEF Cleanup
<1>8. ASSUME NEW w \in Workers, NEW r \in Rows, Deliver(w, r) PROVE TypeOK'
    <2>1. inflight' \in [Workers -> [Rows -> Nat]]
        BY <1>8, SetInflight DEF Deliver
    <2>2. copies' \in [Rows -> Nat] /\ failed' \subseteq Rows
        BY SMTT(30), <1>8 DEF Deliver
    <2> QED BY <1>8, <2>1, <2>2 DEF Deliver
<1>9. ASSUME NEW w \in Workers, NEW r \in Rows, DeliveryFails(w, r) PROVE TypeOK'
    <2>1. inflight' \in [Workers -> [Rows -> Nat]]
        BY <1>9, SetInflight DEF DeliveryFails
    <2>2. copies' \in [Rows -> Nat] /\ failed' \subseteq Rows
        BY <1>9 DEF DeliveryFails
    <2>3. faults' \in 0..MaxFaults
        BY <1>9 DEF DeliveryFails
    <2> QED BY <1>9, <2>1, <2>2, <2>3 DEF DeliveryFails
<1>10. ASSUME NEW w \in Workers, NEW r \in Rows, LostAck(w, r) PROVE TypeOK'
    <2>1. copies' \in [Rows -> Nat]
        BY <1>10 DEF LostAck
    <2>2. faults' \in 0..MaxFaults
        BY <1>10 DEF LostAck
    <2> QED BY <1>10, <2>1, <2>2 DEF LostAck
<1>11. ASSUME NEW w \in Workers, ConnectionLost(w) PROVE TypeOK'
    BY SMTT(30), <1>11 DEF ConnectionLost
<1>12. ASSUME NEW w \in Workers, Crash(w) PROVE TypeOK'
    <2>1. lock' \in [Rows -> Workers \union {NoWorker}]
        BY <1>12 DEF Crash
    <2>2. table' \in [Rows -> RowStates]
        BY <1>12 DEF Crash
    <2>3. /\ stage' \in [Workers -> Stages]
          /\ session' \subseteq Workers
          /\ batch' \in [Workers -> SUBSET Rows]
          /\ toSend' \in [Workers -> SUBSET Rows]
        BY <1>12 DEF Crash
    <2>4. inflight' \in [Workers -> [Rows -> Nat]]
        BY <1>12 DEF Crash
    <2>5. faults' \in 0..MaxFaults
        BY <1>12 DEF Crash
    <2> QED BY <1>12, <2>1, <2>2, <2>3, <2>4, <2>5 DEF Crash
<1>13. ASSUME NEW w \in Workers, Restart(w) PROVE TypeOK'
    BY <1>13 DEF Restart
<1>14. CASE UNCHANGED vars
    BY <1>14 DEF vars
<1> QED BY <1>1, <1>2, <1>3, <1>4, <1>5, <1>6, <1>7, <1>8, <1>9, <1>10, <1>11,
           <1>12, <1>13, <1>14 DEF Next, PublishNext, KafkaNext, FaultNext

\* Every step preserves the life of the rows.
LEMMA RowLifeStep == OutboxInv /\ TypeOK' /\ [Next]_vars => RowLife'
<1> SUFFICES ASSUME OutboxInv, TypeOK', [Next]_vars PROVE RowLife'
    OBVIOUS
<1> USE OutboxAssumption DEF OutboxInv, TypeOK, Rows, tableVars, workerVars, kafkaVars,
        Unlocked
<1>1. ASSUME NEW w \in Workers, AddExecute(w) PROVE RowLife'
    BY <1>1 DEF AddExecute, RowLife, BatchesOwned
<1>2. ASSUME NEW w \in Workers, NEW r \in Rows, AddEnd(w, r) PROVE RowLife'
    BY <1>2 DEF AddEnd, RowLife, BatchesOwned
<1>3. ASSUME NEW w \in Workers, Reserve(w) PROVE RowLife'
    BY <1>3 DEF Reserve, Oldest, Candidates, RowLife, BatchesOwned
<1>4. ASSUME NEW w \in Workers, NEW r \in Rows, Produce(w, r) PROVE RowLife'
    BY <1>4 DEF Produce, RowLife, BatchesOwned
<1>5. ASSUME NEW w \in Workers, BeginFlush(w) PROVE RowLife'
    BY <1>5 DEF BeginFlush, RowLife, BatchesOwned
<1>6. ASSUME NEW w \in Workers, FlushDone(w) PROVE RowLife'
    BY <1>6 DEF FlushDone, RowLife, BatchesOwned
<1>7. ASSUME NEW w \in Workers, MarkAsProcessed(w) PROVE RowLife'
    BY <1>7 DEF MarkAsProcessed, RowLife, BatchesOwned
<1>8. ASSUME NEW w \in Workers, Commit(w) PROVE RowLife'
    BY <1>8 DEF Commit, RowLife, BatchesOwned
<1>9. ASSUME NEW w \in Workers, MarkThrows(w) PROVE RowLife'
    BY <1>9 DEF MarkThrows, RollBack, RowLife, BatchesOwned
<1>10. ASSUME NEW w \in Workers, PublishThrows(w) PROVE RowLife'
    BY <1>10 DEF PublishThrows, RollBack, RowLife, BatchesOwned
<1>11. ASSUME NEW w \in Workers, Cleanup(w) PROVE RowLife'
    BY <1>11 DEF Cleanup, RowLife, BatchesOwned
<1>12. ASSUME NEW w \in Workers, NEW r \in Rows, Deliver(w, r) PROVE RowLife'
    BY <1>12 DEF Deliver, RowLife, BatchesOwned
<1>13. ASSUME NEW w \in Workers, NEW r \in Rows, DeliveryFails(w, r) PROVE RowLife'
    BY <1>13 DEF DeliveryFails, RowLife, BatchesOwned
<1>14. ASSUME NEW w \in Workers, NEW r \in Rows, LostAck(w, r) PROVE RowLife'
    BY <1>14 DEF LostAck, RowLife, BatchesOwned
<1>15. ASSUME NEW w \in Workers, ConnectionLost(w) PROVE RowLife'
    BY <1>15 DEF ConnectionLost, RowLife, BatchesOwned
<1>16. ASSUME NEW w \in Workers, Crash(w) PROVE RowLife'
    BY <1>16 DEF Crash, RowLife, BatchesOwned
<1>17. ASSUME NEW w \in Workers, Restart(w) PROVE RowLife'
    BY <1>17 DEF Restart, RowLife, BatchesOwned
<1>18. CASE UNCHANGED vars
    BY <1>18 DEF vars, RowLife, BatchesOwned
<1> QED BY <1>1, <1>2, <1>3, <1>4, <1>5, <1>6, <1>7, <1>8, <1>9,
           <1>10, <1>11, <1>12, <1>13, <1>14, <1>15, <1>16, <1>17,
           <1>18 DEF Next, AddNext, PublishNext, KafkaNext, FaultNext

\* Every step preserves the ownership of reserved rows.
LEMMA OwnedStep == OutboxInv /\ TypeOK' /\ [Next]_vars => BatchesOwned'
<1> SUFFICES ASSUME OutboxInv, TypeOK', [Next]_vars PROVE BatchesOwned'
    OBVIOUS
<1> USE OutboxAssumption DEF OutboxInv, TypeOK, Rows, tableVars, workerVars, kafkaVars,
        Unlocked
<1>1. ASSUME NEW w \in Workers, AddExecute(w) PROVE BatchesOwned'
    BY <1>1 DEF AddExecute, RowLife, BatchesOwned, Holdings
<1>2. ASSUME NEW w \in Workers, NEW r \in Rows, AddEnd(w, r) PROVE BatchesOwned'
    BY <1>2 DEF AddEnd, RowLife, BatchesOwned, Holdings
<1>3. ASSUME NEW w \in Workers, Reserve(w) PROVE BatchesOwned'
    BY <1>3 DEF Reserve, Oldest, Candidates, RowLife, BatchesOwned, Holdings
<1>4. ASSUME NEW w \in Workers, NEW r \in Rows, Produce(w, r) PROVE BatchesOwned'
    BY <1>4 DEF Produce, RowLife, BatchesOwned, Holdings
<1>5. ASSUME NEW w \in Workers, BeginFlush(w) PROVE BatchesOwned'
    BY <1>5 DEF BeginFlush, RowLife, BatchesOwned, Holdings
<1>6. ASSUME NEW w \in Workers, FlushDone(w) PROVE BatchesOwned'
    BY <1>6 DEF FlushDone, RowLife, BatchesOwned, Holdings
<1>7. ASSUME NEW w \in Workers, MarkAsProcessed(w) PROVE BatchesOwned'
    BY <1>7 DEF MarkAsProcessed, RowLife, BatchesOwned, Holdings
<1>8. ASSUME NEW w \in Workers, Commit(w) PROVE BatchesOwned'
    BY <1>8 DEF Commit, RowLife, BatchesOwned, Holdings
<1>9. ASSUME NEW w \in Workers, MarkThrows(w) PROVE BatchesOwned'
    BY <1>9 DEF MarkThrows, RollBack, RowLife, BatchesOwned, Holdings
<1>10. ASSUME NEW w \in Workers, PublishThrows(w) PROVE BatchesOwned'
    BY <1>10 DEF PublishThrows, RollBack, RowLife, BatchesOwned, Holdings
<1>11. ASSUME NEW w \in Workers, Cleanup(w) PROVE BatchesOwned'
    BY <1>11 DEF Cleanup, RowLife, BatchesOwned, Holdings
<1>12. ASSUME NEW w \in Workers, NEW r \in Rows, Deliver(w, r) PROVE BatchesOwned'
    BY <1>12 DEF Deliver, RowLife, BatchesOwned, Holdings
<1>13. ASSUME NEW w \in Workers, NEW r \in Rows, DeliveryFails(w, r) PROVE BatchesOwned'
    BY <1>13 DEF DeliveryFails, RowLife, BatchesOwned, Holdings
<1>14. ASSUME NEW w \in Workers, NEW r \in Rows, LostAck(w, r) PROVE BatchesOwned'
    BY <1>14 DEF LostAck, RowLife, BatchesOwned, Holdings
<1>15. ASSUME NEW w \in Workers, ConnectionLost(w) PROVE BatchesOwned'
    BY <1>15 DEF ConnectionLost, RowLife, BatchesOwned, Holdings
<1>16. ASSUME NEW w \in Workers, Crash(w) PROVE BatchesOwned'
    BY <1>16 DEF Crash, RowLife, BatchesOwned, Holdings
<1>17. ASSUME NEW w \in Workers, Restart(w) PROVE BatchesOwned'
    BY <1>17 DEF Restart, RowLife, BatchesOwned, Holdings
<1>18. CASE UNCHANGED vars
    BY <1>18 DEF vars, RowLife, BatchesOwned, Holdings
<1> QED BY <1>1, <1>2, <1>3, <1>4, <1>5, <1>6, <1>7, <1>8, <1>9,
           <1>10, <1>11, <1>12, <1>13, <1>14, <1>15, <1>16, <1>17,
           <1>18 DEF Next, AddNext, PublishNext, KafkaNext, FaultNext

\* Every step preserves what the jobs and producers hold.
LEMMA HoldingsStep == OutboxInv /\ TypeOK' /\ [Next]_vars => Holdings'
<1> SUFFICES ASSUME OutboxInv, TypeOK', [Next]_vars PROVE Holdings'
    OBVIOUS
<1> USE OutboxAssumption DEF OutboxInv, TypeOK, Rows, tableVars, workerVars, kafkaVars,
        Unlocked
<1>1. ASSUME NEW w \in Workers, AddExecute(w) PROVE Holdings'
    BY SMTT(30), <1>1 DEF AddExecute, RowLife, BatchesOwned, Holdings, Known, Publishing
<1>2. ASSUME NEW w \in Workers, NEW r \in Rows, AddEnd(w, r) PROVE Holdings'
    BY ZenonT(60), <1>2 DEF AddEnd, Holdings, Known
<1>3. ASSUME NEW w \in Workers, Reserve(w) PROVE Holdings'
    BY <1>3 DEF Reserve, Oldest, Candidates, RowLife, BatchesOwned, Holdings, Known, Publishing
<1>4. ASSUME NEW w \in Workers, NEW r \in Rows, Produce(w, r) PROVE Holdings'
    <2>1. r \in Known /\ Known' = Known
        BY <1>4 DEF Produce, Holdings, Known
    <2>2. \A v \in Workers : toSend'[v] \subseteq toSend[v]
        BY <1>4 DEF Produce
    <2>3. \A v \in Workers, q \in Rows : inflight'[v][q] > 0 => inflight[v][q] > 0 \/ q = r
        BY <1>4 DEF Produce
    <2>4. UNCHANGED <<session, stage, batch, copies, failed>>
        BY <1>4 DEF Produce
    <2> QED BY <2>1, <2>2, <2>3, <2>4 DEF Holdings
<1>5. ASSUME NEW w \in Workers, BeginFlush(w) PROVE Holdings'
    BY <1>5 DEF BeginFlush, RowLife, BatchesOwned, Holdings, Known, Publishing
<1>6. ASSUME NEW w \in Workers, FlushDone(w) PROVE Holdings'
    BY <1>6 DEF FlushDone, RowLife, BatchesOwned, Holdings, Known, Publishing
<1>7. ASSUME NEW w \in Workers, MarkAsProcessed(w) PROVE Holdings'
    BY <1>7 DEF MarkAsProcessed, RowLife, BatchesOwned, Holdings, Known, Publishing
<1>8. ASSUME NEW w \in Workers, Commit(w) PROVE Holdings'
    BY ZenonT(60), <1>8 DEF Commit, Holdings, Known, Publishing
<1>9. ASSUME NEW w \in Workers, MarkThrows(w) PROVE Holdings'
    BY <1>9 DEF MarkThrows, RollBack, RowLife, BatchesOwned, Holdings, Known, Publishing
<1>10. ASSUME NEW w \in Workers, PublishThrows(w) PROVE Holdings'
    BY SMTT(30), <1>10 DEF PublishThrows, RollBack, RowLife, BatchesOwned, Holdings, Known, Publishing
<1>11. ASSUME NEW w \in Workers, Cleanup(w) PROVE Holdings'
    BY <1>11 DEF Cleanup, RowLife, BatchesOwned, Holdings, Known, Publishing
<1>12. ASSUME NEW w \in Workers, NEW r \in Rows, Deliver(w, r) PROVE Holdings'
    <2>1. r \in Known /\ Known' = Known
        BY <1>12 DEF Deliver, Holdings, Known
    <2>2. \A v \in Workers, q \in Rows : inflight'[v][q] > 0 => inflight[v][q] > 0
        BY <1>12 DEF Deliver
    <2>3. /\ \A q \in Rows : copies'[q] > 0 => copies[q] > 0 \/ q = r
          /\ failed' \subseteq failed \union {r}
        BY <1>12 DEF Deliver
    <2>4. UNCHANGED <<session, stage, batch, toSend>>
        BY <1>12 DEF Deliver
    <2> QED BY <2>1, <2>2, <2>3, <2>4 DEF Holdings
<1>13. ASSUME NEW w \in Workers, NEW r \in Rows, DeliveryFails(w, r) PROVE Holdings'
    <2>1. r \in Known /\ Known' = Known
        BY <1>13 DEF DeliveryFails, Holdings, Known
    <2>2. \A v \in Workers, q \in Rows : inflight'[v][q] > 0 => inflight[v][q] > 0
        BY <1>13 DEF DeliveryFails
    <2>3. /\ \A q \in Rows : copies'[q] > 0 => copies[q] > 0 \/ q = r
          /\ failed' \subseteq failed \union {r}
        BY <1>13 DEF DeliveryFails
    <2>4. UNCHANGED <<session, stage, batch, toSend>>
        BY <1>13 DEF DeliveryFails
    <2> QED BY <2>1, <2>2, <2>3, <2>4 DEF Holdings
<1>14. ASSUME NEW w \in Workers, NEW r \in Rows, LostAck(w, r) PROVE Holdings'
    <2>1. r \in Known /\ Known' = Known
        BY <1>14 DEF LostAck, Holdings, Known
    <2>2. \A v \in Workers, q \in Rows : inflight'[v][q] > 0 => inflight[v][q] > 0
        BY <1>14 DEF LostAck
    <2>3. /\ \A q \in Rows : copies'[q] > 0 => copies[q] > 0 \/ q = r
          /\ failed' \subseteq failed \union {r}
        BY <1>14 DEF LostAck
    <2>4. UNCHANGED <<session, stage, batch, toSend>>
        BY <1>14 DEF LostAck
    <2> QED BY <2>1, <2>2, <2>3, <2>4 DEF Holdings
<1>15. ASSUME NEW w \in Workers, ConnectionLost(w) PROVE Holdings'
    BY <1>15 DEF ConnectionLost, RowLife, BatchesOwned, Holdings, Known, Publishing
<1>16. ASSUME NEW w \in Workers, Crash(w) PROVE Holdings'
    BY <1>16 DEF Crash, RowLife, BatchesOwned, Holdings, Known, Publishing
<1>17. ASSUME NEW w \in Workers, Restart(w) PROVE Holdings'
    BY SMTT(30), <1>17 DEF Restart, RowLife, BatchesOwned, Holdings, Known, Publishing
<1>18. CASE UNCHANGED vars
    BY <1>18 DEF vars, RowLife, BatchesOwned, Holdings, Known, Publishing
<1> QED BY <1>1, <1>2, <1>3, <1>4, <1>5, <1>6, <1>7, <1>8, <1>9,
           <1>10, <1>11, <1>12, <1>13, <1>14, <1>15, <1>16, <1>17,
           <1>18 DEF Next, AddNext, PublishNext, KafkaNext, FaultNext

\* Every step preserves what is produced and reported.
LEMMA ReportsStep == OutboxInv /\ TypeOK' /\ [Next]_vars => Reports'
<1> SUFFICES ASSUME OutboxInv, TypeOK', [Next]_vars PROVE Reports'
    OBVIOUS
<1> USE OutboxAssumption DEF OutboxInv, TypeOK, Rows, tableVars, workerVars, kafkaVars,
        Unlocked
<1>1. ASSUME NEW w \in Workers, AddExecute(w) PROVE Reports'
    BY <1>1 DEF AddExecute, RowLife, BatchesOwned, Holdings, Reports, Reported, Publishing
<1>2. ASSUME NEW w \in Workers, NEW r \in Rows, AddEnd(w, r) PROVE Reports'
    BY <1>2 DEF AddEnd, Holdings, Reports, Reported
<1>3. ASSUME NEW w \in Workers, Reserve(w) PROVE Reports'
    BY <1>3 DEF Reserve, Oldest, Candidates, RowLife, BatchesOwned, Holdings, Reports, Reported, Publishing
<1>4. ASSUME NEW w \in Workers, NEW r \in Rows, Produce(w, r) PROVE Reports'
    BY SMTT(30), <1>4 DEF Produce, Holdings, Reports, Reported
<1>5. ASSUME NEW w \in Workers, BeginFlush(w) PROVE Reports'
    BY <1>5 DEF BeginFlush, Holdings, Reports, Reported
<1>6. ASSUME NEW w \in Workers, FlushDone(w) PROVE Reports'
    <2>1. ASSUME NEW r \in batch[w] PROVE Reported(r)
        <3>1. stage[w] = "flushing" /\ \A q \in Rows : inflight[w][q] = 0
            BY <1>6 DEF FlushDone
        <3>2. r \in Rows
            BY <2>1
        <3>3. toSend[w] = {}
            BY <3>1 DEF Holdings
        <3>4. inflight[w][r] > 0 \/ Reported(r)
            BY <2>1, <3>1, <3>3 DEF Reports
        <3> QED BY SMTT(30), <3>1, <3>2, <3>4
    <2>2. /\ stage' = [stage EXCEPT ![w] = "marking"]
          /\ UNCHANGED <<table, isProcessed, batch, toSend, inflight, copies, failed>>
        BY <1>6 DEF FlushDone
    <2>3. \A r \in Rows : Reported(r)' = Reported(r)
        BY <2>2 DEF Reported
    <2>4. \A v \in Workers \ {w} : stage'[v] = stage[v]
        BY <2>2
    <2>5. stage'[w] = "marking"
        BY <2>2
    <2> QED BY <2>1, <2>2, <2>3, <2>4, <2>5 DEF Reports
<1>7. ASSUME NEW w \in Workers, MarkAsProcessed(w) PROVE Reports'
    BY <1>7 DEF MarkAsProcessed, Holdings, Reports, Reported
<1>8. ASSUME NEW w \in Workers, Commit(w) PROVE Reports'
    BY <1>8 DEF Commit, RowLife, BatchesOwned, Holdings, Reports, Reported, Publishing
<1>9. ASSUME NEW w \in Workers, MarkThrows(w) PROVE Reports'
    BY <1>9 DEF MarkThrows, RollBack, Holdings, Reports, Reported
<1>10. ASSUME NEW w \in Workers, PublishThrows(w) PROVE Reports'
    BY <1>10 DEF PublishThrows, RollBack, Holdings, Reports, Reported
<1>11. ASSUME NEW w \in Workers, Cleanup(w) PROVE Reports'
    BY <1>11 DEF Cleanup, RowLife, BatchesOwned, Holdings, Reports, Reported, Publishing
<1>12. ASSUME NEW w \in Workers, NEW r \in Rows, Deliver(w, r) PROVE Reports'
    BY <1>12 DEF Deliver, Holdings, Reports, Reported
<1>13. ASSUME NEW w \in Workers, NEW r \in Rows, DeliveryFails(w, r) PROVE Reports'
    BY SMTT(30), <1>13 DEF DeliveryFails, Holdings, Reports, Reported
<1>14. ASSUME NEW w \in Workers, NEW r \in Rows, LostAck(w, r) PROVE Reports'
    BY <1>14 DEF LostAck, Holdings, Reports, Reported
<1>15. ASSUME NEW w \in Workers, ConnectionLost(w) PROVE Reports'
    BY <1>15 DEF ConnectionLost, Holdings, Reports, Reported
<1>16. ASSUME NEW w \in Workers, Crash(w) PROVE Reports'
    BY <1>16 DEF Crash, Holdings, Reports, Reported
<1>17. ASSUME NEW w \in Workers, Restart(w) PROVE Reports'
    BY <1>17 DEF Restart, Holdings, Reports, Reported
<1>18. CASE UNCHANGED vars
    BY <1>18 DEF vars, RowLife, BatchesOwned, Holdings, Reports, Reported, Publishing
<1> QED BY <1>1, <1>2, <1>3, <1>4, <1>5, <1>6, <1>7, <1>8, <1>9,
           <1>10, <1>11, <1>12, <1>13, <1>14, <1>15, <1>16, <1>17,
           <1>18 DEF Next, AddNext, PublishNext, KafkaNext, FaultNext

\* Every step preserves the strengthened invariant.
LEMMA InvariantStep == OutboxInv /\ [Next]_vars => OutboxInv'
<1>1. OutboxInv /\ [Next]_vars => TypeOK'
    BY TypeStep DEF OutboxInv
<1> QED BY <1>1, RowLifeStep, OwnedStep, HoldingsStep, ReportsStep DEF OutboxInv

\* It holds in every state of every behaviour of the outbox.
THEOREM Invariance == SafetySpec => []OutboxInv
BY InitInv, InvariantStep, PTL DEF SafetySpec

\* The rows, the jobs and the producers keep to their sets.
THEOREM TypeCorrect == SafetySpec => []TypeOK
<1>1. OutboxInv => TypeOK
    BY DEF OutboxInv
<1> QED BY <1>1, Invariance, PTL

\* Two replicas whose transactions the database keeps never publish the same
\* row (ReserveForProcessing.sql).
THEOREM Ownership == SafetySpec => []BatchesOwned
<1>1. OutboxInv => BatchesOwned
    BY DEF OutboxInv
<1> QED BY <1>1, Invariance, PTL

\* No row is visibly reserved and not processed, so ExpiredAt never matters.
THEOREM ReservationUnseen == SafetySpec => []ReservationNeverVisible
<1>1. OutboxInv => ReservationNeverVisible
    BY DEF OutboxInv, RowLife, ReservationNeverVisible
<1> QED BY <1>1, Invariance, PTL

\* A row is marked or deleted only after its delivery report (Relay.cs:47-50).
THEOREM MarkedReported == SafetySpec => []MarkedWasReported
<1>1. OutboxInv => MarkedWasReported
    BY DEF OutboxInv, Reports, Reported, MarkedWasReported
<1> QED BY <1>1, Invariance, PTL

\* A job whose transaction ends, by a commit, a rollback or a lost connection,
\* leaves no lock; one that is rolled back after its connection was lost has none.
LEMMA EndUnlocks ==
    ASSUME TypeOK, NothingOrphaned, NEW w \in Workers, stage[w] # "down",
           UNCHANGED table, session' = session \ {w},
           lock' = IF w \in session THEN Unlocked(batch[w]) ELSE lock,
           stage' = stage \/ stage' = [stage EXCEPT ![w] = "idle"],
           batch' = batch \/ batch' = [batch EXCEPT ![w] = {}]
    PROVE  NothingOrphaned'
<1> USE OutboxAssumption DEF Publishing
<1>1. stage \in [Workers -> Stages] /\ DOMAIN batch = Workers
    BY DEF TypeOK
<1> SUFFICES ASSUME NEW r \in Rows, NEW v \in Workers, lock'[r] = v
             PROVE  /\ stage'[v] # "down"
                    /\ \/ table'[r] = "inserting"
                       \/ v \in session' /\ r \in batch'[v] /\ stage'[v] \in Publishing
    BY DEF NothingOrphaned
<1>2. lock[r] = v /\ (w \in session => r \notin batch[w])
    BY DEF Unlocked
<1>3. /\ stage[v] # "down"
      /\ \/ table[r] = "inserting"
         \/ v \in session /\ r \in batch[v] /\ stage[v] \in Publishing
    BY <1>2 DEF NothingOrphaned
<1>4. CASE v = w
    BY <1>1, <1>2, <1>3, <1>4
<1>5. CASE v # w
    BY <1>1, <1>3, <1>5
<1> QED BY <1>4, <1>5

\* Every step keeps each lock with a transaction that will end.
LEMMA LockStep ==
    OutboxInv /\ NothingOrphaned /\ TypeOK' /\ [Next]_vars => NothingOrphaned'
<1> SUFFICES ASSUME OutboxInv, NothingOrphaned, TypeOK', [Next]_vars PROVE NothingOrphaned'
    OBVIOUS
<1> USE OutboxAssumption DEF TypeOK, Rows, NothingOrphaned, Publishing
<1>0. TypeOK /\ RowLife
    BY DEF OutboxInv
<1>1. ASSUME NEW w \in Workers, AddExecute(w) PROVE NothingOrphaned'
    <2> DEFINE q == inserted + 1
    <2>1. /\ stage[w] # "down" /\ UNCHANGED <<stage, session, batch>>
          /\ table' = [table EXCEPT ![q] = "inserting"] /\ lock' = [lock EXCEPT ![q] = w]
        BY <1>1 DEF AddExecute, workerVars
    <2> HIDE DEF q
    <2>2. ASSUME NEW r \in Rows, NEW v \in Workers, lock'[r] = v, r # q
          PROVE  lock[r] = v /\ table'[r] = table[r]
        BY <1>0, <2>1, <2>2
    <2>3. ASSUME NEW v \in Workers, lock'[q] = v, q \in Rows
          PROVE  v = w /\ table'[q] = "inserting"
        BY <1>0, <2>1, <2>3
    <2>4. ASSUME NEW r \in Rows, NEW v \in Workers, lock'[r] = v
          PROVE  /\ stage[v] # "down"
                 /\ \/ table'[r] = "inserting"
                    \/ v \in session /\ r \in batch[v] /\ stage[v] \in Publishing
        <3>1. CASE r = q
            BY <2>1, <2>3, <2>4, <3>1
        <3>2. CASE r # q
            BY <2>2, <2>4, <3>2
        <3> QED BY <3>1, <3>2
    <2> QED BY <2>1, <2>4
<1>2. ASSUME NEW w \in Workers, NEW q \in Rows, AddEnd(w, q) PROVE NothingOrphaned'
    BY <1>0, <1>2 DEF AddEnd, workerVars
<1>3. ASSUME NEW w \in Workers, Reserve(w) PROVE NothingOrphaned'
    <2>1. PICK expired \in SUBSET isProcessing :
            LET chosen == Oldest(Candidates(expired)) IN
            /\ batch' = [batch EXCEPT ![w] = chosen]
            /\ lock' = [r \in Rows |-> IF r \in chosen THEN w ELSE lock[r]]
        BY <1>3 DEF Reserve
    <2> DEFINE chosen == Oldest(Candidates(expired))
    <2>4. /\ batch' = [batch EXCEPT ![w] = chosen]
          /\ lock' = [r \in Rows |-> IF r \in chosen THEN w ELSE lock[r]]
        BY <2>1
    <2>5. chosen \subseteq Rows
        BY DEF Oldest, Candidates
    <2> HIDE DEF chosen
    <2>2. /\ stage[w] = "idle" /\ stage' = [stage EXCEPT ![w] = "producing"]
          /\ session' = session \union {w} /\ UNCHANGED table
        BY <1>3 DEF Reserve
    <2>3. ASSUME NEW r \in Rows, NEW v \in Workers, lock'[r] = v
          PROVE  /\ stage'[v] # "down"
                 /\ \/ table'[r] = "inserting"
                    \/ v \in session' /\ r \in batch'[v] /\ stage'[v] \in Publishing
        <3>1. CASE r \in chosen
            <4>1. v = w
                BY <2>4, <2>3, <3>1
            <4> QED BY <1>0, <2>4, <2>5, <2>2, <3>1, <4>1
        <3>2. CASE r \notin chosen
            <4>1. lock[r] = v
                BY <2>4, <2>3, <3>2
            <4>2. v = w => table[r] = "inserting"
                BY <2>2, <4>1
            <4> QED BY <1>0, <2>4, <2>2, <4>1, <4>2
        <3> QED BY <3>1, <3>2
    <2> QED BY <2>3
<1>4. ASSUME NEW w \in Workers, NEW q \in Rows, Produce(w, q) PROVE NothingOrphaned'
    BY <1>0, <1>4 DEF Produce, tableVars
<1>5. ASSUME NEW w \in Workers, BeginFlush(w) PROVE NothingOrphaned'
    BY <1>0, <1>5 DEF BeginFlush, tableVars
<1>6. ASSUME NEW w \in Workers, FlushDone(w) PROVE NothingOrphaned'
    BY <1>0, <1>6 DEF FlushDone, tableVars
<1>7. ASSUME NEW w \in Workers, MarkAsProcessed(w) PROVE NothingOrphaned'
    BY <1>0, <1>7 DEF MarkAsProcessed, tableVars
<1>8. ASSUME NEW w \in Workers, Commit(w) PROVE NothingOrphaned'
    BY <1>0, <1>8, EndUnlocks DEF Commit
<1>9. ASSUME NEW w \in Workers, MarkThrows(w) PROVE NothingOrphaned'
    BY <1>0, <1>9, EndUnlocks DEF MarkThrows, RollBack
<1>10. ASSUME NEW w \in Workers, PublishThrows(w) PROVE NothingOrphaned'
    BY <1>0, <1>10, EndUnlocks DEF PublishThrows, RollBack
<1>11. ASSUME NEW w \in Workers, Cleanup(w) PROVE NothingOrphaned'
    BY <1>0, <1>11 DEF Cleanup, RowLife, workerVars
<1>12. ASSUME NEW w \in Workers, NEW q \in Rows, Deliver(w, q) PROVE NothingOrphaned'
    BY <1>0, <1>12 DEF Deliver, tableVars, workerVars
<1>13. ASSUME NEW w \in Workers, NEW q \in Rows, DeliveryFails(w, q) PROVE NothingOrphaned'
    BY <1>0, <1>13 DEF DeliveryFails, tableVars, workerVars
<1>14. ASSUME NEW w \in Workers, NEW q \in Rows, LostAck(w, q) PROVE NothingOrphaned'
    BY <1>0, <1>14 DEF LostAck, tableVars, workerVars
<1>15. ASSUME NEW w \in Workers, ConnectionLost(w) PROVE NothingOrphaned'
    <2>1. stage[w] # "down"
        BY <1>0, <1>15 DEF ConnectionLost, OutboxInv, Holdings
    <2> QED BY <1>0, <1>15, <2>1, EndUnlocks DEF ConnectionLost
<1>16. ASSUME NEW w \in Workers, Crash(w) PROVE NothingOrphaned'
    <2>1. /\ stage' = [stage EXCEPT ![w] = "down"] /\ session' = session \ {w}
          /\ batch' = [batch EXCEPT ![w] = {}]
          /\ \A r \in Rows : table[r] = "inserting" /\ lock[r] # w => table'[r] = "inserting"
          /\ lock' = Unlocked({r \in Rows : lock[r] = w})
        BY <1>16 DEF Crash
    <2>2. ASSUME NEW r \in Rows, NEW v \in Workers, lock'[r] = v
          PROVE  lock[r] = v /\ v # w
        BY <2>1, <2>2 DEF Unlocked
    <2>3. ASSUME NEW r \in Rows, NEW v \in Workers, lock'[r] = v
          PROVE  /\ stage'[v] # "down"
                 /\ \/ table'[r] = "inserting"
                    \/ v \in session' /\ r \in batch'[v] /\ stage'[v] \in Publishing
        <3>1. lock[r] = v /\ v # w
            BY <2>2, <2>3
        <3>2. stage'[v] = stage[v] /\ batch'[v] = batch[v]
            BY <1>0, <2>1, <3>1
        <3> QED BY <2>1, <3>1, <3>2
    <2> QED BY <2>3
<1>17. ASSUME NEW w \in Workers, Restart(w) PROVE NothingOrphaned'
    <2>1. /\ stage' = [stage EXCEPT ![w] = "idle"] /\ stage[w] = "down"
          /\ UNCHANGED <<table, lock, session, batch>>
        BY <1>17 DEF Restart, tableVars
    <2>2. ASSUME NEW r \in Rows, NEW v \in Workers, lock[r] = v
          PROVE  stage'[v] = stage[v]
        BY <1>0, <2>1, <2>2
    <2> QED BY <2>1, <2>2
<1>18. CASE UNCHANGED vars
    BY <1>0, <1>18 DEF vars, tableVars, workerVars
<1> QED BY <1>1, <1>2, <1>3, <1>4, <1>5, <1>6, <1>7, <1>8, <1>9, <1>10, <1>11, <1>12, <1>13, <1>14, <1>15, <1>16, <1>17, <1>18
        DEF Next, AddNext, PublishNext, KafkaNext, FaultNext

\* No row stays locked by a transaction that has ended, whichever replicas die
\* and whichever connections are lost: the crash of a replica with a batch in its
\* hands makes the batch a candidate again (Relay.cs:27-58).
THEOREM LocksEnd == SafetySpec => []NothingOrphaned
<1>1. Init => NothingOrphaned
    BY OutboxAssumption DEF Init, NothingOrphaned
<1>2. OutboxInv /\ NothingOrphaned /\ [Next]_vars => NothingOrphaned'
    BY LockStep, TypeStep DEF OutboxInv
<1> QED BY <1>1, <1>2, Invariance, PTL DEF SafetySpec

\* Only what was stored reaches the topic.
THEOREM StoredPublished == SafetySpec => []OnlyStoredPublished
<1>1. OutboxInv => OnlyStoredPublished
    BY DEF OutboxInv, Holdings, Known, OnlyStoredPublished
<1> QED BY <1>1, Invariance, PTL

Published == {r \in Rows : copies[r] > 0}
Finished == {r \in Rows : r \in isProcessed \/ table[r] = "deleted"}

\* Every step of the outbox is a step of its contract or leaves it unchanged.
LEMMA ContractStep ==
    OutboxInv /\ TypeOK' /\ [Next]_vars =>
        [Contract!ContractNext]_(Contract!contractVars)
<1> SUFFICES ASSUME OutboxInv, TypeOK', [Next]_vars
             PROVE  \/ Contract!ContractNext
                    \/ UNCHANGED <<Known, Published, failed, Finished>>
    BY DEF Contract!contractVars, Known, Published, Finished
<1> USE OutboxAssumption DEF OutboxInv, TypeOK, Rows, tableVars, workerVars, kafkaVars
<1>1. ASSUME UNCHANGED <<table, isProcessed, copies, failed>>
      PROVE  UNCHANGED <<Known, Published, failed, Finished>>
    BY <1>1 DEF Known, Published, Finished
<1>2. ASSUME NEW w \in Workers, AddExecute(w)
      PROVE  UNCHANGED <<Known, Published, failed, Finished>>
    <2>1. UNCHANGED <<isProcessed, copies, failed>>
        BY <1>2 DEF AddExecute
    <2>2. \A r \in Rows : \/ table'[r] = table[r]
                          \/ table[r] = "new" /\ table'[r] = "inserting"
        BY <1>2 DEF AddExecute, RowLife
    <2> QED BY <2>1, <2>2 DEF Known, Published, Finished
<1>3. ASSUME NEW w \in Workers, NEW r \in Rows, AddEnd(w, r)
      PROVE  \/ Contract!ContractNext
             \/ UNCHANGED <<Known, Published, failed, Finished>>
    <2>1. /\ UNCHANGED <<isProcessed, copies, failed>>
          /\ table[r] = "inserting"
          /\ table'[r] \in {"stored", "rolledBack"}
          /\ \A q \in Rows \ {r} : table'[q] = table[q]
        BY <1>3 DEF AddEnd
    <2>2. Finished' = Finished /\ Published' = Published
        BY <2>1 DEF Finished, Published
    <2>3. CASE table'[r] = "rolledBack"
        <3>1. Known' = Known
            BY <2>1, <2>3 DEF Known
        <3> QED BY <2>1, <2>2, <3>1
    <2>4. CASE table'[r] = "stored"
        <3>1. Known' = Known \union {r} /\ r \notin Known
            BY SMTT(30), <2>1, <2>4 DEF Known
        <3>2. Contract!Accept(r)
            BY <2>1, <2>2, <3>1 DEF Contract!Accept, Known, Published, Finished
        <3> QED BY <3>2 DEF Contract!ContractNext
    <2> QED BY <2>1, <2>3, <2>4
<1>4. ASSUME NEW w \in Workers, Commit(w) PROVE Contract!ContractNext
    <2>1. /\ UNCHANGED <<table, copies, failed>>
          /\ isProcessed' = isProcessed \union batch[w]
          /\ stage[w] = "committing"
        BY <1>4 DEF Commit
    <2>2. Known' = Known /\ Published' = Published
        BY <2>1 DEF Known, Published
    <2>3. batch[w] \subseteq Known /\ batch[w] \in SUBSET Rows
        BY DEF Holdings
    <2>4. Finished' = Finished \union batch[w]
        BY <2>1, <2>3 DEF Finished
    <2>5. batch[w] \subseteq Published \union failed
        BY <2>1, <2>3 DEF Reports, Reported, Published
    <2>6. Contract!Finish(batch[w])
        BY <2>1, <2>2, <2>3, <2>4, <2>5
           DEF Contract!Finish, Known, Published, Finished
    <2>7. \E ms \in SUBSET Rows : Contract!Finish(ms)
        BY <2>3, <2>6 DEF Contract!Finish
    <2> QED BY <2>7, Zenon DEF Contract!ContractNext
<1>5. ASSUME NEW w \in Workers, Cleanup(w)
      PROVE  UNCHANGED <<Known, Published, failed, Finished>>
    <2>1. /\ UNCHANGED <<copies, failed>>
          /\ isProcessed' = {}
          /\ \A r \in Rows : table'[r] = IF r \in isProcessed THEN "deleted" ELSE table[r]
        BY <1>5 DEF Cleanup
    <2> QED BY <2>1 DEF RowLife, Known, Published, Finished
<1>6. ASSUME NEW w \in Workers, NEW r \in Rows, Deliver(w, r) \/ LostAck(w, r)
      PROVE  Contract!ContractNext
    <2>1. /\ UNCHANGED <<table, isProcessed, failed>>
          /\ copies' = [copies EXCEPT ![r] = @ + 1]
          /\ inflight[w][r] > 0
        BY <1>6 DEF Deliver, LostAck
    <2>2. Known' = Known /\ Finished' = Finished
        BY <2>1 DEF Known, Finished
    <2>3. Published' = Published \union {r}
        BY <2>1 DEF Published
    <2>4. r \in Known
        BY <2>1 DEF Holdings
    <2>5. Contract!Publish(r)
        BY <2>1, <2>2, <2>3, <2>4 DEF Contract!Publish, Known, Published, Finished
    <2> QED BY <2>5 DEF Contract!ContractNext
<1>7. ASSUME NEW w \in Workers, NEW r \in Rows, DeliveryFails(w, r)
      PROVE  Contract!ContractNext
    <2>1. /\ UNCHANGED <<table, isProcessed, copies>>
          /\ failed' = failed \union {r}
          /\ inflight[w][r] > 0
        BY <1>7 DEF DeliveryFails
    <2>2. Known' = Known /\ Finished' = Finished /\ Published' = Published
        BY <2>1 DEF Known, Finished, Published
    <2>3. r \in Known
        BY <2>1 DEF Holdings
    <2>4. Contract!Refuse(r)
        BY <2>1, <2>2, <2>3 DEF Contract!Refuse, Known, Published, Finished
    <2> QED BY <2>4 DEF Contract!ContractNext
<1>8. ASSUME NEW w \in Workers, Crash(w)
      PROVE  UNCHANGED <<Known, Published, failed, Finished>>
    <2>1. /\ UNCHANGED <<isProcessed, copies, failed>>
          /\ \A r \in Rows : \/ table'[r] = table[r]
                             \/ table[r] = "inserting" /\ table'[r] = "rolledBack"
        BY <1>8 DEF Crash
    <2> QED BY <2>1 DEF Known, Published, Finished
<1>9. ASSUME NEW w \in Workers,
             \/ Reserve(w) \/ BeginFlush(w) \/ FlushDone(w) \/ MarkAsProcessed(w)
             \/ MarkThrows(w) \/ PublishThrows(w) \/ ConnectionLost(w) \/ Restart(w)
             \/ \E r \in Rows : Produce(w, r)
      PROVE  UNCHANGED <<Known, Published, failed, Finished>>
    <2>1. UNCHANGED <<table, isProcessed, copies, failed>>
        BY <1>9 DEF Reserve, BeginFlush, FlushDone, MarkAsProcessed, MarkThrows,
            PublishThrows, ConnectionLost, Restart, Produce, RollBack
    <2> QED BY <1>1, <2>1
<1>10. CASE UNCHANGED vars
    BY <1>1, <1>10 DEF vars
<1> QED BY <1>2, <1>3, <1>4, <1>5, <1>6, <1>7, <1>8, <1>9, <1>10
        DEF Next, AddNext, PublishNext, KafkaNext, FaultNext

\* The outbox implements its contract: a stored message stays accepted and is
\* finished only after it was published or refused.
THEOREM Refinement == SafetySpec => ImplementsContract
<1>1. Init => Contract!ContractInit
    BY OutboxAssumption DEF Init, Contract!ContractInit, Rows
<1>2. OutboxInv => TypeOK
    BY DEF OutboxInv
<1> QED BY <1>1, <1>2, ContractStep, Invariance, PTL
        DEF SafetySpec, ImplementsContract, Contract!ContractSpec

------------------------------------------------------------------------------
(***************************************************************************)
(* Proof that every copy of a row beyond the first is the work of a fault. *)
(* A row has one right to be copied.  It is with the table while nobody    *)
(* publishes the row, with a job that has the row to send, with a Kafka    *)
(* producer that holds its message, or used up; only a fault makes a new   *)
(* one.  The rights of jobs and producers are counted as the elements of a *)
(* set of tokens, so no sum over the replicas is needed.                   *)
(***************************************************************************)

Counts == [Workers -> Nat]

\* As many tokens for each replica as p says.
Tokens(p) == {t \in Workers \X Nat : 1 <= t[2] /\ t[2] <= p[t[1]]}

\* The messages of row r that each replica has to send or has in its producer.
Pending(r) ==
    [w \in Workers |-> IF r \in toSend[w] THEN inflight[w][r] + 1 ELSE inflight[w][r]]

\* A job may still reserve row r, or there may be one when it is stored.
Held(r) == \E w \in session : r \in batch[w]
Spent(r) == r \in isProcessed \/ table[r] = "deleted" \/ Held(r)
Free(r) == IF Spent(r) THEN 0 ELSE 1

Covered(r) ==
    /\ IsFiniteSet(Tokens(Pending(r)))
    /\ copies[r] + Cardinality(Tokens(Pending(r))) + Free(r) <= 1 + faults

CopiesInv == \A r \in Rows : Covered(r)

------------------------------------------------------------------------------
(* Tokens                                                                  *)

\* No message, no token.
LEMMA NoTokens ==
    ASSUME NEW p \in Counts, \A w \in Workers : p[w] = 0
    PROVE  IsFiniteSet(Tokens(p)) /\ Cardinality(Tokens(p)) = 0
<1>1. Tokens(p) = {}
    BY DEF Tokens
<1> QED BY <1>1, FS_EmptySet

\* One more message of a replica is one more token.
LEMMA OneMoreToken ==
    ASSUME NEW p \in Counts, NEW q \in Counts, NEW w \in Workers,
           IsFiniteSet(Tokens(p)), q[w] = p[w] + 1,
           \A v \in Workers : v # w => q[v] = p[v]
    PROVE  /\ IsFiniteSet(Tokens(q))
           /\ Cardinality(Tokens(q)) = Cardinality(Tokens(p)) + 1
<1>1. p[w] \in Nat /\ q[w] \in Nat
    BY DEF Counts
<1>2. Tokens(q) = Tokens(p) \union {<<w, q[w]>>}
    <2>1. ASSUME NEW v \in Workers, NEW n \in Nat
          PROVE  <<v, n>> \in Tokens(q) <=> <<v, n>> \in Tokens(p) \union {<<w, q[w]>>}
        BY <1>1 DEF Tokens, Counts
    <2>2. Tokens(q) \subseteq Workers \X Nat /\ Tokens(p) \subseteq Workers \X Nat
        BY DEF Tokens
    <2> QED BY <1>1, <2>1, <2>2
<1>3. <<w, q[w]>> \notin Tokens(p)
    BY <1>1 DEF Tokens
<1> QED BY <1>2, <1>3, FS_AddElement

\* One message less is one token less.
LEMMA OneTokenLess ==
    ASSUME NEW p \in Counts, NEW q \in Counts, NEW w \in Workers,
           IsFiniteSet(Tokens(p)), p[w] = q[w] + 1,
           \A v \in Workers : v # w => q[v] = p[v]
    PROVE  /\ IsFiniteSet(Tokens(q))
           /\ Cardinality(Tokens(q)) = Cardinality(Tokens(p)) - 1
<1>1. p[w] \in Nat /\ q[w] \in Nat
    BY DEF Counts
<1>2. Tokens(q) \subseteq Tokens(p)
    BY <1>1 DEF Tokens, Counts
<1>3. IsFiniteSet(Tokens(q))
    BY <1>2, FS_Subset
<1>4. Cardinality(Tokens(p)) = Cardinality(Tokens(q)) + 1
    BY <1>3, OneMoreToken
<1>5. Cardinality(Tokens(q)) \in Nat
    BY <1>3, FS_CardinalityType
<1> QED BY <1>3, <1>4, <1>5

\* Fewer messages are no more tokens.
LEMMA FewerTokens ==
    ASSUME NEW p \in Counts, NEW q \in Counts, IsFiniteSet(Tokens(p)),
           \A v \in Workers : q[v] <= p[v]
    PROVE  /\ IsFiniteSet(Tokens(q))
           /\ Cardinality(Tokens(q)) <= Cardinality(Tokens(p))
<1>1. Tokens(q) \subseteq Tokens(p)
    BY DEF Tokens, Counts
<1> QED BY <1>1, FS_Subset

\* Messages are counted in natural numbers.
LEMMA PendingCounts ==
    ASSUME TypeOK PROVE \A r \in Rows : Pending(r) \in Counts
BY DEF TypeOK, Pending, Counts

------------------------------------------------------------------------------
(* Steps                                                                   *)

\* A step that gives no replica a message to send covers row r still, if what
\* it adds to the copies and the free right is paid for by faults.
LEMMA PaidFor ==
    ASSUME TypeOK, TypeOK', NEW r \in Rows, Covered(r),
           \A v \in Workers : Pending(r)'[v] <= Pending(r)[v],
           copies'[r] + Free(r)' + faults <= copies[r] + Free(r) + faults'
    PROVE  Covered(r)'
<1>1. Pending(r) \in Counts /\ Pending(r)' \in Counts
    BY PendingCounts DEF TypeOK, Pending, Counts
<1>2. IsFiniteSet(Tokens(Pending(r)))
    BY DEF Covered
<1>3. /\ IsFiniteSet(Tokens(Pending(r)'))
      /\ Cardinality(Tokens(Pending(r)')) <= Cardinality(Tokens(Pending(r)))
    BY <1>1, <1>2, FewerTokens
<1>4. /\ Cardinality(Tokens(Pending(r))) \in Nat
      /\ Cardinality(Tokens(Pending(r)')) \in Nat
    BY <1>2, <1>3, FS_CardinalityType
<1>5. Tokens(Pending(r))' = Tokens(Pending(r)')
    BY DEF Tokens
<1>6. /\ copies[r] \in Nat /\ copies'[r] \in Nat
      /\ faults \in Int /\ faults' \in Int
      /\ Free(r) \in Nat /\ Free(r)' \in Nat
    BY OutboxAssumption DEF TypeOK, Free
<1> QED BY <1>3, <1>4, <1>5, <1>6 DEF Covered

\* Nothing of row r changes.
LEMMA RowUntouched ==
    ASSUME TypeOK, TypeOK', NEW r \in Rows, Covered(r),
           \A v \in Workers : /\ inflight'[v][r] <= inflight[v][r]
                              /\ r \in toSend'[v] => r \in toSend[v],
           copies'[r] = copies[r], faults' >= faults, Spent(r) => Spent(r)'
    PROVE  Covered(r)'
<1>1. \A v \in Workers : Pending(r)'[v] <= Pending(r)[v]
    BY DEF Pending, TypeOK
<1>2. Free(r)' <= Free(r) /\ Free(r) \in Nat /\ Free(r)' \in Nat
    BY DEF Free
<1>3. copies'[r] + Free(r)' + faults <= copies[r] + Free(r) + faults'
    BY <1>2, OutboxAssumption DEF TypeOK
<1> QED BY <1>1, <1>3, PaidFor

\* Messages are dropped, and a fault pays for the right that becomes free.
LEMMA FaultPays ==
    ASSUME TypeOK, TypeOK', NEW r \in Rows, Covered(r),
           \A v \in Workers : /\ inflight'[v][r] <= inflight[v][r]
                              /\ r \in toSend'[v] => r \in toSend[v],
           copies'[r] = copies[r], faults' = faults + 1
    PROVE  Covered(r)'
<1>1. \A v \in Workers : Pending(r)'[v] <= Pending(r)[v]
    BY DEF Pending, TypeOK
<1>2. Free(r) \in {0, 1} /\ Free(r)' \in {0, 1}
    BY DEF Free
<1>3. copies'[r] + Free(r)' + faults <= copies[r] + Free(r) + faults'
    BY <1>2, OutboxAssumption DEF TypeOK
<1> QED BY <1>1, <1>3, PaidFor

\* A row that is reserved gives its right to the job.
LEMMA ReserveCovered ==
    ASSUME OutboxInv, TypeOK', NEW w \in Workers, Reserve(w),
           NEW r \in Rows, Covered(r)
    PROVE  Covered(r)'
<1> USE OutboxAssumption DEF OutboxInv, TypeOK
<1>1. PICK expired \in SUBSET isProcessing :
         LET chosen == Oldest(Candidates(expired)) IN
         /\ batch' = [batch EXCEPT ![w] = chosen]
         /\ toSend' = [toSend EXCEPT ![w] = chosen]
    BY DEF Reserve
<1> DEFINE chosen == Oldest(Candidates(expired))
<1>2. /\ batch' = [batch EXCEPT ![w] = chosen]
      /\ toSend' = [toSend EXCEPT ![w] = chosen]
    BY <1>1
<1>3. \A q \in chosen : lock[q] = NoWorker /\ table[q] = "stored" /\ q \notin isProcessed
    BY DEF Oldest, Candidates
<1> HIDE DEF chosen
<1>4. /\ stage[w] = "idle"
      /\ session' = session \union {w}
      /\ UNCHANGED <<table, isProcessed, inflight, copies, faults>>
    BY DEF Reserve, kafkaVars
<1>5. batch[w] = {} /\ toSend[w] = {} /\ w \notin session
    BY <1>4 DEF Holdings, Publishing
<1>6. CASE r \in chosen
    <2>1. ~Held(r)
        <3>1. \A v \in session : lock[r] # v
            BY <1>3, <1>6
        <3> QED BY <3>1 DEF Held, BatchesOwned
    <2>2. ~Spent(r)
        BY <1>3, <1>6, <2>1 DEF Spent
    <2>3. Spent(r)'
        BY <1>2, <1>4, <1>6 DEF Spent, Held
    <2>4. Pending(r)'[w] = Pending(r)[w] + 1
        BY <1>2, <1>4, <1>5, <1>6 DEF Pending
    <2>5. \A v \in Workers : v # w => Pending(r)'[v] = Pending(r)[v]
        BY <1>2, <1>4 DEF Pending
    <2>6. Pending(r) \in Counts /\ Pending(r)' \in Counts
        BY DEF Pending, Counts
    <2>7. IsFiniteSet(Tokens(Pending(r)))
        BY DEF Covered
    <2>8. /\ IsFiniteSet(Tokens(Pending(r)'))
          /\ Cardinality(Tokens(Pending(r)')) = Cardinality(Tokens(Pending(r))) + 1
        BY <2>4, <2>5, <2>6, <2>7, OneMoreToken
    <2>9. Cardinality(Tokens(Pending(r))) \in Nat
        BY <2>7, FS_CardinalityType
    <2>10. Tokens(Pending(r))' = Tokens(Pending(r)')
        BY DEF Tokens
    <2>11. Free(r) = 1 /\ Free(r)' = 0
        BY <2>2, <2>3 DEF Free
    <2> QED BY <1>4, <2>8, <2>9, <2>10, <2>11 DEF Covered
<1>7. CASE r \notin chosen
    <2>1. \A v \in Workers : r \in toSend'[v] => r \in toSend[v]
        BY <1>2, <1>7
    <2>2. Held(r) => Held(r)'
        BY <1>2, <1>4, <1>5 DEF Held
    <2>3. Spent(r) => Spent(r)'
        BY <1>4, <2>2 DEF Spent
    <2>4. /\ \A v \in Workers : inflight'[v][r] <= inflight[v][r]
          /\ copies'[r] = copies[r] /\ faults' >= faults
        BY <1>4
    <2> QED BY <2>1, <2>3, <2>4, RowUntouched
<1> QED BY <1>6, <1>7

\* A message that leaves a producer becomes at most one copy.
LEMMA LeavesProducer ==
    ASSUME TypeOK, TypeOK', NEW w \in Workers, NEW q \in Rows,
           inflight[w][q] > 0,
           inflight' = [inflight EXCEPT ![w][q] = @ - 1],
           UNCHANGED <<table, isProcessed, session, batch, toSend>>,
           \/ copies' = [copies EXCEPT ![q] = @ + 1]
           \/ UNCHANGED copies,
           faults' >= faults,
           NEW r \in Rows, Covered(r)
    PROVE  Covered(r)'
<1> USE OutboxAssumption DEF TypeOK
<1>1. Spent(r)' = Spent(r) /\ Free(r)' = Free(r)
    BY DEF Spent, Held, Free
<1>2. CASE r # q
    <2>1. copies'[r] = copies[r]
        BY <1>2
    <2>2. \A v \in Workers : inflight'[v][r] = inflight[v][r]
        BY <1>2
    <2>3. \A v \in Workers : inflight'[v][r] <= inflight[v][r]
        BY <2>2
    <2> QED BY <1>1, <2>1, <2>3, RowUntouched
<1>3. CASE r = q
    <2>1. inflight'[w][r] = inflight[w][r] - 1
        BY <1>3
    <2>2. \A v \in Workers : v # w => inflight'[v][r] = inflight[v][r]
        BY <1>3
    <2>3. Pending(r)[w] = Pending(r)'[w] + 1
        BY <2>1 DEF Pending
    <2>4. \A v \in Workers : v # w => Pending(r)'[v] = Pending(r)[v]
        BY <2>2 DEF Pending
    <2>5. Pending(r) \in Counts /\ Pending(r)' \in Counts
        BY DEF Pending, Counts
    <2>6. IsFiniteSet(Tokens(Pending(r)))
        BY DEF Covered
    <2>7. /\ IsFiniteSet(Tokens(Pending(r)'))
          /\ Cardinality(Tokens(Pending(r)')) = Cardinality(Tokens(Pending(r))) - 1
        BY <2>3, <2>4, <2>5, <2>6, OneTokenLess
    <2>8. Cardinality(Tokens(Pending(r))) \in Nat
        BY <2>6, FS_CardinalityType
    <2>9. Tokens(Pending(r))' = Tokens(Pending(r)')
        BY DEF Tokens
    <2>10. copies'[r] <= copies[r] + 1 /\ copies'[r] \in Nat
        BY <1>3
    <2>11. Free(r) \in Nat
        BY DEF Free
    <2> QED BY <1>1, <2>7, <2>8, <2>9, <2>10, <2>11 DEF Covered
<1> QED BY <1>2, <1>3

\* Every step covers every row.
LEMMA CopiesStep == OutboxInv /\ TypeOK' /\ CopiesInv /\ [Next]_vars => CopiesInv'
<1> SUFFICES ASSUME OutboxInv, TypeOK', CopiesInv, [Next]_vars, NEW r \in Rows
             PROVE  Covered(r)'
    BY DEF CopiesInv
<1>1. Covered(r) /\ TypeOK
    BY DEF CopiesInv, OutboxInv
<1> USE OutboxAssumption DEF OutboxInv, TypeOK, tableVars, workerVars, kafkaVars
<1>2. ASSUME \A v \in Workers : /\ inflight'[v][r] = inflight[v][r]
                                /\ r \in toSend'[v] => r \in toSend[v],
             copies'[r] = copies[r], faults' = faults, Spent(r) => Spent(r)'
      PROVE  Covered(r)'
    <2>1. \A v \in Workers : inflight'[v][r] <= inflight[v][r]
        BY <1>2
    <2>2. faults' >= faults
        BY <1>2
    <2> QED BY <1>1, <1>2, <2>1, <2>2, RowUntouched
<1>3. ASSUME NEW w \in Workers, AddExecute(w) PROVE Covered(r)'
    <2>1. table[r] = "deleted" => table'[r] = "deleted"
        BY SMTT(30), <1>3 DEF AddExecute, RowLife
    <2>2. Spent(r) => Spent(r)'
        BY <1>3, <2>1 DEF AddExecute, Spent, Held
    <2> QED BY <1>2, <1>3, <2>2 DEF AddExecute
<1>4. ASSUME NEW w \in Workers, NEW q \in Rows, AddEnd(w, q) PROVE Covered(r)'
    <2>1. table[r] = "deleted" => table'[r] = "deleted"
        BY <1>4 DEF AddEnd
    <2>2. Spent(r) => Spent(r)'
        BY <1>4, <2>1 DEF AddEnd, Spent, Held
    <2> QED BY <1>2, <1>4, <2>2 DEF AddEnd
<1>5. ASSUME NEW w \in Workers, Reserve(w) PROVE Covered(r)'
    BY <1>1, <1>5, ReserveCovered
<1>6. ASSUME NEW w \in Workers, NEW q \in Rows, Produce(w, q) PROVE Covered(r)'
    <2>1. UNCHANGED <<table, isProcessed, session, batch, copies, faults>>
        BY <1>6 DEF Produce
    <2>2. Spent(r)' = Spent(r)
        BY <2>1 DEF Spent, Held
    <2>3. /\ toSend' = [toSend EXCEPT ![w] = @ \ {q}] /\ q \in toSend[w]
          /\ inflight' = [inflight EXCEPT ![w][q] = @ + 1]
        BY <1>6 DEF Produce
    <2>4. \A v \in Workers : Pending(r)'[v] <= Pending(r)[v]
        BY <2>3 DEF Pending
    <2>5. copies'[r] + Free(r)' + faults <= copies[r] + Free(r) + faults'
        BY <2>1, <2>2 DEF Free
    <2> QED BY <1>1, <2>4, <2>5, PaidFor
<1>7. ASSUME NEW w \in Workers, BeginFlush(w) \/ FlushDone(w) \/ MarkAsProcessed(w)
      PROVE  Covered(r)'
    BY <1>2, <1>7 DEF BeginFlush, FlushDone, MarkAsProcessed, Spent, Held
<1>8. ASSUME NEW w \in Workers, Commit(w) PROVE Covered(r)'
    <2>1. /\ isProcessed' = isProcessed \union batch[w]
          /\ session' = session \ {w}
          /\ batch' = [batch EXCEPT ![w] = {}]
          /\ UNCHANGED <<table, toSend, inflight, copies, faults>>
        BY <1>8 DEF Commit
    <2>2. Spent(r) => Spent(r)'
        BY <2>1 DEF Spent, Held
    <2> QED BY <1>2, <2>1, <2>2
<1>9. ASSUME NEW w \in Workers, MarkThrows(w) PROVE Covered(r)'
    <2>1. /\ w \notin session
          /\ session' = session \ {w}
          /\ batch' = [batch EXCEPT ![w] = {}]
          /\ toSend' = [toSend EXCEPT ![w] = {}]
          /\ UNCHANGED <<table, isProcessed, inflight, copies, faults>>
        BY <1>9 DEF MarkThrows, RollBack
    <2>2. Spent(r) => Spent(r)'
        BY <2>1 DEF Spent, Held
    <2> QED BY <1>2, <2>1, <2>2
<1>10. ASSUME NEW w \in Workers, PublishThrows(w) PROVE Covered(r)'
    <2>1. /\ toSend' = [toSend EXCEPT ![w] = {}]
          /\ UNCHANGED <<inflight, copies>>
          /\ faults' = faults + 1
        BY <1>10 DEF PublishThrows, RollBack, Fault
    <2>2. \A v \in Workers : /\ inflight'[v][r] <= inflight[v][r]
                             /\ r \in toSend'[v] => r \in toSend[v]
        BY <2>1
    <2> QED BY <1>1, <2>1, <2>2, FaultPays
<1>11. ASSUME NEW w \in Workers, Cleanup(w) PROVE Covered(r)'
    <2>1. Spent(r) => Spent(r)'
        BY <1>11 DEF Cleanup, Spent, Held
    <2> QED BY <1>2, <1>11, <2>1 DEF Cleanup
<1>12. ASSUME NEW w \in Workers, NEW q \in Rows,
              Deliver(w, q) \/ DeliveryFails(w, q)
       PROVE  Covered(r)'
    <2>1. /\ inflight[w][q] > 0
          /\ inflight' = [inflight EXCEPT ![w][q] = @ - 1]
          /\ UNCHANGED <<table, isProcessed, session, batch, toSend>>
          /\ \/ copies' = [copies EXCEPT ![q] = @ + 1]
             \/ UNCHANGED copies
          /\ faults' >= faults
        BY <1>12 DEF Deliver, DeliveryFails, Fault
    <2> QED BY <1>1, <2>1, LeavesProducer
<1>13. ASSUME NEW w \in Workers, NEW q \in Rows, LostAck(w, q) PROVE Covered(r)'
    <2>1. /\ UNCHANGED <<table, isProcessed, session, batch, toSend, inflight>>
          /\ copies' = [copies EXCEPT ![q] = @ + 1]
          /\ faults' = faults + 1
        BY <1>13 DEF LostAck, Fault
    <2>2. Free(r)' = Free(r) /\ Free(r) \in Nat
        BY <2>1 DEF Free, Spent, Held
    <2>3. \A v \in Workers : Pending(r)'[v] <= Pending(r)[v]
        BY <2>1 DEF Pending
    <2>4. copies'[r] <= copies[r] + 1
        BY <2>1
    <2>5. copies'[r] + Free(r)' + faults <= copies[r] + Free(r) + faults'
        BY <2>1, <2>2, <2>4
    <2> QED BY <1>1, <2>3, <2>5, PaidFor
<1>14. ASSUME NEW w \in Workers, ConnectionLost(w) PROVE Covered(r)'
    <2>1. UNCHANGED <<inflight, toSend, copies>> /\ faults' = faults + 1
        BY <1>14 DEF ConnectionLost, Fault
    <2>2. \A v \in Workers : /\ inflight'[v][r] <= inflight[v][r]
                             /\ r \in toSend'[v] => r \in toSend[v]
        BY <2>1
    <2> QED BY <1>1, <2>1, <2>2, FaultPays
<1>15. ASSUME NEW w \in Workers, Crash(w) PROVE Covered(r)'
    <2>1. /\ toSend' = [toSend EXCEPT ![w] = {}]
          /\ inflight' = [inflight EXCEPT ![w] = [q \in Rows |-> 0]]
          /\ UNCHANGED copies
          /\ faults' = faults + 1
        BY <1>15 DEF Crash, Fault
    <2>2. \A v \in Workers : /\ inflight'[v][r] <= inflight[v][r]
                             /\ r \in toSend'[v] => r \in toSend[v]
        BY <2>1
    <2> QED BY <1>1, <2>1, <2>2, FaultPays
<1>16. ASSUME NEW w \in Workers, Restart(w) PROVE Covered(r)'
    BY <1>2, <1>16 DEF Restart, Spent, Held
<1>17. CASE UNCHANGED vars
    BY <1>2, <1>17 DEF vars, Spent, Held
<1> QED BY <1>3, <1>4, <1>5, <1>6, <1>7, <1>8, <1>9, <1>10, <1>11, <1>12, <1>13,
           <1>14, <1>15, <1>16, <1>17
        DEF Next, AddNext, PublishNext, KafkaNext, FaultNext

\* No row has been copied at first, and each has its right.
LEMMA CopiesInit == Init => CopiesInv
<1> SUFFICES ASSUME Init, NEW r \in Rows PROVE Covered(r)
    BY DEF CopiesInv
<1>1. Pending(r) \in Counts /\ \A w \in Workers : Pending(r)[w] = 0
    BY DEF Init, Pending, Counts
<1>2. copies[r] = 0 /\ faults = 0 /\ Free(r) \in {0, 1}
    BY DEF Init, Free
<1> QED BY <1>1, <1>2, NoTokens DEF Covered

\* Each copy of a message beyond the first is the work of a fault, for any number
\* of replicas (ReserveForProcessing.sql, Relay.PublishAsync).
THEOREM DuplicatesAreFaults == SafetySpec => []DuplicatesNeedFaults
<1>1. Init => OutboxInv /\ CopiesInv
    BY InitInv, CopiesInit
<1>2. OutboxInv /\ CopiesInv /\ [Next]_vars => OutboxInv' /\ CopiesInv'
    BY InvariantStep, CopiesStep DEF OutboxInv
<1>3. OutboxInv /\ CopiesInv => DuplicatesNeedFaults
    <2> SUFFICES ASSUME OutboxInv, CopiesInv, NEW r \in Rows
                 PROVE  copies[r] <= 1 + faults
        BY DEF DuplicatesNeedFaults
    <2>1. Covered(r)
        BY DEF CopiesInv
    <2>2. Cardinality(Tokens(Pending(r))) \in Nat /\ Free(r) \in Nat
        BY <2>1, FS_CardinalityType DEF Covered, Free
    <2>3. copies[r] \in Nat /\ faults \in Nat
        BY OutboxAssumption DEF OutboxInv, TypeOK
    <2> QED BY <2>1, <2>2, <2>3 DEF Covered
<1> QED BY <1>1, <1>2, <1>3, PTL DEF SafetySpec
==============================================================================
