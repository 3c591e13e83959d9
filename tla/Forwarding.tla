------------------------------ MODULE Forwarding ------------------------------
(***************************************************************************)
(* srv_sub, composed with MasterNode: KafkaConsumerRx consumes the topic   *)
(* in batches and hands the last message of each to an asynchronous        *)
(* handler, which writes it to MasterNode over the one TCP connection of   *)
(* the process, reads a response and, on "Ok", commits the offsets of the  *)
(* consumer.  Nobody awaits the handlers: the consumer goes on, so several *)
(* of them may read from the connection at the same time.                  *)
(*                                                                         *)
(* The topic is one partition and only its length matters: a message is    *)
(* its offset, counted from 1, and a position the last offset consumed.    *)
(***************************************************************************)
EXTENDS MasterNode, FiniteSets

CONSTANTS
    Poison,          \* messages the subscriber cannot deserialize, or without payload
    MaxBatch,        \* _maxConsumeBatchSize (100 in KafkaConsumeRx.cs:14)
    MaxFaults        \* bound: crashes, broken connections, consumer errors

ASSUME ForwardingAssumption ==
    /\ Poison \subseteq Messages
    /\ MaxBatch \in Nat \ {0}
    /\ MaxFaults \in Nat

NoOffset == -1

VARIABLES
    produced,        \* length of the topic
    committed,       \* the consumer group's committed position
    sub,             \* the subscriber process
    checkApiKey,     \* _checkApiKey, the result of Connect
    position,        \* the position of the consumer
    batch,           \* messages in the batch being consumed
    handler,         \* per message: where its handler is
    commits,         \* commits so far
    ioFailed,        \* messages whose last exchange ended in an IOException
    faults           \* faults so far

subscriberVars == <<sub, checkApiKey, position, batch, handler, ioFailed>>
vars == <<masterVars, produced, committed, subscriberVars, commits, faults>>

TypeOK ==
    /\ MasterTypeOK
    /\ produced \in 0..MaxOffset
    /\ committed \in 0..MaxOffset \union {NoOffset}
    /\ sub \in {"down", "connecting", "running", "stopped"}
    /\ checkApiKey \in BOOLEAN
    /\ position \in 0..MaxOffset
    /\ batch \in 0..MaxBatch
    /\ handler \in [Messages -> {"none", "reading", "committing"}]
    /\ commits \in Nat
    /\ ioFailed \subseteq Messages
    /\ faults \in 0..MaxFaults

Idle == [m \in Messages |-> "none"]

Init ==
    /\ MasterInit
    /\ produced = 0
    /\ committed = NoOffset
    /\ sub = "down"
    /\ checkApiKey = FALSE
    /\ position = 0
    /\ batch = 0
    /\ handler = Idle
    /\ commits = 0
    /\ ioFailed = {}
    /\ faults = 0

Fault == faults < MaxFaults /\ faults' = faults + 1

Produce ==
    /\ produced < MaxOffset
    /\ produced' = produced + 1
    /\ UNCHANGED <<masterVars, committed, subscriberVars, commits, faults>>

------------------------------------------------------------------------------
(* The constructor of KafkaConsumerRx: ExTcpClient.Connect and SendApiKey  *)

Connect(key) ==
    /\ sub = "down"
    /\ sub' = "connecting"
    /\ Accept(key)
    /\ UNCHANGED <<produced, committed, checkApiKey, position, batch, handler, ioFailed,
                   commits, faults>>

\* Subscribe starts at the committed position, or at the end of the topic
\* (AutoOffsetReset.Latest).
Subscribe ==
    /\ sub' = "running"
    /\ position' = IF committed = NoOffset THEN produced ELSE committed
    /\ UNCHANGED <<produced, committed, batch, handler, ioFailed, commits, faults>>

\* Faulty variant of KeyAnswered: the response is not looked at.
KeyAnsweredUnread ==
    /\ sub = "connecting"
    /\ \E k \in 1..Len(toClient) : Read(k)
    /\ checkApiKey' = TRUE
    /\ Subscribe
    /\ UNCHANGED merged

\* SendApiKey takes every response for a success that does not contain
\* "Invalid API Key".
KeyAnswered ==
    /\ sub = "connecting"
    /\ \E k \in 1..Len(toClient) :
         /\ Read(k)
         /\ checkApiKey' = (\A i \in 1..k : toClient[i] # "Invalid API Key")
    /\ Subscribe
    /\ UNCHANGED merged

\* MasterNode does not listen; or the connection breaks before the answer is
\* there: an exception, or an empty response, which counts as a success.
ConnectFails ==
    /\ \/ sub = "down" /\ checkApiKey' = FALSE
       \/ sub = "connecting" /\ ~open /\ checkApiKey' \in BOOLEAN
    /\ Subscribe
    /\ UNCHANGED masterVars

------------------------------------------------------------------------------
(* The consumer loop: ConsumeBatch, HandleAsync for each message, OnNext   *)

Consume ==
    /\ sub = "running"
    /\ position < produced
    /\ batch < MaxBatch
    /\ position' = position + 1
    /\ batch' = batch + 1
    /\ UNCHANGED <<masterVars, produced, committed, sub, checkApiKey, handler,
                   ioFailed, commits, faults>>

\* A message that does not deserialize ends the observable: OnError disposes
\* the subscription, which closes the consumer.
BatchFails ==
    /\ sub = "running"
    /\ \E m \in Poison : m \in position - batch + 1 .. position
    /\ sub' = "stopped"
    /\ batch' = 0
    /\ UNCHANGED <<masterVars, produced, committed, checkApiKey, position, handler,
                   ioFailed, commits, faults>>

\* OnNext(consumeResults.Last()): the handler runs up to its first await.  It
\* writes the message and begins to read, or drops it without a connection,
\* because the write or GetStream throws.
OnNext ==
    /\ sub = "running"
    /\ batch > 0
    /\ \A m \in Poison : m \notin position - batch + 1 .. position
    /\ batch' = 0
    /\ \/ /\ checkApiKey
          /\ Send(position)
          /\ handler' = [handler EXCEPT ![position] = "reading"]
          /\ ioFailed' = ioFailed \ {position}
       \/ /\ ~(checkApiKey /\ open)
          /\ \/ checkApiKey /\ ioFailed' = ioFailed \union {position}
             \/ UNCHANGED ioFailed
          /\ UNCHANGED <<masterVars, handler>>
    /\ UNCHANGED <<produced, committed, sub, checkApiKey, position, commits, faults>>

------------------------------------------------------------------------------
(* A handler after its write (ProcessMessageWithTcpClient)                 *)

\* Faulty variant of GetTrueOrFalse: any response counts.
GetTrueOrFalseAlways(response) == Len(response) > 0

\* response.Contains("Ok")
GetTrueOrFalse(response) == \E i \in 1..Len(response) : response[i] = "Ok"

\* Whichever handler reads first gets the replies that are there.
ReadResponse(m) ==
    /\ handler[m] = "reading"
    /\ \E k \in 1..Len(toClient) :
         /\ Read(k)
         /\ handler' = [handler EXCEPT ![m] =
                IF GetTrueOrFalse(SubSeq(toClient, 1, k)) THEN "committing" ELSE "none"]
         /\ merged' = (merged \/ k > 1)
    /\ UNCHANGED <<produced, committed, sub, checkApiKey, position, batch, ioFailed,
                   commits, faults>>

\* The read ends with an IOException, or with an empty response.
ReadFails(m) ==
    /\ handler[m] = "reading"
    /\ ~open
    /\ handler' = [handler EXCEPT ![m] = "none"]
    /\ \/ ioFailed' = ioFailed \union {m}
       \/ UNCHANGED ioFailed
    /\ UNCHANGED <<masterVars, produced, committed, sub, checkApiKey, position, batch,
                   commits, faults>>

\* Faulty variant of Commit: the offset of the message is committed, not the
\* position of the consumer.
CommitMessage(m) ==
    /\ handler[m] = "committing"
    /\ sub = "running"
    /\ committed' = m
    /\ commits' = commits + 1
    /\ handler' = [handler EXCEPT ![m] = "none"]
    /\ UNCHANGED <<masterVars, produced, sub, checkApiKey, position, batch, ioFailed, faults>>

\* _consumer.Commit() commits what the consumer has handed out so far.
Commit(m) ==
    /\ handler[m] = "committing"
    /\ sub = "running"
    /\ committed' = position
    /\ commits' = commits + 1
    /\ handler' = [handler EXCEPT ![m] = "none"]
    /\ UNCHANGED <<masterVars, produced, sub, checkApiKey, position, batch, ioFailed, faults>>

------------------------------------------------------------------------------
(* Faults                                                                  *)

\* The process ends: its handlers, its position and its connection are gone.
Die ==
    /\ sub' = "down"
    /\ checkApiKey' = FALSE
    /\ position' = 0
    /\ batch' = 0
    /\ handler' = Idle
    /\ ioFailed' = {}
    /\ Disconnect
    /\ UNCHANGED <<produced, committed, commits>>

Crash == sub # "down" /\ Fault /\ Die

\* Commit throws out of an async void handler: the broker refuses it, or the
\* consumer was closed after OnError.
CommitThrows(m) == handler[m] = "committing" /\ Fault /\ Die

\* MasterNode or the network fails.
ConnectionBreaks ==
    /\ open
    /\ Fault
    /\ Disconnect
    /\ UNCHANGED <<produced, committed, subscriberVars, commits>>

\* A fatal error of the consumer ends the observable.
ConsumerFails ==
    /\ sub = "running"
    /\ Fault
    /\ sub' = "stopped"
    /\ batch' = 0
    /\ UNCHANGED <<masterVars, produced, committed, checkApiKey, position, handler,
                   ioFailed, commits>>

------------------------------------------------------------------------------
SubscriberNext == KeyAnswered \/ ConnectFails \/ Consume \/ BatchFails \/ OnNext

HandlerNext(m) == ReadResponse(m) \/ ReadFails(m) \/ Commit(m)

ServerNext ==
    /\ MasterNext
    /\ UNCHANGED <<produced, committed, subscriberVars, commits, faults>>

FaultNext ==
    \/ Crash \/ ConnectionBreaks \/ ConsumerFails
    \/ \E m \in Messages : CommitThrows(m)

Next ==
    \/ Produce
    \/ \E key \in {Key, WrongKey} : Connect(key)
    \/ SubscriberNext
    \/ \E m \in Messages : HandlerNext(m)
    \/ ServerNext
    \/ FaultNext

SafetySpec == Init /\ [][Next]_vars

\* The subscriber's loop and handlers and MasterNode's actors run; somebody
\* starts the process, but nothing need ever fail or be produced.
Fairness ==
    /\ WF_vars(\E key \in {Key, WrongKey} : Connect(key))
    /\ WF_vars(SubscriberNext)
    /\ \A m \in Messages : WF_vars(HandlerNext(m))
    /\ WF_vars(ServerNext)

Spec == SafetySpec /\ Fairness

------------------------------------------------------------------------------
(* Properties                                                              *)

\* "API Key authenticated. You can now send messages." (ConnectionHandler.cs:40)
\* and not before: messages are on their way to MasterNode only when the
\* handler of the connection has accepted the key, and a rejected subscriber
\* never writes one.
OnlyAuthenticatedWrite ==
    \A i \in 1..Len(toServer) : toServer[i] \in Messages => actor = "authenticated"

\* Each commit is backed by a chunk MasterNode accepted: though handlers take
\* whatever response comes first, no two of them commit on one "Ok"
\* (KafkaConsumeRx.cs:60-65, 214-226).
CommitsBacked == commits <= oks

\* The committed position never goes back, although the handlers of several
\* messages overlap and finish in any order, and across restarts.
CommittedNeverBack == [][committed' >= committed]_committed

Contract == INSTANCE ForwardingContract WITH
    topic    <- produced,
    cursor   <- committed,
    accepted <- oks,
    moves    <- commits

\* Subscriber and MasterNode implement ForwardingContract: whichever handler
\* reads which response, and whatever crashes, a commit moves forward to a
\* message that was produced, and uses up one accepted chunk.
ImplementsContract == Contract!ContractSpec

Readers == {m \in Messages : handler[m] = "reading"}

\* What may still become a reply on this connection: a message MasterNode has not
\* received, an answer of a MongoDBActor, a reply that nobody has read.
BeingAnswered == pending["Ok"] + pending["Write operation failed"]
AnswersUnderWay == Len(toServer) + BeingAnswered + Len(toClient)

\* No handler waits for a reply that will not come, although the handlers take one
\* another's replies and MasterNode sends two that nobody asked for
\* (ConnectionHandler.cs:40, 73): while the connection is up and no two messages or
\* replies have met in one read, there is an answer under way for each of them.
ReadersServed == open /\ ~merged => Cardinality(Readers) <= AnswersUnderWay

\* A handler gets a response, or an error, in the end, unless two messages, or
\* the replies to two, met in one read: then there are fewer replies than
\* handlers, and one of them may wait for ever.
ReaderAnswered ==
    \A m \in Messages : handler[m] = "reading" ~> (handler[m] # "reading" \/ merged)

\* "IO error while writing to TCP stream. Will attempt one reconnect and retry."
\* (KafkaConsumeRx.cs:186): a message whose exchange failed is written again.
RetriedAfterIoError == \A m \in Messages : m \in ioFailed ~> m \notin ioFailed
==============================================================================
