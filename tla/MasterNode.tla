------------------------------ MODULE MasterNode ------------------------------
(***************************************************************************)
(* One TCP connection of MasterNode: the ConnectionHandler actor, its      *)
(* AuthActor, the MongoDBActor it creates for every chunk it receives, and *)
(* the byte stream in both directions.                                     *)
(*                                                                         *)
(* A stream is a sequence of messages, and whoever reads it takes any      *)
(* non-empty prefix at once: several messages may arrive in one            *)
(* Tcp.Received, several replies in one ReadAsync.  A message that is      *)
(* split over two segments is not modelled.  The replies of the            *)
(* MongoDBActors come back through Ask and PipeTo in any order.            *)
(***************************************************************************)
EXTENDS Integers, Sequences

CONSTANTS
    MaxOffset,       \* bound: messages are numbered 1..MaxOffset
    NotNotes         \* messages MongoDBActor cannot deserialize

ASSUME MasterNodeAssumption ==
    /\ MaxOffset \in Nat
    /\ NotNotes \subseteq 1..MaxOffset

Messages == 1..MaxOffset
Key == 0             \* the hash of a valid API key
WrongKey == -1       \* the hash of any other key

VARIABLES
    open,            \* TRUE iff the connection is up
    toServer,        \* what the client has written and MasterNode not received
    toClient,        \* the replies written and not read
    actor,           \* the behaviour of ConnectionHandler
    initialData,     \* TRUE iff the handler has told itself the first chunk
    pending,         \* per result: MongoDBActors whose answer is on its way
    oks,             \* how many chunks MongoDBActors have accepted so far
    merged           \* history: messages, or replies to them, met in one read

masterVars == <<open, toServer, toClient, actor, initialData, pending, oks, merged>>

Results == {"Ok", "Write operation failed"}
Replies == Results \union {"API Key authenticated", "Invalid API Key"}
Behaviours == {"none", "unauthenticated", "authenticating", "rejecting",
               "authenticated", "closed"}

MasterTypeOK ==
    /\ open \in BOOLEAN
    /\ toServer \in Seq(Messages \union {Key, WrongKey})
    /\ toClient \in Seq(Replies)
    /\ actor \in Behaviours
    /\ initialData \in BOOLEAN
    /\ pending \in [Results -> Nat]
    /\ oks \in Nat
    /\ merged \in BOOLEAN

NoneReplying == [r \in Results |-> 0]

MasterInit ==
    /\ open = FALSE
    /\ toServer = << >>
    /\ toClient = << >>
    /\ actor = "none"
    /\ initialData = FALSE
    /\ pending = NoneReplying
    /\ oks = 0
    /\ merged = FALSE

------------------------------------------------------------------------------
(* The connection                                                          *)

\* The client connects and writes its key; MainServerActor creates a handler.
Accept(key) ==
    /\ open' = TRUE
    /\ toServer' = <<key>>
    /\ toClient' = << >>
    /\ actor' = "unauthenticated"
    /\ initialData' = FALSE
    /\ pending' = NoneReplying
    /\ merged' = FALSE
    /\ UNCHANGED oks

\* The connection breaks; ConnectionHandler stops, and what is under way is
\* lost, the answers of its MongoDBActors included.
Disconnect ==
    /\ open' = FALSE
    /\ toServer' = << >>
    /\ toClient' = << >>
    /\ actor' = "none"
    /\ initialData' = FALSE
    /\ pending' = NoneReplying
    /\ merged' = FALSE
    /\ UNCHANGED oks

\* The client writes message m.
Send(m) ==
    /\ open
    /\ toServer' = Append(toServer, m)
    /\ UNCHANGED <<open, toClient, actor, initialData, pending, oks, merged>>

\* The client reads the first k replies at once (merged is left to the client).
Read(k) ==
    /\ open
    /\ k \in 1..Len(toClient)
    /\ toClient' = SubSeq(toClient, k + 1, Len(toClient))
    /\ UNCHANGED <<open, toServer, actor, initialData, pending, oks>>

------------------------------------------------------------------------------
(* ConnectionHandler                                                       *)

\* Receive<Tcp.Received> before authentication: Ask AuthActor.
ReceiveKey ==
    /\ actor = "unauthenticated"
    /\ toServer # << >>
    /\ actor' = IF Head(toServer) = Key THEN "authenticating" ELSE "rejecting"
    /\ toServer' = Tail(toServer)
    /\ UNCHANGED <<open, toClient, initialData, pending, oks, merged>>

\* Receive<AuthResult>: answer, Become(Authenticated), which tells the actor
\* the first chunk, the key, once more.
Authenticated ==
    /\ actor = "authenticating"
    /\ actor' = "authenticated"
    /\ toClient' = Append(toClient, "API Key authenticated")
    /\ initialData' = TRUE
    /\ UNCHANGED <<open, toServer, pending, oks, merged>>

\* Receive<AuthResult> with a wrong key: answer, then Tcp.Close.
Rejected ==
    /\ actor = "rejecting"
    /\ actor' = "closed"
    /\ toClient' = Append(toClient, "Invalid API Key")
    /\ UNCHANGED <<open, toServer, initialData, pending, oks, merged>>

\* What a MongoDBActor answers to a chunk: only a single note deserializes.
Answer(chunk) ==
    IF Len(chunk) = 1 /\ Head(chunk) \in Messages \ NotNotes
    THEN "Ok" ELSE "Write operation failed"

\* Faulty variant of Ask: the catch block does not answer.
AskUnanswered(chunk) ==
    LET r == Answer(chunk) IN
    IF r = "Ok" THEN pending' = [pending EXCEPT ![r] = @ + 1] /\ oks' = oks + 1
                ELSE UNCHANGED <<pending, oks>>

\* A new MongoDBActor takes the chunk and answers.
Ask(chunk) ==
    LET r == Answer(chunk) IN
    /\ pending' = [pending EXCEPT ![r] = @ + 1]
    /\ oks' = IF r = "Ok" THEN oks + 1 ELSE oks

\* Receive<Tcp.Received> after authentication.
ReceiveData ==
    /\ actor = "authenticated"
    /\ \E k \in 1..Len(toServer) :
         /\ Ask(SubSeq(toServer, 1, k))
         /\ toServer' = SubSeq(toServer, k + 1, Len(toServer))
         /\ merged' = (merged \/ k > 1)
    /\ UNCHANGED <<open, toClient, actor, initialData>>

\* The chunk the actor has told itself.
ReceiveInitialData ==
    /\ actor = "authenticated"
    /\ initialData
    /\ initialData' = FALSE
    /\ Ask(<<Key>>)
    /\ UNCHANGED <<open, toServer, toClient, actor, merged>>

\* Receive<WriteResult>: the result goes to the client.
WriteResult(r) ==
    /\ pending[r] > 0
    /\ pending' = [pending EXCEPT ![r] = @ - 1]
    /\ toClient' = Append(toClient, r)
    /\ UNCHANGED <<open, toServer, actor, initialData, oks, merged>>

MasterNext ==
    \/ ReceiveKey \/ Authenticated \/ Rejected
    \/ ReceiveData \/ ReceiveInitialData
    \/ \E r \in Results : WriteResult(r)
==============================================================================
