--------------------------- MODULE ForwardingProofs ---------------------------
(***************************************************************************)
(* Theorems about Forwarding, for topics and batches of any length and any *)
(* number of faults: type correctness, that messages reach MasterNode only *)
(* over an authenticated connection, that the committed position never     *)
(* goes back, that each commit is backed by an accepted chunk, that both   *)
(* together implement ForwardingContract, and that each handler that reads *)
(* has an answer under way.                                                *)
(***************************************************************************)
EXTENDS Forwarding, FiniteSetTheorems, TLAPS

------------------------------------------------------------------------------
(* Sequences                                                               *)

\* Appending an element of S to a sequence over S.
LEMMA AppendIn ==
    ASSUME NEW S, NEW q \in Seq(S), NEW e \in S
    PROVE  /\ Append(q, e) \in Seq(S)
           /\ Len(Append(q, e)) = Len(q) + 1
           /\ \A i \in 1..Len(q) : Append(q, e)[i] = q[i]
           /\ Append(q, e)[Len(q) + 1] = e
OBVIOUS

\* What is left of a sequence over S after its first k elements.
LEMMA RestOf ==
    ASSUME NEW S, NEW q \in Seq(S), NEW k \in 1..Len(q)
    PROVE  /\ SubSeq(q, k + 1, Len(q)) \in Seq(S)
           /\ Len(SubSeq(q, k + 1, Len(q))) = Len(q) - k
           /\ \A i \in 1..(Len(q) - k) : SubSeq(q, k + 1, Len(q))[i] = q[k + i]
OBVIOUS

\* The first k elements of a sequence over S.
LEMMA FirstOf ==
    ASSUME NEW S, NEW q \in Seq(S), NEW k \in 1..Len(q)
    PROVE  SubSeq(q, 1, k) \in Seq(S)
OBVIOUS

\* The rest of a non-empty sequence over S.
LEMMA TailOf ==
    ASSUME NEW S, NEW q \in Seq(S), q # << >>
    PROVE  /\ Head(q) \in S
           /\ Tail(q) \in Seq(S)
           /\ Len(Tail(q)) = Len(q) - 1
           /\ \A i \in 1..Len(Tail(q)) : Tail(q)[i] = q[i + 1]
OBVIOUS

------------------------------------------------------------------------------
(* Type correctness                                                        *)

Wire == Messages \union {Key, WrongKey}

\* TypeOK is not inductive: that the last message of a batch has an offset
\* needs the batch to lie behind the position.
TypeInv ==
    /\ TypeOK
    /\ batch <= position
    /\ sub \in {"down", "connecting"} => batch = 0

\* A connection without traffic has the right types.
LEMMA EmptyType ==
    /\ << >> \in Seq(Wire)
    /\ << >> \in Seq(Replies)
    /\ NoneReplying \in [Results -> Nat]
BY DEF NoneReplying

\* The initial state has the right types.
LEMMA InitType == Init => TypeInv
<1> SUFFICES ASSUME Init PROVE TypeInv OBVIOUS
<1>1. MasterTypeOK
  BY EmptyType DEF Init, MasterInit, MasterTypeOK, Behaviours, Wire
<1>2. produced \in 0..MaxOffset /\ position \in 0..MaxOffset
  BY MasterNodeAssumption DEF Init
<1>3. batch \in 0..MaxBatch /\ faults \in 0..MaxFaults
  BY ForwardingAssumption DEF Init
<1>4. handler \in [Messages -> {"none", "reading", "committing"}]
  BY DEF Init, Idle
<1>5. TypeOK BY <1>1, <1>2, <1>3, <1>4 DEF Init, TypeOK
<1> QED BY <1>5 DEF Init, TypeInv

\* A MongoDBActor's answer leaves the counters naturals.
LEMMA AskType ==
    ASSUME MasterTypeOK, NEW chunk, Ask(chunk)
    PROVE  pending' \in [Results -> Nat] /\ oks' \in Nat
<1>1. Answer(chunk) \in Results BY DEF Answer, Results
<1>2. pending' \in [Results -> Nat] BY <1>1 DEF Ask, MasterTypeOK
<1>3. oks' \in Nat BY DEF Ask, MasterTypeOK
<1> QED BY <1>2, <1>3

\* The actors of MasterNode keep the types.
LEMMA MasterType == ASSUME MasterTypeOK, MasterNext PROVE MasterTypeOK'
<1>1. toServer \in Seq(Wire) /\ toClient \in Seq(Replies)
  BY DEF MasterTypeOK, Wire
<1>2. CASE ReceiveKey
  <2>1. toServer' \in Seq(Wire) BY <1>1, <1>2, TailOf DEF ReceiveKey
  <2> QED BY <1>2, <2>1 DEF ReceiveKey, MasterTypeOK, Behaviours, Wire
<1>3. CASE Authenticated
  <2>1. toClient' \in Seq(Replies) BY <1>1, <1>3, AppendIn DEF Authenticated, Replies
  <2> QED BY <1>3, <2>1 DEF Authenticated, MasterTypeOK, Behaviours
<1>4. CASE Rejected
  <2>1. toClient' \in Seq(Replies) BY <1>1, <1>4, AppendIn DEF Rejected, Replies
  <2> QED BY <1>4, <2>1 DEF Rejected, MasterTypeOK, Behaviours
<1>5. CASE ReceiveData
  <2>1. toServer' \in Seq(Wire) BY <1>1, <1>5, RestOf DEF ReceiveData
  <2>2. pending' \in [Results -> Nat] /\ oks' \in Nat BY <1>5, AskType DEF ReceiveData
  <2>3. merged' \in BOOLEAN BY <1>5 DEF ReceiveData
  <2> QED BY <1>5, <2>1, <2>2, <2>3 DEF ReceiveData, MasterTypeOK, Wire
<1>6. CASE ReceiveInitialData
  <2>1. pending' \in [Results -> Nat] /\ oks' \in Nat
    BY <1>6, AskType DEF ReceiveInitialData
  <2> QED BY <1>6, <2>1 DEF ReceiveInitialData, MasterTypeOK
<1>7. ASSUME NEW r \in Results, WriteResult(r) PROVE MasterTypeOK'
  <2>1. toClient' \in Seq(Replies) BY <1>1, <1>7, AppendIn DEF WriteResult, Replies
  <2>2. pending' \in [Results -> Nat] BY <1>7 DEF WriteResult, MasterTypeOK
  <2> QED BY <1>7, <2>1, <2>2 DEF WriteResult, MasterTypeOK
<1> QED BY <1>2, <1>3, <1>4, <1>5, <1>6, <1>7 DEF MasterNext

\* The client's side of the connection keeps the types.
LEMMA LinkType ==
    ASSUME MasterTypeOK
    PROVE  /\ \A key \in {Key, WrongKey} : Accept(key) => MasterTypeOK'
           /\ Disconnect => MasterTypeOK'
           /\ \A m \in Messages : Send(m) => MasterTypeOK'
           /\ \A k \in 1..Len(toClient) : Read(k) /\ merged' \in BOOLEAN => MasterTypeOK'
<1>1. toServer \in Seq(Wire) /\ toClient \in Seq(Replies)
  BY DEF MasterTypeOK, Wire
<1>2. ASSUME NEW key \in {Key, WrongKey}, Accept(key) PROVE MasterTypeOK'
  <2>1. <<key>> \in Seq(Wire) BY DEF Wire
  <2> QED BY <1>2, <2>1, EmptyType DEF Accept, MasterTypeOK, Behaviours, Wire
<1>3. ASSUME Disconnect PROVE MasterTypeOK'
  BY <1>3, EmptyType DEF Disconnect, MasterTypeOK, Behaviours, Wire
<1>4. ASSUME NEW m \in Messages, Send(m) PROVE MasterTypeOK'
  <2>1. toServer' \in Seq(Wire) BY <1>1, <1>4, AppendIn DEF Send, Wire
  <2> QED BY <1>4, <2>1 DEF Send, MasterTypeOK, Wire
<1>5. ASSUME NEW k \in 1..Len(toClient), Read(k), merged' \in BOOLEAN PROVE MasterTypeOK'
  <2>1. toClient' \in Seq(Replies) BY <1>1, <1>5, RestOf DEF Read
  <2> QED BY <1>5, <2>1 DEF Read, MasterTypeOK
<1> QED BY <1>2, <1>3, <1>4, <1>5

\* Every step keeps every variable in its set.
LEMMA TypeStep == TypeInv /\ [Next]_vars => TypeOK'
<1> SUFFICES ASSUME TypeOK, batch <= position, [Next]_vars PROVE TypeOK'
  BY DEF TypeInv
<1> USE MasterNodeAssumption, ForwardingAssumption
<1>1. MasterTypeOK BY DEF TypeOK
<1>2. ASSUME UNCHANGED masterVars PROVE MasterTypeOK'
  BY <1>1, <1>2 DEF MasterTypeOK, masterVars
<1>3. ASSUME Die, faults' \in 0..MaxFaults PROVE TypeOK'
  <2>1. MasterTypeOK' BY <1>1, <1>3, LinkType DEF Die
  <2>2. handler' \in [Messages -> {"none", "reading", "committing"}] BY <1>3 DEF Die, Idle
  <2>3. position' \in 0..MaxOffset /\ batch' \in 0..MaxBatch BY <1>3 DEF Die
  <2> QED BY <1>3, <2>1, <2>2, <2>3 DEF Die, TypeOK
<1>4. ASSUME Fault PROVE faults' \in 0..MaxFaults
  BY <1>4 DEF Fault, TypeOK
<1>5. CASE Produce
  BY <1>2, <1>5 DEF Produce, TypeOK, subscriberVars
<1>6. ASSUME NEW key \in {Key, WrongKey}, Connect(key) PROVE TypeOK'
  <2>1. MasterTypeOK' BY <1>1, <1>6, LinkType DEF Connect
  <2> QED BY <1>6, <2>1 DEF Connect, TypeOK
<1>7. ASSUME Subscribe, checkApiKey' \in BOOLEAN, MasterTypeOK' PROVE TypeOK'
  BY <1>7 DEF Subscribe, TypeOK, NoOffset
<1>8. CASE KeyAnswered
  <2>1. PICK k \in 1..Len(toClient) : Read(k) BY <1>8 DEF KeyAnswered
  <2>2. checkApiKey' \in BOOLEAN BY <1>8 DEF KeyAnswered
  <2>3. merged' \in BOOLEAN BY <1>1, <1>8 DEF KeyAnswered, MasterTypeOK
  <2>4. MasterTypeOK' BY <1>1, <2>1, <2>3, LinkType
  <2> QED BY <1>7, <1>8, <2>2, <2>4 DEF KeyAnswered
<1>9. CASE ConnectFails
  BY <1>2, <1>7, <1>9 DEF ConnectFails
<1>10. CASE Consume
  BY <1>2, <1>10 DEF Consume, TypeOK
<1>11. CASE BatchFails
  BY <1>2, <1>11 DEF BatchFails, TypeOK
<1>12. CASE OnNext
  <2>1. position \in Messages
    BY <1>12 DEF OnNext, TypeOK, Messages
  <2>2. MasterTypeOK'
    BY <1>1, <1>2, <1>12, <2>1, LinkType DEF OnNext
  <2>3. handler' \in [Messages -> {"none", "reading", "committing"}]
    BY <1>12, <2>1 DEF OnNext, TypeOK
  <2>4. ioFailed' \subseteq Messages
    BY <1>12, <2>1 DEF OnNext, TypeOK
  <2> QED BY <1>12, <2>2, <2>3, <2>4 DEF OnNext, TypeOK
<1>13. ASSUME NEW m \in Messages, ReadResponse(m) PROVE TypeOK'
  <2>1. PICK k \in 1..Len(toClient) : Read(k) /\ merged' = (merged \/ k > 1)
    BY <1>13 DEF ReadResponse
  <2>2. MasterTypeOK' BY <1>1, <2>1, LinkType
  <2>3. handler' \in [Messages -> {"none", "reading", "committing"}]
    BY <1>13 DEF ReadResponse, TypeOK
  <2> QED BY <1>13, <2>2, <2>3 DEF ReadResponse, TypeOK
<1>14. ASSUME NEW m \in Messages, ReadFails(m) PROVE TypeOK'
  BY <1>2, <1>14 DEF ReadFails, TypeOK
<1>15. ASSUME NEW m \in Messages, Commit(m) PROVE TypeOK'
  BY <1>2, <1>15 DEF Commit, TypeOK
<1>16. CASE ServerNext
  BY <1>1, <1>16, MasterType DEF ServerNext, TypeOK, subscriberVars
<1>17. CASE Crash BY <1>3, <1>4, <1>17 DEF Crash
<1>18. ASSUME NEW m \in Messages, CommitThrows(m) PROVE TypeOK'
  BY <1>3, <1>4, <1>18 DEF CommitThrows
<1>19. CASE ConnectionBreaks
  <2>1. MasterTypeOK' BY <1>1, <1>19, LinkType DEF ConnectionBreaks
  <2> QED BY <1>4, <1>19, <2>1 DEF ConnectionBreaks, TypeOK, subscriberVars
<1>20. CASE ConsumerFails
  BY <1>2, <1>4, <1>20 DEF ConsumerFails, TypeOK
<1>21. CASE UNCHANGED vars
  BY <1>2, <1>21 DEF vars, subscriberVars, TypeOK
<1> QED BY <1>5, <1>6, <1>8, <1>9, <1>10, <1>11, <1>12, <1>13, <1>14, <1>15, <1>16,
           <1>17, <1>18, <1>19, <1>20, <1>21
       DEF Next, SubscriberNext, HandlerNext, FaultNext

\* A batch lies behind the position, and there is none before Subscribe.
LEMMA BatchStep ==
    TypeInv /\ [Next]_vars =>
      batch' <= position' /\ (sub' \in {"down", "connecting"} => batch' = 0)
<1> SUFFICES ASSUME TypeInv, [Next]_vars
             PROVE  batch' <= position' /\ (sub' \in {"down", "connecting"} => batch' = 0)
  OBVIOUS
<1> USE MasterNodeAssumption, ForwardingAssumption DEF TypeInv, TypeOK
<1>1. CASE UNCHANGED <<sub, position, batch>> BY <1>1
<1>2. ASSUME Subscribe, batch = 0 PROVE batch' <= position' /\ sub' = "running"
  BY <1>2 DEF Subscribe, NoOffset
<1>3. CASE Produce \/ ServerNext \/ ConnectionBreaks \/ UNCHANGED vars
  BY <1>1, <1>3 DEF Produce, ServerNext, ConnectionBreaks, vars, subscriberVars
<1>4. CASE \E key \in {Key, WrongKey} : Connect(key)
  BY <1>4 DEF Connect
<1>5. CASE KeyAnswered \/ ConnectFails
  BY <1>2, <1>5 DEF KeyAnswered, ConnectFails
<1>6. CASE Consume BY <1>6 DEF Consume
<1>7. CASE BatchFails \/ OnNext \/ ConsumerFails
  BY <1>7 DEF BatchFails, OnNext, ConsumerFails
<1>8. CASE \E m \in Messages : HandlerNext(m)
  BY <1>1, <1>8 DEF HandlerNext, ReadResponse, ReadFails, Commit
<1>9. CASE Crash \/ \E m \in Messages : CommitThrows(m)
  BY <1>9 DEF Crash, CommitThrows, Die
<1> QED BY <1>3, <1>4, <1>5, <1>6, <1>7, <1>8, <1>9 DEF Next, SubscriberNext, FaultNext

\* Type correctness of subscriber and MasterNode.
THEOREM TypeCorrect == SafetySpec => []TypeOK
<1>1. TypeInv /\ [Next]_vars => TypeInv'
  BY TypeStep, BatchStep DEF TypeInv
<1>2. TypeInv => TypeOK BY DEF TypeInv
<1> QED BY InitType, <1>1, <1>2, PTL DEF SafetySpec

------------------------------------------------------------------------------
(* Offsets                                                                 *)

\* While the consumer is open, it is not behind what the group committed, and
\* neither is ahead of the topic.
OffsetInv ==
    /\ committed <= produced
    /\ position <= produced
    /\ sub = "running" => committed <= position

\* Every step keeps the offsets in order, and none takes back a commit.
LEMMA OffsetStep ==
    TypeInv /\ OffsetInv /\ [Next]_vars => OffsetInv' /\ committed' >= committed
<1> SUFFICES ASSUME TypeInv, OffsetInv, [Next]_vars
             PROVE  OffsetInv' /\ committed' >= committed
  OBVIOUS
<1> USE MasterNodeAssumption, ForwardingAssumption DEF TypeInv, TypeOK, OffsetInv, NoOffset
<1>1. CASE UNCHANGED <<produced, committed, sub, position>> BY <1>1
<1>2. CASE Produce BY <1>2 DEF Produce, subscriberVars
<1>3. CASE \E key \in {Key, WrongKey} : Connect(key) BY <1>3 DEF Connect
<1>4. CASE KeyAnswered \/ ConnectFails
  <2>1. Subscribe BY <1>4 DEF KeyAnswered, ConnectFails
  <2>2. UNCHANGED <<produced, committed>> /\ sub' = "running" BY <2>1 DEF Subscribe
  <2>3. (position' = produced /\ committed = -1) \/ position' = committed
    BY <2>1 DEF Subscribe
  <2>4. produced \in Nat /\ (committed \in Nat \/ committed = -1)
    BY DEF TypeOK
  <2> QED BY <2>2, <2>3, <2>4
<1>5. CASE Consume BY <1>5 DEF Consume
<1>6. CASE BatchFails \/ OnNext \/ ConsumerFails
  BY <1>6 DEF BatchFails, OnNext, ConsumerFails
<1>7. ASSUME NEW m \in Messages, ReadResponse(m) \/ ReadFails(m) PROVE OffsetInv' /\ committed' >= committed
  BY <1>1, <1>7 DEF ReadResponse, ReadFails
<1>8. ASSUME NEW m \in Messages, Commit(m) PROVE OffsetInv' /\ committed' >= committed
  BY <1>8 DEF Commit
<1>9. CASE Crash \/ \E m \in Messages : CommitThrows(m)
  BY <1>9 DEF Crash, CommitThrows, Die
<1>10. CASE ServerNext \/ ConnectionBreaks \/ UNCHANGED vars
  BY <1>1, <1>10 DEF ServerNext, ConnectionBreaks, vars, subscriberVars
<1> QED BY <1>2, <1>3, <1>4, <1>5, <1>6, <1>7, <1>8, <1>9, <1>10
       DEF Next, SubscriberNext, HandlerNext, FaultNext

\* A commit is never taken back, whatever the order in which the handlers of
\* srv_sub finish, and across restarts (KafkaConsumeRx.cs:64).
THEOREM CommitsMonotone == SafetySpec => CommittedNeverBack
<1>1. Init => TypeInv /\ OffsetInv
  BY InitType DEF Init, OffsetInv, NoOffset
<1>2. TypeInv /\ OffsetInv /\ [Next]_vars => (TypeInv /\ OffsetInv)'
  BY TypeStep, BatchStep, OffsetStep DEF TypeInv
<1>3. TypeInv /\ OffsetInv /\ [Next]_vars => [committed' >= committed]_committed
  BY OffsetStep
<1> QED BY <1>1, <1>2, <1>3, PTL DEF SafetySpec, CommittedNeverBack

------------------------------------------------------------------------------
(* Authentication.  Until the handler is authenticated, the only replies    *)
(* under way are rejections, so a subscriber that read another one, or none *)
(* because the connection broke, may write: the connection accepts it, or   *)
(* is gone.                                                                 *)

AuthInv ==
    /\ OnlyAuthenticatedWrite
    /\ actor # "authenticated" => pending = NoneReplying
    /\ actor # "authenticated" => \A i \in 1..Len(toClient) : toClient[i] = "Invalid API Key"
    /\ toClient # << >> => actor \in {"authenticated", "closed"}
    /\ sub = "down" => ~open
    /\ sub = "running" /\ checkApiKey /\ open => actor = "authenticated"
    /\ ~open => actor = "none"

\* The initial state has neither connection nor traffic.
LEMMA AuthInit == Init => AuthInv
BY DEF Init, MasterInit, AuthInv, OnlyAuthenticatedWrite

\* MasterNode's actors answer nothing but a rejection before they authenticate.
LEMMA AuthMaster ==
    ASSUME MasterTypeOK, AuthInv, MasterNext, UNCHANGED <<sub, checkApiKey>>
    PROVE  AuthInv'
<1>1. toServer \in Seq(Wire) /\ toClient \in Seq(Replies)
  BY DEF MasterTypeOK, Wire
<1>2. CASE ReceiveKey
  <2>1. \A i \in 1..Len(toServer) : toServer[i] \notin Messages
    BY <1>2 DEF ReceiveKey, AuthInv, OnlyAuthenticatedWrite
  <2>2. /\ toServer' = Tail(toServer)
        /\ \A i \in 1..Len(toServer') : toServer'[i] = toServer[i + 1]
        /\ Len(toServer') = Len(toServer) - 1
    BY <1>1, <1>2, TailOf DEF ReceiveKey
  <2>3. \A i \in 1..Len(toServer') : i + 1 \in 1..Len(toServer)
    BY <1>1, <2>2
  <2>4. \A i \in 1..Len(toServer') : toServer'[i] \notin Messages
    BY <2>1, <2>2, <2>3
  <2>5. actor # "authenticated" /\ actor' # "authenticated" /\ toClient = << >>
    BY <1>2 DEF ReceiveKey, AuthInv
  <2>6. actor # "none" /\ actor' # "none" BY <1>2 DEF ReceiveKey
  <2> QED BY <1>2, <2>4, <2>5, <2>6 DEF ReceiveKey, AuthInv, OnlyAuthenticatedWrite
<1>3. CASE Authenticated
  BY <1>3 DEF Authenticated, AuthInv, OnlyAuthenticatedWrite
<1>4. CASE Rejected
  <2>1. toClient = << >> BY <1>4 DEF Rejected, AuthInv
  <2>2. /\ toClient' = Append(toClient, "Invalid API Key")
        /\ "Invalid API Key" \in Replies
    BY <1>4 DEF Rejected, Replies
  <2>3. \A i \in 1..Len(toClient') : toClient'[i] = "Invalid API Key"
    <3>1. Len(toClient) = 0 BY <2>1
    <3>2. Len(toClient') = Len(toClient) + 1
      BY <1>1, <2>2, AppendIn
    <3>3. toClient'[Len(toClient) + 1] = "Invalid API Key"
      BY <1>1, <2>2, AppendIn
    <3>4. \A i \in 1..Len(toClient') : i = Len(toClient) + 1 BY <3>1, <3>2
    <3> QED BY <3>3, <3>4
  <2>4. pending = NoneReplying BY <1>4 DEF Rejected, AuthInv
  <2>5. open /\ sub # "down" BY <1>4 DEF Rejected, AuthInv
  <2>6. ~(sub = "running" /\ checkApiKey) BY <1>4, <2>5 DEF Rejected, AuthInv
  <2> QED BY <1>4, <2>3, <2>4, <2>5, <2>6 DEF Rejected, AuthInv, OnlyAuthenticatedWrite
<1>5. CASE ReceiveData
  BY <1>5 DEF ReceiveData, AuthInv, OnlyAuthenticatedWrite
<1>6. CASE ReceiveInitialData
  BY <1>6 DEF ReceiveInitialData, AuthInv, OnlyAuthenticatedWrite
<1>7. ASSUME NEW r \in Results, WriteResult(r) PROVE AuthInv'
  <2>1. ASSUME pending = NoneReplying PROVE FALSE
    BY <1>7, <2>1 DEF WriteResult, NoneReplying
  <2>2. actor = "authenticated" BY <2>1 DEF AuthInv
  <2> QED BY <1>7, <2>2 DEF WriteResult, AuthInv, OnlyAuthenticatedWrite
<1> QED BY <1>2, <1>3, <1>4, <1>5, <1>6, <1>7 DEF MasterNext

\* Reading replies leaves only replies that were there.
LEMMA AuthRead ==
    ASSUME MasterTypeOK, AuthInv, NEW k \in 1..Len(toClient), Read(k)
    PROVE  /\ UNCHANGED <<open, toServer, actor, pending>>
           /\ actor \in {"authenticated", "closed"}
           /\ actor # "authenticated" => toClient[1] = "Invalid API Key"
           /\ actor # "authenticated" =>
                \A i \in 1..Len(toClient') : toClient'[i] = "Invalid API Key"
<1>1. toClient \in Seq(Replies) BY DEF MasterTypeOK
<1>2. UNCHANGED <<open, toServer, actor, pending>> BY DEF Read
<1>3. toClient # << >> /\ 1 \in 1..Len(toClient) BY <1>1
<1>4. /\ Len(toClient') = Len(toClient) - k
      /\ \A i \in 1..(Len(toClient) - k) : toClient'[i] = toClient[k + i]
  BY <1>1, RestOf DEF Read
<1>5. Len(toClient) \in Nat BY <1>1
<1>6. \A i \in 1..Len(toClient') : k + i \in 1..Len(toClient) BY <1>4, <1>5
<1>7. \A i \in 1..Len(toClient') : toClient'[i] = toClient[k + i] BY <1>4
<1>8. actor \in {"authenticated", "closed"} BY <1>3 DEF AuthInv
<1>9. actor # "authenticated" => \A i \in 1..Len(toClient) : toClient[i] = "Invalid API Key"
  BY DEF AuthInv
<1> QED BY <1>2, <1>3, <1>6, <1>7, <1>8, <1>9

\* Every step keeps the invariant.
LEMMA AuthStep == TypeOK /\ AuthInv /\ [Next]_vars => AuthInv'
<1> SUFFICES ASSUME TypeOK, AuthInv, [Next]_vars PROVE AuthInv' OBVIOUS
<1>1. MasterTypeOK BY DEF TypeOK
<1>2. toServer \in Seq(Wire) BY <1>1 DEF MasterTypeOK, Wire
<1>3. ASSUME UNCHANGED masterVars, UNCHANGED sub \/ sub' = "stopped", UNCHANGED checkApiKey
      PROVE  AuthInv'
  BY <1>3 DEF masterVars, AuthInv, OnlyAuthenticatedWrite
<1>4. ASSUME Disconnect, UNCHANGED <<sub, checkApiKey>> \/ sub' = "down" PROVE AuthInv'
  <2>1. ~open' /\ actor' = "none" /\ pending' = NoneReplying BY <1>4 DEF Disconnect
  <2>2. toServer' = << >> /\ toClient' = << >> BY <1>4 DEF Disconnect
  <2>3. \A i \in 1..Len(toServer') : FALSE BY <2>2
  <2>4. \A i \in 1..Len(toClient') : FALSE BY <2>2
  <2> QED BY <2>1, <2>2, <2>3, <2>4 DEF AuthInv, OnlyAuthenticatedWrite
<1>5. ASSUME NEW key \in {Key, WrongKey}, Connect(key) PROVE AuthInv'
  <2>1. toServer' = <<key>> /\ key \notin Messages
    BY <1>5, MasterNodeAssumption DEF Connect, Accept, Key, WrongKey, Messages
  <2>2. \A i \in 1..Len(toServer') : toServer'[i] \notin Messages BY <2>1
  <2>3. toClient' = << >> /\ \A i \in 1..Len(toClient') : FALSE
    BY <1>5 DEF Connect, Accept
  <2>4. pending' = NoneReplying /\ open' /\ sub' = "connecting" BY <1>5 DEF Connect, Accept
  <2>5. Messages' = Messages BY DEF Messages
  <2> QED BY <2>2, <2>3, <2>4, <2>5 DEF AuthInv, OnlyAuthenticatedWrite
<1>6. CASE KeyAnswered
  <2>1. PICK k \in 1..Len(toClient) :
          Read(k) /\ checkApiKey' = (\A i \in 1..k : toClient[i] # "Invalid API Key")
    BY <1>6 DEF KeyAnswered
  <2>2. actor # "authenticated" => ~checkApiKey'
    <3>1. Len(toClient) \in Nat BY <1>1 DEF MasterTypeOK
    <3>2. k \in Nat \ {0} BY <3>1
    <3>3. 1 \in 1..k BY <3>2
    <3>4. actor # "authenticated" => toClient[1] = "Invalid API Key" BY <1>1, <2>1, AuthRead
    <3> QED BY <2>1, <3>3, <3>4
  <2>3. sub' = "running" BY <1>6 DEF KeyAnswered, Subscribe
  <2> QED BY <1>1, <2>1, <2>2, <2>3, AuthRead DEF AuthInv, OnlyAuthenticatedWrite
<1>7. CASE ConnectFails
  <2>1. ~open /\ UNCHANGED masterVars BY <1>7 DEF ConnectFails, AuthInv
  <2>2. sub' = "running" BY <1>7 DEF ConnectFails, Subscribe
  <2> QED BY <2>1, <2>2 DEF masterVars, AuthInv, OnlyAuthenticatedWrite
<1>8. CASE OnNext
  <2>1. CASE checkApiKey /\ Send(position)
    <3>1. actor = "authenticated" BY <1>8, <2>1 DEF OnNext, Send, AuthInv
    <3> QED BY <1>8, <2>1, <3>1 DEF OnNext, Send, AuthInv, OnlyAuthenticatedWrite
  <2>2. CASE UNCHANGED masterVars BY <1>3, <1>8, <2>2 DEF OnNext
  <2> QED BY <1>8, <2>1, <2>2 DEF OnNext
<1>9. ASSUME NEW m \in Messages, ReadResponse(m) PROVE AuthInv'
  <2>1. PICK k \in 1..Len(toClient) : Read(k) BY <1>9 DEF ReadResponse
  <2>2. UNCHANGED <<sub, checkApiKey>> BY <1>9 DEF ReadResponse
  <2> QED BY <1>1, <2>1, <2>2, AuthRead DEF AuthInv, OnlyAuthenticatedWrite
<1>10. CASE Produce \/ Consume \/ BatchFails \/ ConsumerFails \/ UNCHANGED vars
  BY <1>3, <1>10 DEF Produce, Consume, BatchFails, ConsumerFails, vars, subscriberVars
<1>11. ASSUME NEW m \in Messages, ReadFails(m) \/ Commit(m) PROVE AuthInv'
  BY <1>3, <1>11 DEF ReadFails, Commit
<1>12. CASE Crash \/ ConnectionBreaks \/ \E m \in Messages : CommitThrows(m)
  BY <1>4, <1>12 DEF Crash, ConnectionBreaks, CommitThrows, Die, subscriberVars
<1>13. CASE ServerNext
  BY <1>1, <1>13, AuthMaster DEF ServerNext, subscriberVars
<1> QED BY <1>5, <1>6, <1>7, <1>8, <1>9, <1>10, <1>11, <1>12, <1>13
       DEF Next, SubscriberNext, HandlerNext, FaultNext

\* Messages reach MasterNode over authenticated connections only, for every
\* interleaving of faults, restarts and responses (ConnectionHandler.cs:30-44,
\* ExTcpClient.cs:52-76).
THEOREM AuthenticatedOnly == SafetySpec => []OnlyAuthenticatedWrite
<1>1. Init => TypeInv /\ AuthInv BY InitType, AuthInit
<1>2. TypeInv /\ AuthInv /\ [Next]_vars => (TypeInv /\ AuthInv)'
  BY TypeStep, BatchStep, AuthStep DEF TypeInv
<1>3. AuthInv => OnlyAuthenticatedWrite BY DEF AuthInv
<1> QED BY <1>1, <1>2, <1>3, PTL DEF SafetySpec

------------------------------------------------------------------------------
(* One "Ok" for each commit.  An accepted chunk is with the answer of its   *)
(* MongoDBActor, then among the replies to the client, then with the        *)
(* handler that read it, and last with that handler's commit.               *)

\* Where the replies have an "Ok".
OkPlaces(q) == {i \in 1..Len(q) : q[i] = "Ok"}

Committing == {m \in Messages : handler[m] = "committing"}

\* CommitsBacked is not inductive: what answers, replies and handlers hold
\* between the acceptance and the commit is counted too.
OksCounted ==
    commits + Cardinality(Committing) + Cardinality(OkPlaces(toClient)) + pending["Ok"] <= oks

\* The places of a sequence are finitely many.
LEMMA PlacesFinite ==
    ASSUME NEW S, NEW q \in Seq(S)
    PROVE  IsFiniteSet(OkPlaces(q)) /\ Cardinality(OkPlaces(q)) \in Nat
<1>1. Len(q) \in Int OBVIOUS
<1>2. IsFiniteSet(1..Len(q)) BY <1>1, FS_Interval
<1>3. OkPlaces(q) \in SUBSET (1..Len(q)) BY DEF OkPlaces
<1>4. IsFiniteSet(OkPlaces(q)) BY <1>2, <1>3, FS_Subset
<1> QED BY <1>4, FS_CardinalityType

\* So are the handlers that commit.
LEMMA CommittingFinite == IsFiniteSet(Committing) /\ Cardinality(Committing) \in Nat
<1>1. IsFiniteSet(1..MaxOffset) BY MasterNodeAssumption, FS_Interval
<1>2. Committing \in SUBSET (1..MaxOffset) BY DEF Committing, Messages
<1>3. IsFiniteSet(Committing) BY <1>1, <1>2, FS_Subset
<1> QED BY <1>3, FS_CardinalityType

\* A reply at the end adds a place if it is an "Ok".
LEMMA PlacesAppend ==
    ASSUME NEW S, NEW q \in Seq(S), NEW e \in S
    PROVE  /\ e = "Ok" => Cardinality(OkPlaces(Append(q, e))) = Cardinality(OkPlaces(q)) + 1
           /\ e # "Ok" => Cardinality(OkPlaces(Append(q, e))) = Cardinality(OkPlaces(q))
<1> DEFINE p == Append(q, e)
           n == Len(q)
<1>1. n \in Nat /\ Len(p) = n + 1 OBVIOUS
<1>2. (\A i \in 1..n : p[i] = q[i]) /\ p[n + 1] = e BY AppendIn
<1>3. IsFiniteSet(OkPlaces(q)) BY PlacesFinite
<1>4. OkPlaces(q) = {i \in 1..n : q[i] = "Ok"} BY DEF OkPlaces
<1>5. OkPlaces(p) = {i \in 1..Len(p) : p[i] = "Ok"} BY DEF OkPlaces
<1> HIDE DEF p, n
<1>6. e # "Ok" => OkPlaces(p) = OkPlaces(q) BY <1>1, <1>2, <1>4, <1>5
<1>7. e = "Ok" => OkPlaces(p) = OkPlaces(q) \union {n + 1} BY <1>1, <1>2, <1>4, <1>5
<1>8. n + 1 \notin OkPlaces(q) BY <1>1, <1>4
<1>9. Cardinality(OkPlaces(q) \union {n + 1}) = Cardinality(OkPlaces(q)) + 1
  BY <1>3, <1>8, FS_AddElement
<1> QED BY <1>6, <1>7, <1>9 DEF p

\* Reading leaves no more places than there were, and fewer if it read an "Ok".
LEMMA PlacesRest ==
    ASSUME NEW S, NEW q \in Seq(S), NEW k \in 1..Len(q)
    PROVE  LET p == SubSeq(q, k + 1, Len(q))
           IN  /\ Cardinality(OkPlaces(p)) <= Cardinality(OkPlaces(q))
               /\ (\E i \in 1..k : q[i] = "Ok") =>
                    Cardinality(OkPlaces(p)) + 1 <= Cardinality(OkPlaces(q))
<1> DEFINE p == SubSeq(q, k + 1, Len(q))
           T == {j \in OkPlaces(q) : k < j}
           g == [i \in OkPlaces(p) |-> k + i]
<1>1. Len(q) \in Nat /\ k \in Nat OBVIOUS
<1>2. /\ p \in Seq(S) /\ Len(p) = Len(q) - k
      /\ \A i \in 1..(Len(q) - k) : p[i] = q[k + i]
  BY RestOf
<1>3. /\ IsFiniteSet(OkPlaces(q)) /\ Cardinality(OkPlaces(q)) \in Nat
      /\ IsFiniteSet(OkPlaces(p)) /\ Cardinality(OkPlaces(p)) \in Nat
  BY <1>2, PlacesFinite
<1>4. T \in SUBSET OkPlaces(q) OBVIOUS
<1>5. IsFiniteSet(T) /\ Cardinality(T) <= Cardinality(OkPlaces(q)) /\ Cardinality(T) \in Nat
      /\ (Cardinality(OkPlaces(q)) = Cardinality(T) => OkPlaces(q) = T)
  BY <1>3, <1>4, FS_Subset, FS_CardinalityType
<1>6. OkPlaces(p) = {i \in 1..(Len(q) - k) : q[k + i] = "Ok"} BY <1>2 DEF OkPlaces
<1>7. \A i \in OkPlaces(p) : i \in Nat /\ k + i \in T
  <2> SUFFICES ASSUME NEW i \in OkPlaces(p) PROVE i \in Nat /\ k + i \in T
    OBVIOUS
  <2> HIDE DEF p
  <2>1. i \in 1..(Len(q) - k) /\ q[k + i] = "Ok" BY <1>6
  <2>2. k + i \in 1..Len(q) /\ k < k + i BY <1>1, <2>1
  <2> QED BY <2>1, <2>2 DEF OkPlaces
<1> HIDE DEF p, T
<1>8. g \in Injection(OkPlaces(p), T)
  <2>1. g \in [OkPlaces(p) -> T] BY <1>7
  <2>2. \A a, b \in OkPlaces(p) : g[a] = g[b] => a = b BY <1>1, <1>7
  <2>3. DOMAIN g = OkPlaces(p) OBVIOUS
  <2> HIDE DEF g
  <2>4. IsInjective(g) BY <2>2, <2>3 DEF IsInjective
  <2> QED BY <2>1, <2>4 DEF Injection
<1> HIDE DEF g
<1>9. Cardinality(OkPlaces(p)) <= Cardinality(T) BY <1>5, <1>8, FS_Injection
<1>10. ASSUME NEW i \in 1..k, q[i] = "Ok"
       PROVE  Cardinality(OkPlaces(p)) + 1 <= Cardinality(OkPlaces(q))
  <2>1. i \in OkPlaces(q) BY <1>1, <1>10 DEF OkPlaces
  <2>2. i \notin T BY <1>1 DEF T
  <2> QED BY <1>3, <1>5, <1>9, <2>1, <2>2
<1>11. Cardinality(OkPlaces(p)) <= Cardinality(OkPlaces(q)) BY <1>3, <1>5, <1>9
<1> QED BY <1>10, <1>11 DEF p

\* A handler that begins to commit, one that has done so, and the others.
LEMMA CommittingChange ==
    ASSUME TypeOK, NEW m \in Messages,
           NEW v \in {"none", "reading", "committing"}, handler' = [handler EXCEPT ![m] = v]
    PROVE  /\ v = "committing" =>
                Cardinality(Committing') <= Cardinality(Committing) + 1
           /\ v # "committing" =>
                Cardinality(Committing') <= Cardinality(Committing)
           /\ handler[m] = "committing" /\ v # "committing" =>
                Cardinality(Committing') + 1 <= Cardinality(Committing)
<1>1. handler \in [Messages -> {"none", "reading", "committing"}] BY DEF TypeOK
<1>2. handler'[m] = v /\ \A n \in Messages : n # m => handler'[n] = handler[n] BY <1>1
<1>3. v = "committing" => Committing' = Committing \union {m}
  BY <1>2 DEF Committing, Messages
<1>4. v # "committing" => Committing' = Committing \ {m}
  BY <1>2 DEF Committing, Messages
<1>5. handler[m] = "committing" <=> m \in Committing BY DEF Committing
<1>6. IsFiniteSet(Committing) /\ Cardinality(Committing) \in Nat BY CommittingFinite
<1>7. Cardinality(Committing \union {m})
        = IF m \in Committing THEN Cardinality(Committing) ELSE Cardinality(Committing) + 1
  BY <1>6, FS_AddElement
<1>8. Cardinality(Committing \ {m})
        = IF m \in Committing THEN Cardinality(Committing) - 1 ELSE Cardinality(Committing)
  BY <1>6, FS_RemoveElement
<1>9. CASE v = "committing"
  <2>1. Cardinality(Committing') = Cardinality(Committing \union {m}) BY <1>3, <1>9
  <2>2. Cardinality(Committing \union {m}) <= Cardinality(Committing) + 1
    BY <1>6, <1>7
  <2> QED BY <1>9, <2>1, <2>2
<1>10. CASE v # "committing"
  <2>1. Cardinality(Committing') = Cardinality(Committing \ {m}) BY <1>4, <1>10
  <2>2. Cardinality(Committing \ {m}) <= Cardinality(Committing) BY <1>6, <1>8
  <2>3. m \in Committing => Cardinality(Committing \ {m}) + 1 <= Cardinality(Committing)
    BY <1>6, <1>8
  <2> QED BY <1>5, <1>10, <2>1, <2>2, <2>3
<1> QED BY <1>9, <1>10

\* Initially nothing is accepted, under way or committed.
LEMMA InitOks == Init => OksCounted
<1> SUFFICES ASSUME Init PROVE OksCounted OBVIOUS
<1>1. toClient = << >> /\ commits = 0 /\ oks = 0 /\ pending["Ok"] = 0
  BY DEF Init, MasterInit, NoneReplying, Results
<1>2. OkPlaces(toClient) = {} BY <1>1 DEF OkPlaces
<1>3. Committing = {} BY DEF Init, Idle, Committing
<1>4. Cardinality({}) = 0 BY FS_EmptySet
<1> QED BY <1>1, <1>2, <1>3, <1>4 DEF OksCounted

\* What the parts count are naturals.
LEMMA OksTypes ==
    ASSUME TypeOK
    PROVE  /\ commits \in Nat /\ oks \in Nat /\ pending \in [Results -> Nat]
           /\ pending["Ok"] \in Nat
           /\ Cardinality(Committing) \in Nat
           /\ toClient \in Seq(Replies)
           /\ Cardinality(OkPlaces(toClient)) \in Nat
<1>1. commits \in Nat /\ oks \in Nat /\ pending \in [Results -> Nat]
  BY DEF TypeOK, MasterTypeOK
<1>2. toClient \in Seq(Replies) BY DEF TypeOK, MasterTypeOK
<1> QED BY <1>1, <1>2, CommittingFinite, PlacesFinite DEF Results

\* A connection that begins or ends leaves nothing under way.
LEMMA EmptyOks ==
    ASSUME TypeOK, OksCounted, toClient' = << >>, pending' = NoneReplying,
           UNCHANGED <<oks, commits>>, handler' = handler \/ handler' = Idle
    PROVE  OksCounted'
<1>0. Cardinality(Committing) \in Nat BY OksTypes
<1>1. OkPlaces(toClient') = {} /\ pending'["Ok"] = 0
  <2>1. Len(<< >>) = 0 /\ 1..0 = {} OBVIOUS
  <2>2. OkPlaces(<< >>) = {} BY <2>1 DEF OkPlaces
  <2> QED BY <2>2 DEF NoneReplying, Results
<1>2. Cardinality({}) = 0 BY FS_EmptySet
<1>3. handler' = handler => Committing' = Committing BY DEF Committing, Messages
<1>4. handler' = Idle => Committing' = {} BY DEF Committing, Messages, Idle
<1>5. Cardinality(Committing') <= Cardinality(Committing)
  <2>1. CASE handler' = handler
    <3>1. Cardinality(Committing') = Cardinality(Committing) BY <1>3, <2>1
    <3> QED BY <1>0, <3>1
  <2>2. CASE handler' = Idle
    <3>1. Cardinality(Committing') = 0 BY <1>2, <1>4, <2>2
    <3> QED BY <1>0, <3>1
  <2> QED BY <2>1, <2>2
<1>6. OkPlaces(toClient)' = OkPlaces(toClient') BY DEF OkPlaces
<1>7. Cardinality(Committing') \in Nat
  <2>1. CASE handler' = handler BY <1>0, <1>3, <2>1
  <2>2. CASE handler' = Idle
    <3>1. Cardinality(Committing') = 0 BY <1>2, <1>4, <2>2
    <3> QED BY <3>1
  <2> QED BY <2>1, <2>2
<1>8. Cardinality(OkPlaces(toClient)') = 0 BY <1>1, <1>2, <1>6
<1>9. /\ commits \in Nat /\ oks \in Nat /\ pending["Ok"] \in Nat
      /\ Cardinality(OkPlaces(toClient)) \in Nat
  BY OksTypes
<1>10. commits + Cardinality(Committing) + Cardinality(OkPlaces(toClient)) + pending["Ok"] <= oks
  BY DEF OksCounted
<1> QED BY <1>0, <1>1, <1>5, <1>7, <1>8, <1>9, <1>10 DEF OksCounted

\* MasterNode's actors pass every "Ok" on once.
LEMMA MasterOks ==
    ASSUME TypeOK, OksCounted, MasterNext, UNCHANGED <<commits, handler>>
    PROVE  OksCounted'
<1>1. Committing' = Committing BY DEF Committing, Messages
<1>2. OkPlaces(toClient)' = OkPlaces(toClient') BY DEF OkPlaces
<1>3. CASE ReceiveKey
  BY <1>1, <1>3 DEF ReceiveKey, OksCounted, OkPlaces
<1>4. CASE Authenticated \/ Rejected
  <2>1. PICK e \in Replies : e # "Ok" /\ toClient' = Append(toClient, e)
    BY <1>4 DEF Authenticated, Rejected, Replies
  <2>2. Cardinality(OkPlaces(toClient')) = Cardinality(OkPlaces(toClient))
    BY <2>1, OksTypes, PlacesAppend
  <2>3. UNCHANGED <<pending, oks>> BY <1>4 DEF Authenticated, Rejected
  <2> QED BY <1>1, <1>2, <2>2, <2>3 DEF OksCounted
<1>5. ASSUME NEW chunk, Ask(chunk), UNCHANGED toClient PROVE OksCounted'
  <2>1. OkPlaces(toClient)' = OkPlaces(toClient) BY <1>5 DEF OkPlaces
  <2>2. Answer(chunk) \in {"Ok", "Write operation failed"} BY DEF Answer
  <2>3. /\ Answer(chunk) = "Ok" => pending'["Ok"] = pending["Ok"] + 1 /\ oks' = oks + 1
        /\ Answer(chunk) # "Ok" => pending'["Ok"] = pending["Ok"] /\ oks' = oks
    BY <1>5, <2>2, OksTypes DEF Ask, Results
  <2> QED BY <1>1, <2>1, <2>3, OksTypes DEF OksCounted
<1>6. CASE ReceiveData BY <1>5, <1>6 DEF ReceiveData
<1>7. CASE ReceiveInitialData BY <1>5, <1>7 DEF ReceiveInitialData
<1>8. ASSUME NEW r \in Results, WriteResult(r) PROVE OksCounted'
  <2>1. toClient' = Append(toClient, r) /\ r \in Replies /\ UNCHANGED oks
    BY <1>8 DEF WriteResult, Replies
  <2>2. /\ r = "Ok" => Cardinality(OkPlaces(toClient')) = Cardinality(OkPlaces(toClient)) + 1
        /\ r # "Ok" => Cardinality(OkPlaces(toClient')) = Cardinality(OkPlaces(toClient))
    BY <2>1, OksTypes, PlacesAppend
  <2>3. /\ r = "Ok" => pending'["Ok"] = pending["Ok"] - 1
        /\ r # "Ok" => pending'["Ok"] = pending["Ok"]
    BY <1>8, OksTypes DEF WriteResult, Results
  <2> QED BY <1>1, <1>2, <2>1, <2>2, <2>3, OksTypes DEF OksCounted
<1> QED BY <1>3, <1>4, <1>6, <1>7, <1>8 DEF MasterNext

\* Every step keeps the count.
LEMMA OksStep == TypeInv /\ OksCounted /\ [Next]_vars => OksCounted'
<1> SUFFICES ASSUME TypeOK, OksCounted, [Next]_vars PROVE OksCounted' BY DEF TypeInv
<1>1. /\ commits \in Nat /\ oks \in Nat /\ pending["Ok"] \in Nat
      /\ Cardinality(Committing) \in Nat /\ toClient \in Seq(Replies)
      /\ Cardinality(OkPlaces(toClient)) \in Nat
  BY OksTypes
<1>2. IsFiniteSet(Committing') /\ Cardinality(Committing') \in Nat
  <2>1. IsFiniteSet(1..MaxOffset) BY MasterNodeAssumption, FS_Interval
  <2>2. Committing' \in SUBSET (1..MaxOffset) BY DEF Committing, Messages
  <2>3. IsFiniteSet(Committing') BY <2>1, <2>2, FS_Subset
  <2> QED BY <2>3, FS_CardinalityType
<1>3. OkPlaces(toClient)' = OkPlaces(toClient') BY DEF OkPlaces
<1>4. UNCHANGED handler => Committing' = Committing BY DEF Committing, Messages
<1>5. ASSUME UNCHANGED <<toClient, pending, oks, commits>>,
             Cardinality(Committing') <= Cardinality(Committing)
      PROVE  OksCounted'
  BY <1>1, <1>2, <1>3, <1>5 DEF OksCounted
<1>6. CASE Produce \/ Consume \/ BatchFails \/ ConsumerFails \/ ConnectFails \/ UNCHANGED vars
  <2>1. UNCHANGED <<toClient, pending, oks, commits, handler>>
    BY <1>6 DEF Produce, Consume, BatchFails, ConsumerFails, ConnectFails, Subscribe, vars,
       masterVars, subscriberVars
  <2> QED BY <1>1, <1>4, <1>5, <2>1
<1>7. ASSUME NEW key \in {Key, WrongKey}, Connect(key) PROVE OksCounted'
  BY <1>7, EmptyOks DEF Connect, Accept
<1>8. CASE KeyAnswered
  <2>1. PICK k \in 1..Len(toClient) : Read(k) BY <1>8 DEF KeyAnswered
  <2>2. UNCHANGED <<pending, oks, commits, handler>>
    BY <1>8, <2>1 DEF KeyAnswered, Read, Subscribe
  <2>3. Cardinality(OkPlaces(toClient')) <= Cardinality(OkPlaces(toClient))
    BY <1>1, <2>1, PlacesRest DEF Read
  <2>4. Cardinality(OkPlaces(toClient')) \in Nat
    <3>1. toClient' \in Seq(Replies) BY <1>1, <2>1, RestOf DEF Read
    <3> QED BY <3>1, PlacesFinite
  <2> QED BY <1>1, <1>3, <1>4, <2>2, <2>3, <2>4 DEF OksCounted
<1>9. CASE OnNext
  <2>1. CASE Send(position) /\ handler' = [handler EXCEPT ![position] = "reading"]
    <3>1. UNCHANGED <<toClient, pending, oks, commits>> BY <1>9, <2>1 DEF OnNext, Send
    <3>2. CASE position \in Messages
      BY <1>5, <2>1, <3>1, <3>2, CommittingChange
    <3>3. CASE position \notin Messages
      <4>1. handler' = handler BY <2>1, <3>3 DEF TypeOK
      <4> QED BY <1>1, <1>4, <1>5, <3>1, <4>1
    <3> QED BY <3>2, <3>3
  <2>2. CASE UNCHANGED <<masterVars, handler>>
    <3>1. UNCHANGED <<toClient, pending, oks, commits, handler>>
      BY <1>9, <2>2 DEF OnNext, masterVars
    <3> QED BY <1>1, <1>4, <1>5, <3>1
  <2> QED BY <1>9, <2>1, <2>2 DEF OnNext
<1>10. ASSUME NEW m \in Messages, ReadResponse(m) PROVE OksCounted'
  <2>1. PICK k \in 1..Len(toClient) :
          /\ Read(k)
          /\ handler' = [handler EXCEPT ![m] =
                IF GetTrueOrFalse(SubSeq(toClient, 1, k)) THEN "committing" ELSE "none"]
    BY <1>10 DEF ReadResponse
  <2>2. UNCHANGED <<pending, oks, commits>> BY <1>10, <2>1 DEF ReadResponse, Read
  <2>3. toClient' = SubSeq(toClient, k + 1, Len(toClient)) BY <2>1 DEF Read
  <2>4. /\ Cardinality(OkPlaces(toClient')) <= Cardinality(OkPlaces(toClient))
        /\ (\E i \in 1..k : toClient[i] = "Ok") =>
             Cardinality(OkPlaces(toClient')) + 1 <= Cardinality(OkPlaces(toClient))
    BY <1>1, <2>3, PlacesRest
  <2>5. Cardinality(OkPlaces(toClient')) \in Nat
    <3>1. toClient' \in Seq(Replies) BY <1>1, <2>3, RestOf
    <3> QED BY <3>1, PlacesFinite
  <2>6. CASE GetTrueOrFalse(SubSeq(toClient, 1, k))
    <3>1. \E i \in 1..k : toClient[i] = "Ok"
      <4>1. Len(SubSeq(toClient, 1, k)) = k BY <1>1
      <4>2. \A i \in 1..k : SubSeq(toClient, 1, k)[i] = toClient[i] BY <1>1
      <4> QED BY <2>6, <4>1, <4>2 DEF GetTrueOrFalse
    <3>2. Cardinality(Committing') <= Cardinality(Committing) + 1
      BY <2>1, <2>6, CommittingChange
    <3>3. Cardinality(OkPlaces(toClient')) + 1 <= Cardinality(OkPlaces(toClient))
      BY <2>4, <3>1
    <3> QED BY SMTT(30), <1>1, <1>2, <1>3, <2>2, <2>5, <3>2, <3>3 DEF OksCounted
  <2>7. CASE ~GetTrueOrFalse(SubSeq(toClient, 1, k))
    <3>1. Cardinality(Committing') <= Cardinality(Committing)
      BY <2>1, <2>7, CommittingChange
    <3> QED BY SMTT(30), <1>1, <1>2, <1>3, <2>2, <2>4, <2>5, <3>1 DEF OksCounted
  <2> QED BY <2>6, <2>7
<1>11. ASSUME NEW m \in Messages, ReadFails(m) PROVE OksCounted'
  <2>1. UNCHANGED <<toClient, pending, oks, commits>>
    BY <1>11 DEF ReadFails, masterVars
  <2>2. Cardinality(Committing') <= Cardinality(Committing)
    BY <1>11, CommittingChange DEF ReadFails
  <2> QED BY <1>5, <2>1, <2>2
<1>12. ASSUME NEW m \in Messages, Commit(m) PROVE OksCounted'
  <2>1. UNCHANGED <<toClient, pending, oks>> /\ commits' = commits + 1
    BY <1>12 DEF Commit, masterVars
  <2>2. Cardinality(Committing') + 1 <= Cardinality(Committing)
    BY <1>12, CommittingChange DEF Commit
  <2> QED BY <1>1, <1>2, <1>3, <2>1, <2>2 DEF OksCounted
<1>13. CASE Crash \/ ConnectionBreaks \/ \E m \in Messages : CommitThrows(m)
  BY <1>13, EmptyOks DEF Crash, ConnectionBreaks, CommitThrows, Die, Disconnect, subscriberVars
<1>14. CASE ServerNext
  BY <1>14, MasterOks DEF ServerNext, subscriberVars
<1> QED BY <1>6, <1>7, <1>8, <1>9, <1>10, <1>11, <1>12, <1>13, <1>14
       DEF Next, SubscriberNext, HandlerNext, FaultNext

\* Each commit of srv_sub is backed by a chunk MasterNode accepted, whichever
\* handler reads which response (KafkaConsumeRx.cs:60-65, 214-226).
THEOREM CommitsAnswered == SafetySpec => []CommitsBacked
<1>1. Init => TypeInv /\ OksCounted BY InitType, InitOks
<1>2. TypeInv /\ OksCounted /\ [Next]_vars => (TypeInv /\ OksCounted)'
  BY TypeStep, BatchStep, OksStep DEF TypeInv
<1>3. TypeInv /\ OksCounted => CommitsBacked
  BY OksTypes DEF TypeInv, OksCounted, CommitsBacked
<1> QED BY <1>1, <1>2, <1>3, PTL DEF SafetySpec

------------------------------------------------------------------------------
(* The contract                                                            *)

\* A handler is one of this connection's, of a message that was consumed.
HandlersBehind ==
    /\ sub \in {"down", "connecting"} => handler = Idle
    /\ \A m \in Messages : handler[m] # "none" => m <= position

\* Every step keeps the handlers behind the position.
LEMMA BehindStep == TypeInv /\ HandlersBehind /\ [Next]_vars => HandlersBehind'
<1> SUFFICES ASSUME TypeInv, HandlersBehind, [Next]_vars PROVE HandlersBehind' OBVIOUS
<1>1. /\ handler \in [Messages -> {"none", "reading", "committing"}]
      /\ position \in Nat /\ batch \in Nat /\ batch <= position
  BY MasterNodeAssumption, ForwardingAssumption DEF TypeInv, TypeOK
<1>2. CASE UNCHANGED <<sub, position, handler>> BY <1>2 DEF HandlersBehind
<1>3. CASE Produce \/ ServerNext \/ ConnectionBreaks \/ UNCHANGED vars
  BY <1>2, <1>3 DEF Produce, ServerNext, ConnectionBreaks, vars, subscriberVars
<1>4. CASE \E key \in {Key, WrongKey} : Connect(key)
  BY <1>4 DEF Connect, HandlersBehind
<1>5. CASE KeyAnswered \/ ConnectFails
  <2>1. sub \in {"down", "connecting"} /\ Subscribe BY <1>5 DEF KeyAnswered, ConnectFails
  <2>2. handler' = Idle /\ sub' = "running" BY <2>1 DEF HandlersBehind, Subscribe
  <2> QED BY <2>2 DEF HandlersBehind, Idle
<1>6. CASE Consume BY <1>1, <1>6 DEF Consume, HandlersBehind, Messages
<1>7. CASE BatchFails \/ ConsumerFails
  BY <1>7 DEF BatchFails, ConsumerFails, HandlersBehind
<1>8. CASE OnNext
  <2>1. sub' = "running" /\ position' = position BY <1>8 DEF OnNext
  <2>2. \A m \in Messages : m # position => handler'[m] = handler[m]
    BY <1>1, <1>8 DEF OnNext
  <2> QED BY <1>1, <2>1, <2>2 DEF HandlersBehind
<1>9. ASSUME NEW m \in Messages, HandlerNext(m) PROVE HandlersBehind'
  <2>1. UNCHANGED <<sub, position>> /\ handler[m] # "none"
    BY <1>9 DEF HandlerNext, ReadResponse, ReadFails, Commit
  <2>2. \A n \in Messages : handler'[n] # "none" => handler[n] # "none"
    BY <1>1, <1>9 DEF HandlerNext, ReadResponse, ReadFails, Commit
  <2>3. sub \notin {"down", "connecting"} BY <2>1 DEF HandlersBehind, Idle
  <2> QED BY <2>1, <2>2, <2>3 DEF HandlersBehind
<1>10. CASE Crash \/ \E m \in Messages : CommitThrows(m)
  BY <1>10 DEF Crash, CommitThrows, Die, HandlersBehind, Idle
<1> QED BY <1>3, <1>4, <1>5, <1>6, <1>7, <1>8, <1>9, <1>10
       DEF Next, SubscriberNext, FaultNext

\* What the contract rests on: whose messages the handlers have, where the
\* positions are, and what each commit has been backed by.
ForwardInv == TypeInv /\ OffsetInv /\ OksCounted /\ HandlersBehind

\* It holds initially, and every step keeps it.
LEMMA ForwardInvariant == SafetySpec => []ForwardInv
<1>1. Init => HandlersBehind BY DEF Init, HandlersBehind, Idle
<1>2. Init => OffsetInv BY MasterNodeAssumption DEF Init, OffsetInv, NoOffset
<1>3. Init => ForwardInv BY <1>1, <1>2, InitType, InitOks DEF ForwardInv
<1>4. ForwardInv /\ [Next]_vars => ForwardInv'
  BY TypeStep, BatchStep, OffsetStep, OksStep, BehindStep DEF ForwardInv, TypeInv
<1> QED BY <1>3, <1>4, PTL DEF SafetySpec

\* What the contract allows a step to do.
Owed == [Contract!ContractNext]_(Contract!contractVars)

\* A step that neither produces, answers nor commits is none for the contract.
LEMMA QuietOwed == UNCHANGED <<produced, committed, oks, commits>> => Owed
BY DEF Owed, Contract!contractVars

\* A MongoDBActor accepts a chunk or not.
LEMMA AskOwed ==
    ASSUME ForwardInv, NEW chunk, Ask(chunk), UNCHANGED <<produced, committed, commits>>
    PROVE  Owed
<1>1. oks' = oks \/ oks' = oks + 1 BY DEF Ask
<1>2. CASE oks' = oks BY <1>2, QuietOwed
<1>3. CASE oks' = oks + 1
  BY <1>3 DEF Owed, Contract!ContractNext, Contract!Grant
<1> QED BY <1>1, <1>2, <1>3

\* A commit moves the cursor.
LEMMA CommitOwed ==
    ASSUME ForwardInv, NEW m \in Messages, Commit(m)
    PROVE  Owed
<1>1. /\ commits \in Nat /\ oks \in Nat /\ pending["Ok"] \in Nat
      /\ Cardinality(Committing) \in Nat /\ Cardinality(OkPlaces(toClient)) \in Nat
  BY OksTypes DEF ForwardInv, TypeInv
<1>2. Cardinality(Committing) > 0
  <2>1. m \in Committing BY DEF Commit, Committing
  <2>2. Cardinality(Committing) # 0 BY <2>1, CommittingFinite, FS_EmptySet
  <2> QED BY <1>1, <2>2
<1>3. commits < oks BY <1>1, <1>2 DEF ForwardInv, OksCounted
<1>4. position \in 1..produced
  <2>1. m <= position /\ m \in 1..MaxOffset
    BY DEF ForwardInv, HandlersBehind, Commit, Messages
  <2>2. position \in Nat /\ produced \in Nat /\ position <= produced
    BY MasterNodeAssumption DEF ForwardInv, OffsetInv, TypeInv, TypeOK
  <2> QED BY MasterNodeAssumption, <2>1, <2>2
<1>5. position >= committed
  <2>1. position \in Int /\ committed \in Int
    BY MasterNodeAssumption DEF ForwardInv, TypeInv, TypeOK, NoOffset
  <2>2. committed <= position BY DEF ForwardInv, OffsetInv, Commit
  <2> QED BY <2>1, <2>2
<1>6. UNCHANGED <<produced, oks>> /\ committed' = position /\ commits' = commits + 1
  BY DEF Commit, masterVars
<1>7. Contract!Move(position) BY <1>3, <1>5, <1>6 DEF Contract!Move
<1> QED BY <1>4, <1>7 DEF Owed, Contract!ContractNext

\* Every step is one the contract allows, or none for it.
LEMMA OwedStep == ForwardInv /\ [Next]_vars => Owed
<1> SUFFICES ASSUME ForwardInv, [Next]_vars PROVE Owed OBVIOUS
<1>1. CASE Produce
  BY <1>1 DEF Produce, masterVars, Owed, Contract!ContractNext, Contract!Grow
<1>2. ASSUME NEW key \in {Key, WrongKey}, Connect(key) PROVE Owed
  BY <1>2, QuietOwed DEF Connect, Accept
<1>3. CASE KeyAnswered \/ ConnectFails
  BY <1>3, QuietOwed DEF KeyAnswered, ConnectFails, Subscribe, Read, masterVars
<1>4. CASE Consume \/ BatchFails \/ OnNext \/ ConsumerFails \/ UNCHANGED vars
  BY <1>4, QuietOwed DEF Consume, BatchFails, OnNext, ConsumerFails, Send, vars, masterVars
<1>5. ASSUME NEW m \in Messages, ReadResponse(m) \/ ReadFails(m) PROVE Owed
  BY <1>5, QuietOwed DEF ReadResponse, ReadFails, Read, masterVars
<1>6. ASSUME NEW m \in Messages, Commit(m) PROVE Owed BY <1>6, CommitOwed
<1>7. CASE Crash \/ ConnectionBreaks \/ \E m \in Messages : CommitThrows(m)
  BY <1>7, QuietOwed DEF Crash, ConnectionBreaks, CommitThrows, Die, Disconnect
<1>8. CASE ServerNext
  <2>1. UNCHANGED <<produced, committed, commits>> /\ MasterNext BY <1>8 DEF ServerNext
  <2>2. CASE ReceiveData \/ ReceiveInitialData
    BY <2>1, <2>2, AskOwed DEF ReceiveData, ReceiveInitialData
  <2>3. CASE ReceiveKey \/ Authenticated \/ Rejected \/ \E r \in Results : WriteResult(r)
    BY <2>1, <2>3, QuietOwed DEF ReceiveKey, Authenticated, Rejected, WriteResult
  <2> QED BY <2>1, <2>2, <2>3 DEF MasterNext
<1> QED BY <1>1, <1>2, <1>3, <1>4, <1>5, <1>6, <1>7, <1>8
       DEF Next, SubscriberNext, HandlerNext, FaultNext

\* Subscriber and MasterNode implement ForwardingContract: a commit goes forward,
\* to a message that was produced, on a chunk nobody else commits on.
THEOREM ForwardRefinement == SafetySpec => ImplementsContract
<1>1. Init => Contract!ContractInit
  BY DEF Init, MasterInit, NoOffset, Contract!ContractInit
<1>2. ForwardInv /\ [Next]_vars => [Contract!ContractNext]_(Contract!contractVars)
  BY OwedStep DEF Owed
<1> QED BY <1>1, <1>2, ForwardInvariant, PTL
       DEF SafetySpec, ImplementsContract, Contract!ContractSpec

------------------------------------------------------------------------------
(* An answer for each reader.  MasterNode makes one answer of each message  *)
(* it receives alone, and each reader takes one away; what it answers       *)
(* without being asked, to the key, only adds to them.                      *)

\* ReadersServed is not inductive: messages become answers only where the key has
\* been accepted, so no handler may wait on another connection.
ServedInv ==
    /\ open /\ Readers # {} => actor = "authenticated"
    /\ ReadersServed

Refusal == "Write operation failed"

\* What is counted are naturals.
Counts ==
    /\ IsFiniteSet(Readers) /\ Cardinality(Readers) \in Nat
    /\ Len(toServer) \in Nat /\ Len(toClient) \in Nat
    /\ BeingAnswered \in Nat /\ AnswersUnderWay \in Nat

LEMMA CountsType == TypeOK => Counts
<1> SUFFICES ASSUME TypeOK PROVE Counts OBVIOUS
<1>1. IsFiniteSet(Readers)
  <2>1. IsFiniteSet(1..MaxOffset) BY MasterNodeAssumption, FS_Interval
  <2>2. Readers \in SUBSET (1..MaxOffset) BY DEF Readers, Messages
  <2> QED BY <2>1, <2>2, FS_Subset
<1>2. Cardinality(Readers) \in Nat BY <1>1, FS_CardinalityType
<1>3. BeingAnswered \in Nat
  <2>1. pending["Ok"] \in Nat /\ pending[Refusal] \in Nat
    BY DEF TypeOK, MasterTypeOK, Results, Refusal
  <2>2. BeingAnswered = pending["Ok"] + pending[Refusal] BY DEF BeingAnswered, Refusal
  <2> QED BY <2>1, <2>2
<1>4. Len(toServer) \in Nat /\ Len(toClient) \in Nat
  BY DEF TypeOK, MasterTypeOK
<1> QED BY <1>1, <1>2, <1>3, <1>4 DEF Counts, AnswersUnderWay

\* The two results a MongoDBActor answers with.
LEMMA TwoResults ==
    /\ Results = {"Ok", Refusal} /\ "Ok" # Refusal
    /\ Results \subseteq Replies
    /\ \A chunk : Answer(chunk) \in Results
BY DEF Results, Refusal, Replies, Answer

\* A handler that begins to read, one that has read, and the others.
LEMMA ReadersChange ==
    ASSUME TypeOK, NEW m \in Messages,
           NEW v \in {"none", "reading", "committing"}, handler' = [handler EXCEPT ![m] = v]
    PROVE  /\ Cardinality(Readers') <= Cardinality(Readers) + 1
           /\ handler[m] = "reading" /\ v # "reading" =>
                Cardinality(Readers') + 1 = Cardinality(Readers)
           /\ v # "reading" => Cardinality(Readers') <= Cardinality(Readers)
           /\ v # "reading" => Readers' \subseteq Readers
<1>1. handler'[m] = v /\ \A n \in Messages : n # m => handler'[n] = handler[n]
  BY DEF TypeOK
<1>2. v = "reading" => Readers' = Readers \union {m}
  BY <1>1 DEF Readers, Messages
<1>3. v # "reading" => Readers' = Readers \ {m}
  BY <1>1 DEF Readers, Messages
<1>4. handler[m] = "reading" <=> m \in Readers BY DEF Readers
<1>5. IsFiniteSet(Readers) /\ Cardinality(Readers) \in Nat BY CountsType DEF Counts
<1>6. Cardinality(Readers \union {m})
        = IF m \in Readers THEN Cardinality(Readers) ELSE Cardinality(Readers) + 1
  BY <1>5, FS_AddElement
<1>7. Cardinality(Readers \ {m})
        = IF m \in Readers THEN Cardinality(Readers) - 1 ELSE Cardinality(Readers)
  BY <1>5, FS_RemoveElement
<1>8. CASE v = "reading"
  <2>1. Cardinality(Readers') = Cardinality(Readers \union {m}) BY <1>2, <1>8
  <2> QED BY <1>5, <1>6, <1>8, <2>1
<1>9. CASE v # "reading"
  <2>1. Cardinality(Readers') = Cardinality(Readers \ {m}) /\ Readers' \subseteq Readers
    BY <1>3, <1>9
  <2> QED BY <1>4, <1>5, <1>7, <1>9, <2>1
<1> QED BY <1>8, <1>9

\* Without a connection, or without a reader, nobody waits.
LEMMA NobodyWaits == TypeOK /\ (~open \/ Readers = {}) => ServedInv
<1>1. Cardinality({}) = 0 BY FS_EmptySet
<1>2. TypeOK => 0 <= AnswersUnderWay BY CountsType DEF Counts
<1> QED BY <1>1, <1>2 DEF ServedInv, ReadersServed

\* Nor does a step of the client matter that neither writes nor reads.
LEMMA NoMoreReaders ==
    ASSUME TypeOK, ServedInv, Counts', Cardinality(Readers') <= Cardinality(Readers),
           Readers' \subseteq Readers, UNCHANGED masterVars
    PROVE  ServedInv'
<1>1. Counts BY CountsType
<1>2. UNCHANGED <<open, actor, merged>> /\ AnswersUnderWay' = AnswersUnderWay
  BY DEF masterVars, AnswersUnderWay, BeingAnswered
<1>3. open' /\ Readers' # {} => actor' = "authenticated"
  BY <1>2 DEF ServedInv
<1>4. ReadersServed' BY <1>1, <1>2 DEF Counts, ServedInv, ReadersServed
<1> QED BY <1>3, <1>4 DEF ServedInv

\* A MongoDBActor is one answer more, and one that has answered is one less.
LEMMA AnswersChange ==
    ASSUME TypeOK
    PROVE  /\ \A chunk : Ask(chunk) => BeingAnswered' = BeingAnswered + 1
           /\ \A r \in Results : WriteResult(r) => BeingAnswered' = BeingAnswered - 1
<1>1. /\ pending \in [Results -> Nat]
      /\ BeingAnswered = pending["Ok"] + pending[Refusal]
      /\ BeingAnswered' = pending'["Ok"] + pending'[Refusal]
  BY DEF TypeOK, MasterTypeOK, BeingAnswered, Refusal
<1>2. Results = {"Ok", Refusal} /\ "Ok" # Refusal BY TwoResults
<1>3. ASSUME NEW r \in Results, pending' = [pending EXCEPT ![r] = @ + 1]
      PROVE  BeingAnswered' = BeingAnswered + 1
  BY <1>1, <1>2, <1>3
<1>4. ASSUME NEW r \in Results, pending' = [pending EXCEPT ![r] = @ - 1]
      PROVE  BeingAnswered' = BeingAnswered - 1
  BY <1>1, <1>2, <1>4
<1>5. \A chunk : Ask(chunk) => \E r \in Results : pending' = [pending EXCEPT ![r] = @ + 1]
  BY TwoResults DEF Ask
<1> QED BY <1>3, <1>4, <1>5 DEF WriteResult

\* MasterNode's actors answer what they receive.
LEMMA ServedMaster ==
    ASSUME TypeOK, Counts', ServedInv, MasterNext, UNCHANGED handler,
           ~open' \/ (Readers = {})' => ServedInv'
    PROVE  ServedInv'
<1>1. Readers' = Readers BY DEF Readers, Messages
<1>2. Counts BY CountsType
<1>3. pending \in [Results -> Nat] /\ toServer \in Seq(Wire) /\ toClient \in Seq(Replies)
  BY DEF TypeOK, MasterTypeOK, Wire
<1>4. CASE ReceiveKey \/ Authenticated \/ Rejected
  <2>1. actor # "authenticated" /\ UNCHANGED open
    BY <1>4 DEF ReceiveKey, Authenticated, Rejected
  <2>2. ~open \/ Readers = {} BY <2>1 DEF ServedInv
  <2> QED BY <1>1, <2>1, <2>2
<1>5. ASSUME UNCHANGED <<open, merged>>, actor' = "authenticated",
             AnswersUnderWay' >= AnswersUnderWay
      PROVE  ServedInv'
  <2>1. Cardinality(Readers') = Cardinality(Readers) BY <1>1
  <2>2. /\ Cardinality(Readers) \in Nat
        /\ AnswersUnderWay \in Nat /\ AnswersUnderWay' \in Nat
    BY <1>2 DEF Counts
  <2> QED BY <1>5, <2>1, <2>2 DEF ServedInv, ReadersServed
<1>6. CASE ReceiveData
  <2>1. PICK k \in 1..Len(toServer) :
          /\ Ask(SubSeq(toServer, 1, k))
          /\ toServer' = SubSeq(toServer, k + 1, Len(toServer))
          /\ merged' = (merged \/ k > 1)
    BY <1>6 DEF ReceiveData
  <2>2. actor' = "authenticated" /\ UNCHANGED <<open, toClient>> BY <1>6 DEF ReceiveData
  <2>3. CASE merged' BY <2>2, <2>3 DEF ServedInv, ReadersServed
  <2>4. CASE ~merged'
    <3>1. k \in Nat /\ k >= 1 BY <1>2 DEF Counts
    <3>2. ~(k > 1) BY <2>1, <2>4
    <3>3. k = 1 BY <3>1, <3>2
    <3>4. merged' = merged
      <4>1. ~merged BY <2>1, <2>4
      <4>2. merged \in BOOLEAN /\ merged' \in BOOLEAN
        BY <2>1 DEF TypeOK, MasterTypeOK
      <4> QED BY <2>4, <4>1, <4>2
    <3>5. Len(toServer') = Len(toServer) - 1 BY <1>3, <2>1, <3>3, RestOf
    <3>6. AnswersUnderWay' = AnswersUnderWay
      <4>1. BeingAnswered' = BeingAnswered + 1 BY <2>1, AnswersChange
      <4> QED BY <1>2, <2>2, <3>5, <4>1 DEF Counts, AnswersUnderWay
    <3>7. AnswersUnderWay' >= AnswersUnderWay BY <1>2, <3>6 DEF Counts
    <3> QED BY <1>5, <2>2, <3>4, <3>7
  <2> QED BY <2>3, <2>4
<1>7. CASE ReceiveInitialData
  <2>1. /\ Ask(<<Key>>) /\ actor' = "authenticated"
        /\ UNCHANGED <<open, toServer, toClient, merged>>
    BY <1>7 DEF ReceiveInitialData
  <2>2. BeingAnswered' = BeingAnswered + 1 BY <2>1, AnswersChange
  <2>3. AnswersUnderWay' >= AnswersUnderWay
    BY <1>2, <2>1, <2>2 DEF Counts, AnswersUnderWay
  <2> QED BY <1>5, <2>1, <2>3
<1>8. ASSUME NEW r \in Results, WriteResult(r) PROVE ServedInv'
  <2>1. UNCHANGED <<open, toServer, actor, merged>> /\ toClient' = Append(toClient, r)
    BY <1>8 DEF WriteResult
  <2>2. Len(toClient') = Len(toClient) + 1 BY <1>3, <2>1, AppendIn, TwoResults
  <2>3. BeingAnswered' = BeingAnswered - 1 BY <1>8, AnswersChange
  <2>4. AnswersUnderWay' = AnswersUnderWay
    BY <1>2, <2>1, <2>2, <2>3 DEF Counts, AnswersUnderWay
  <2> QED BY <1>1, <2>1, <2>4 DEF ServedInv, ReadersServed
<1> QED BY <1>4, <1>6, <1>7, <1>8 DEF MasterNext

\* A handler writes its message before it waits.
LEMMA ServedWrite ==
    ASSUME TypeOK, Counts', AuthInv, ServedInv, sub = "running", checkApiKey,
           NEW m \in Messages, Send(m), handler' = [handler EXCEPT ![m] = "reading"]
    PROVE  ServedInv'
<1>1. Counts BY CountsType
<1>2. Cardinality(Readers') <= Cardinality(Readers) + 1 BY ReadersChange
<1>3. actor' = "authenticated" /\ UNCHANGED <<open, merged, pending, toClient>>
  BY DEF Send, AuthInv
<1>4. Len(toServer') = Len(toServer) + 1
  <2>1. toServer \in Seq(Wire) /\ m \in Wire BY DEF TypeOK, MasterTypeOK, Wire
  <2> QED BY <2>1, AppendIn DEF Send
<1>5. AnswersUnderWay' = AnswersUnderWay + 1
  <2>1. BeingAnswered' = BeingAnswered BY <1>3 DEF BeingAnswered
  <2> QED BY <1>1, <1>3, <1>4, <2>1 DEF Counts, AnswersUnderWay
<1>6. ReadersServed' BY <1>1, <1>2, <1>3, <1>5 DEF Counts, ServedInv, ReadersServed
<1> QED BY <1>3, <1>6 DEF ServedInv

\* A handler that reads takes one reply away, or several met in its read.
LEMMA ServedRead ==
    ASSUME TypeOK, Counts', ServedInv, NEW m \in Messages, ReadResponse(m)
    PROVE  ServedInv'
<1>1. Counts BY CountsType
<1>2. PICK k \in 1..Len(toClient) : Read(k) /\ merged' = (merged \/ k > 1)
  BY DEF ReadResponse
<1>3. PICK v \in {"none", "committing"} : handler' = [handler EXCEPT ![m] = v]
  BY DEF ReadResponse
<1>4. Cardinality(Readers') + 1 = Cardinality(Readers) /\ Readers' \subseteq Readers
  BY <1>3, ReadersChange DEF ReadResponse
<1>5. UNCHANGED <<open, actor, toServer, pending>> BY <1>2 DEF Read
<1>6. open' /\ Readers' # {} => actor' = "authenticated" BY <1>4, <1>5 DEF ServedInv
<1>7. ASSUME ~merged' PROVE ReadersServed'
  <2>1. k \in Nat /\ k >= 1 BY <1>1 DEF Counts
  <2>2. ~merged /\ ~(k > 1) BY <1>2, <1>7
  <2>3. k = 1 BY <2>1, <2>2
  <2>4. Len(toClient') = Len(toClient) - 1
    <3>1. toClient \in Seq(Replies) BY DEF TypeOK, MasterTypeOK
    <3> QED BY <1>2, <2>3, <3>1, RestOf DEF Read
  <2>5. BeingAnswered' = BeingAnswered BY <1>5 DEF BeingAnswered
  <2>6. AnswersUnderWay' = AnswersUnderWay - 1
    BY <1>1, <1>5, <2>4, <2>5 DEF Counts, AnswersUnderWay
  <2> QED BY <1>1, <1>4, <1>5, <2>2, <2>6 DEF Counts, ServedInv, ReadersServed
<1> QED BY <1>6, <1>7 DEF ServedInv, ReadersServed

\* Every step keeps it.
LEMMA ServedStep ==
    TypeInv /\ AuthInv /\ HandlersBehind /\ ServedInv /\ [Next]_vars => ServedInv'
<1>1. TypeInv /\ [Next]_vars => TypeOK /\ TypeOK' BY TypeStep DEF TypeInv
<1>2. TypeOK' => Counts' BY CountsType, PTL
<1>3. TypeOK' /\ (~open' \/ (Readers = {})') => ServedInv' BY NobodyWaits, PTL
<1> SUFFICES ASSUME TypeInv, AuthInv, HandlersBehind, ServedInv, [Next]_vars
             PROVE  ServedInv'
  OBVIOUS
<1>4. TypeOK /\ Counts' BY <1>1, <1>2
<1>5. ~open' \/ (Readers = {})' => ServedInv' BY <1>1, <1>3
<1>6. ASSUME UNCHANGED <<masterVars, handler>> PROVE ServedInv'
  <2>1. Readers' = Readers BY <1>6 DEF Readers, Messages
  <2>2. Cardinality(Readers') <= Cardinality(Readers)
    BY <1>4, <2>1 DEF Counts
  <2> QED BY <1>4, <1>6, <2>1, <2>2, NoMoreReaders
<1>7. CASE Produce \/ Consume \/ BatchFails \/ ConsumerFails \/ UNCHANGED vars
  <2>1. UNCHANGED <<masterVars, handler>>
    BY <1>7 DEF Produce, Consume, BatchFails, ConsumerFails, vars, subscriberVars
  <2> QED BY <1>6, <2>1
<1>8. ASSUME sub \in {"down", "connecting"}, UNCHANGED handler PROVE ServedInv'
  <2>1. handler' = Idle BY <1>8 DEF HandlersBehind
  <2>2. (Readers = {})' BY <2>1 DEF Idle, Readers, Messages
  <2> QED BY <1>5, <2>2
<1>9. CASE KeyAnswered \/ ConnectFails \/ \E key \in {Key, WrongKey} : Connect(key)
  <2>1. sub \in {"down", "connecting"} /\ UNCHANGED handler
    BY <1>9 DEF KeyAnswered, ConnectFails, Subscribe, Connect
  <2> QED BY <1>8, <2>1
<1>10. CASE OnNext
  <2>1. CASE /\ checkApiKey /\ Send(position)
             /\ handler' = [handler EXCEPT ![position] = "reading"]
    <3>1. position \in Messages
      BY MasterNodeAssumption, ForwardingAssumption, <1>10
         DEF OnNext, TypeOK, TypeInv, Messages
    <3> QED BY <1>4, <1>10, <2>1, <3>1, ServedWrite DEF OnNext
  <2>2. CASE UNCHANGED <<masterVars, handler>> BY <1>6, <2>2
  <2> QED BY <1>10, <2>1, <2>2 DEF OnNext
<1>11. ASSUME NEW m \in Messages, ReadResponse(m) PROVE ServedInv'
  BY <1>4, <1>11, ServedRead
<1>12. ASSUME NEW m \in Messages, ReadFails(m) \/ Commit(m) PROVE ServedInv'
  <2>1. handler' = [handler EXCEPT ![m] = "none"] /\ UNCHANGED masterVars
    BY <1>12 DEF ReadFails, Commit
  <2>2. Cardinality(Readers') <= Cardinality(Readers) /\ Readers' \subseteq Readers
    BY <1>4, <2>1, ReadersChange
  <2> QED BY <1>4, <2>1, <2>2, NoMoreReaders
<1>13. CASE Crash \/ ConnectionBreaks \/ \E m \in Messages : CommitThrows(m)
  <2>1. ~open' BY <1>13 DEF Crash, ConnectionBreaks, CommitThrows, Die, Disconnect
  <2> QED BY <1>5, <2>1
<1>14. CASE ServerNext
  <2>1. MasterNext /\ UNCHANGED handler BY <1>14 DEF ServerNext, subscriberVars
  <2> QED BY <1>4, <1>5, <2>1, ServedMaster
<1> QED BY <1>7, <1>9, <1>10, <1>11, <1>12, <1>13, <1>14
       DEF Next, SubscriberNext, HandlerNext, FaultNext

\* No handler of srv_sub waits for a reply that will not come, unless two messages or
\* replies met in one read: what ReaderAnswered needs beside fairness
\* (KafkaConsumeRx.cs:177, ConnectionHandler.cs:57-85).
THEOREM NoReaderForgotten == SafetySpec => []ReadersServed
<1> DEFINE Inv == TypeInv /\ AuthInv /\ HandlersBehind /\ ServedInv
<1>1. Init => Inv
  <2>1. Init => HandlersBehind BY DEF Init, HandlersBehind, Idle
  <2>2. Init => ServedInv BY InitType, NobodyWaits DEF Init, MasterInit, TypeInv
  <2> QED BY <2>1, <2>2, InitType, AuthInit
<1>2. Inv /\ [Next]_vars => Inv'
  BY TypeStep, BatchStep, AuthStep, BehindStep, ServedStep DEF TypeInv
<1>3. Inv => ReadersServed BY DEF ServedInv
<1> QED BY <1>1, <1>2, <1>3, PTL DEF SafetySpec
==============================================================================
