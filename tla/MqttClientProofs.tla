-------------------------- MODULE MqttClientProofs --------------------------
(***************************************************************************)
(* Proofs about MqttClient, for any number of publishers, subscriptions,   *)
(* messages, clients and stops: online means a session that is ready, a    *)
(* PUBACK wakes nobody but the publisher of its message, and reaches it.   *)
(***************************************************************************)
EXTENDS MqttClient, FiniteSetTheorems, TLAPS

LoopPc    == {"off", "top", "connack", "suback", "readyack", "online", "close", "destroy",
              "done"}
Handshake == [pending : SUBSET Nat, expected : Nat, failed : BOOLEAN,
              ready : Nat, expectReady : BOOLEAN, readyAcked : BOOLEAN]
Call      == [pc : {"idle", "settle", "wait"}, id : Nat, session : Nat]

-----------------------------------------------------------------------------
(* The inductive invariant, by parts.                                      *)

ClientTyped ==
  /\ loop \in LoopPc /\ handshake \in Handshake
  /\ online \in BOOLEAN /\ stop \in BOOLEAN /\ stray \in BOOLEAN
  /\ session \in Nat /\ nextId \in Nat \ {0}
  /\ call \in [Publisher -> Call]

\* The client of the moment is the last one created, and it exists.
ClientIsTheLast ==
  client # NoSession => client = session /\ loop \notin {"off", "top", "done", "destroy"}

\* What the handshake has got to, from its start to the end of the session.
HandshakeInv ==
  /\ loop \in {"off", "top", "connack", "done"} => handshake = NoHandshake
  /\ loop = "suback" =>
       /\ handshake.expected = Subscriptions
       /\ ~handshake.expectReady /\ ~handshake.readyAcked
  /\ loop \in {"readyack", "online"} =>
       handshake.expected = Subscriptions /\ handshake.pending = {}
  /\ loop = "online" => ~handshake.failed
  /\ handshake.readyAcked => handshake.ready \in acked
  /\ online => loop \in {"online", "close", "destroy"}

\* The messages this client has published.
Used == 1..(nextId - 1)

\* A message is in flight or acknowledged, and the next id is a new one.
IdsAreUsed ==
  /\ inflight \subseteq Used /\ acked \subseteq Used
  /\ inflight \cap acked = {}
  /\ handshake.expectReady => handshake.ready \in Used
  /\ Destroyed => nextId = 1

\* A call that has published through the client that is still there.
Current(p) == ~Idle(p) /\ ~Straddles(p)

\* Every call of this client has a message of its own, which is not the ready message.
CallsHaveTheirIds ==
  /\ \A p \in Publisher : call[p].session <= session
  /\ \A p \in Publisher : Current(p) =>
       /\ call[p].id \in Used
       /\ handshake.expectReady => call[p].id # handshake.ready
  /\ \A p, q \in Publisher :
       p # q /\ Current(p) /\ Current(q) => call[p].id # call[q].id

\* The two sets of ids, as long as no call has outlived its client.
IdSetsInv ==
  ~stray =>
    /\ published \subseteq acked
    /\ nonblocking \subseteq Used
    /\ \A p \in Publisher : Current(p) /\ call[p].pc = "wait" => call[p].id \notin nonblocking

MqttInv ==
  /\ ClientTyped /\ ClientIsTheLast /\ HandshakeInv /\ IdsAreUsed
  /\ CallsHaveTheirIds /\ IdSetsInv
  /\ OnlineMeansReady /\ AckReachesItsWaiter

-----------------------------------------------------------------------------
LEMMA MqttInit == Init => MqttInv
<1> SUFFICES ASSUME Init PROVE MqttInv
  OBVIOUS
<1>1. NoHandshake \in Handshake /\ IdleCall \in Call
  BY DEF NoHandshake, Handshake, IdleCall, Call, NoId, NoSession
<1>2. ~handshake.expectReady /\ ~handshake.readyAcked
  BY DEF Init, NoHandshake
<1>3. \A p \in Publisher : Idle(p) /\ call[p].session = NoSession /\ call[p].pc = "idle"
  BY DEF Init, Idle, IdleCall
<1>4. ClientTyped /\ ClientIsTheLast
  <2>1. loop \in LoopPc /\ session \in Nat /\ nextId \in Nat \ {0}
    BY DEF Init, LoopPc, NoSession
  <2>2. call \in [Publisher -> Call] /\ handshake \in Handshake
    BY <1>1 DEF Init
  <2> QED
    BY <2>1, <2>2 DEF Init, ClientTyped, ClientIsTheLast
<1>5. HandshakeInv /\ IdsAreUsed
  BY <1>2 DEF Init, HandshakeInv, IdsAreUsed
<1>6. CallsHaveTheirIds /\ IdSetsInv
  BY <1>3 DEF Init, CallsHaveTheirIds, IdSetsInv, Current, NoSession
<1>7. OnlineMeansReady /\ AckReachesItsWaiter
  BY <1>3 DEF Init, OnlineMeansReady, AckReachesItsWaiter
<1> QED
  BY <1>4, <1>5, <1>6, <1>7 DEF MqttInv

-----------------------------------------------------------------------------
(* Every step preserves the invariant, part by part.                       *)

\* One assignment to a field of the handshake or of a call keeps its type.
LEMMA HandshakeTypes ==
  ASSUME NEW h \in Handshake
  PROVE  /\ NoHandshake \in Handshake
         /\ \A s \in SUBSET Nat, n \in Nat :
              [h EXCEPT !.pending = s, !.expected = n] \in Handshake
         /\ \A s \in SUBSET Nat, b \in BOOLEAN :
              [h EXCEPT !.pending = s, !.failed = b] \in Handshake
         /\ \A n \in Nat : [h EXCEPT !.ready = n, !.expectReady = TRUE] \in Handshake
         /\ [h EXCEPT !.expectReady = FALSE, !.readyAcked = TRUE] \in Handshake
BY DEF Handshake, NoHandshake, NoId

\* The ids of the subscriptions are as many as there are topics.
LEMMA SubscriptionIds ==
  ASSUME NEW n \in Nat
  PROVE  /\ n .. (n + Subscriptions - 1) \in SUBSET Nat
         /\ Cardinality(n .. (n + Subscriptions - 1)) = Subscriptions
<1>1. Subscriptions \in Nat /\ Subscriptions > 0
  BY MqttClientAssumption
<1>2. n + Subscriptions - 1 \in Int /\ n <= n + Subscriptions - 1
  BY <1>1
<1>3. Cardinality(n .. (n + Subscriptions - 1)) = (n + Subscriptions - 1) - n + 1
  BY <1>2, FS_Interval
<1> QED
  BY <1>1, <1>3

LEMMA IntervalGrows ==
  ASSUME NEW a \in Nat, NEW b \in Nat, a <= b
  PROVE  1..(a - 1) \subseteq 1..(b - 1)
OBVIOUS

LEMMA TypesStep == MqttInv /\ [Next]_vars => ClientTyped' /\ ClientIsTheLast'
<1> SUFFICES ASSUME MqttInv, [Next]_vars PROVE ClientTyped' /\ ClientIsTheLast'
  OBVIOUS
<1>0. ClientTyped /\ ClientIsTheLast
  BY DEF MqttInv
<1>1. call' \in [Publisher -> Call] /\ stray' \in BOOLEAN
  <2>1. IdleCall \in Call
    BY DEF IdleCall, Call, NoId, NoSession
  <2>2. \A pc \in {"settle", "wait"} : [pc |-> pc, id |-> nextId, session |-> session] \in Call
    BY <1>0 DEF ClientTyped, Call
  <2> QED
    BY <1>0, <2>1, <2>2 DEF Next, Loop, Publishers, vars, Start, StopBegin, StopJoin, NewClient,
       ConnectFails, Subscribe, PublishReady, HandshakeFails, GoOnline, SessionLost,
       SessionStopped, WithdrawClient, DestroyClient, LoopEnds, PubAck, SubAck, Publish,
       Settle, WaitEnds, PublishInCallback, Return, ClientTyped
<1>2. handshake' \in Handshake
  <2>1. CASE Subscribe
    BY <1>0, <2>1, HandshakeTypes, SubscriptionIds, MqttClientAssumption
    DEF Subscribe, ClientTyped
  <2>2. ASSUME NEW m \in MessageId, NEW accepted \in BOOLEAN, SubAck(m, accepted)
        PROVE  handshake' \in Handshake
    <3>1. handshake.pending \ {m} \in SUBSET Nat /\ (handshake.failed \/ ~accepted) \in BOOLEAN
      BY <1>0 DEF ClientTyped, Handshake
    <3> QED
      BY <1>0, <2>2, <3>1, HandshakeTypes DEF SubAck, ClientTyped
  <2>3. CASE PublishReady
    BY <1>0, <2>3, HandshakeTypes DEF PublishReady, ClientTyped
  <2>4. ASSUME NEW m \in MessageId, PubAck(m) PROVE handshake' \in Handshake
    BY <1>0, <2>4, HandshakeTypes DEF PubAck, ClientTyped
  <2> QED
    BY <1>0, <2>1, <2>2, <2>3, <2>4, HandshakeTypes DEF Next, Loop, Publishers, vars, Start,
       StopBegin, StopJoin, NewClient, ConnectFails, HandshakeFails, GoOnline, SessionLost,
       SessionStopped, WithdrawClient, DestroyClient, LoopEnds, Publish,
       Settle, WaitEnds, PublishInCallback, ClientTyped, threadVars
<1>3. loop' \in LoopPc
  BY <1>0 DEF Next, Loop, Publishers, vars, Start, StopBegin, StopJoin, NewClient,
     ConnectFails, Subscribe, PublishReady, HandshakeFails, GoOnline, SessionLost,
     SessionStopped, WithdrawClient, DestroyClient, LoopEnds, PubAck, SubAck, Publish,
     Settle, WaitEnds, PublishInCallback, ClientTyped, threadVars, LoopPc
<1>4. online' \in BOOLEAN /\ stop' \in BOOLEAN
  BY <1>0 DEF Next, Loop, Publishers, vars, Start, StopBegin, StopJoin, NewClient,
     ConnectFails, Subscribe, PublishReady, HandshakeFails, GoOnline, SessionLost,
     SessionStopped, WithdrawClient, DestroyClient, LoopEnds, PubAck, SubAck, Publish,
     Settle, WaitEnds, PublishInCallback, ClientTyped, ownerVars
<1>5. session' \in Nat /\ nextId' \in Nat \ {0} /\ ClientIsTheLast'
  <2>0. /\ session \in Nat /\ nextId \in Nat /\ nextId # 0 /\ ClientIsTheLast
        /\ Subscriptions \in Nat
    BY <1>0, MqttClientAssumption DEF ClientTyped
  <2> USE DEF ClientIsTheLast
  <2>1. CASE Start \/ StopBegin \/ StopJoin \/ UNCHANGED vars
    BY <2>0, <2>1 DEF Start, StopBegin, StopJoin, vars, threadVars, brokerVars
  <2>2. CASE NewClient \/ WithdrawClient \/ DestroyClient \/ LoopEnds
    BY <2>0, <2>2 DEF NewClient, WithdrawClient, DestroyClient, LoopEnds, brokerVars, NoSession
  <2>3. CASE Subscribe \/ PublishReady
    BY <2>0, <2>3 DEF Subscribe, PublishReady, Send
  <2>4. CASE ConnectFails \/ HandshakeFails \/ GoOnline \/ SessionLost \/ SessionStopped
    BY <2>0, <2>4 DEF ConnectFails, HandshakeFails, GoOnline, SessionLost, SessionStopped,
       brokerVars
  <2>5. CASE \E m \in MessageId : PubAck(m) \/ \E accepted \in BOOLEAN : SubAck(m, accepted)
    BY <2>0, <2>5 DEF PubAck, SubAck, brokerVars
  <2>6. CASE Publishers
    BY <2>0, <2>6 DEF Publishers, PublishInCallback, Publish, Settle, WaitEnds, Send,
       threadVars, brokerVars
  <2> QED
    BY <2>1, <2>2, <2>3, <2>4, <2>5, <2>6 DEF Next, Loop
<1> QED
  BY <1>1, <1>2, <1>3, <1>4, <1>5 DEF ClientTyped

LEMMA HandshakeStep == MqttInv /\ [Next]_vars => HandshakeInv' /\ OnlineMeansReady'
<1> SUFFICES ASSUME MqttInv, [Next]_vars PROVE HandshakeInv' /\ OnlineMeansReady'
  OBVIOUS
<1>0. /\ HandshakeInv /\ OnlineMeansReady /\ ClientTyped /\ ClientIsTheLast
      /\ handshake \in Handshake
  BY DEF MqttInv, ClientTyped
<1> USE DEF HandshakeInv, OnlineMeansReady
<1>1. CASE UNCHANGED <<threadVars, client, online, session, acked>>
  BY <1>0, <1>1 DEF threadVars
<1>2. CASE Start \/ StopJoin \/ NewClient \/ LoopEnds
  <2>1. loop' \in {"top", "off", "connack", "done"} /\ handshake' = NoHandshake /\ ~online'
    BY <1>0, <1>2 DEF Start, StopJoin, NewClient, LoopEnds
  <2> QED
    BY <2>1 DEF NoHandshake
<1>3. CASE ConnectFails \/ HandshakeFails \/ SessionLost \/ SessionStopped \/ WithdrawClient
  BY <1>0, <1>3 DEF ConnectFails, HandshakeFails, SessionLost, SessionStopped, WithdrawClient,
     brokerVars
<1>4. CASE DestroyClient
  BY <1>4 DEF DestroyClient, NoHandshake
<1>5. CASE Subscribe
  <2>1. handshake.pending = {} /\ ~handshake.expectReady /\ ~handshake.readyAcked /\ ~online
    BY <1>0, <1>5 DEF Subscribe, NoHandshake
  <2>2. Cardinality(nextId .. (nextId + Subscriptions - 1)) = Subscriptions
    BY <1>0, SubscriptionIds DEF ClientTyped
  <2>3. /\ handshake'.expected = Subscriptions /\ handshake'.expectReady = handshake.expectReady
        /\ handshake'.readyAcked = handshake.readyAcked
    BY <1>0, <1>5, <2>2 DEF Subscribe, Handshake
  <2> QED
    BY <1>5, <2>1, <2>3 DEF Subscribe
<1>6. ASSUME NEW m \in MessageId, NEW accepted \in BOOLEAN, SubAck(m, accepted)
      PROVE  HandshakeInv' /\ OnlineMeansReady'
  BY <1>0, <1>6 DEF SubAck, brokerVars, Handshake
<1>7. CASE PublishReady
  <2>1. /\ handshake'.pending = {} /\ handshake'.expected = Subscriptions
        /\ ~handshake'.readyAcked /\ loop' = "readyack" /\ ~online'
    BY <1>0, <1>7 DEF PublishReady, SubscriptionsReady, Handshake
  <2> QED
    BY <2>1
<1>8. CASE GoOnline
  BY <1>0, <1>8 DEF GoOnline, brokerVars, ClientIsTheLast
<1>9. ASSUME NEW m \in MessageId, PubAck(m) PROVE HandshakeInv' /\ OnlineMeansReady'
  <2>1. /\ UNCHANGED <<loop, online, client, session>> /\ acked \subseteq acked' /\ m \in acked'
        /\ loop \in {"suback", "readyack", "online"}
    BY <1>9 DEF PubAck, Connected
  <2>2. CASE UNCHANGED handshake
    BY <1>0, <2>1, <2>2
  <2>3. CASE /\ handshake.expectReady /\ m = handshake.ready
             /\ handshake' = [handshake EXCEPT !.expectReady = FALSE, !.readyAcked = TRUE]
    <3>1. /\ handshake'.pending = handshake.pending /\ handshake'.failed = handshake.failed
          /\ handshake'.expected = handshake.expected /\ handshake'.ready = m
      BY <1>0, <2>3 DEF Handshake
    <3> QED
      BY <1>0, <2>1, <2>3, <3>1
  <2> QED
    BY <1>9, <2>2, <2>3 DEF PubAck
<1>10. CASE StopBegin \/ Publishers \/ UNCHANGED vars
  BY <1>1, <1>10 DEF StopBegin, Publishers, vars, PublishInCallback, Publish, Settle, WaitEnds,
     Send, threadVars, brokerVars
<1> QED
  BY <1>2, <1>3, <1>4, <1>5, <1>6, <1>7, <1>8, <1>9, <1>10 DEF Next, Loop

\* A step that leaves the client, its ids and the calls alone.
IdsStay == UNCHANGED <<idVars, brokerVars, call, stray, handshake>> /\ (Destroyed' <=> Destroyed)

CallInv == IdsAreUsed /\ CallsHaveTheirIds /\ IdSetsInv /\ AckReachesItsWaiter

LEMMA IdsStayStep == ASSUME CallInv, IdsStay PROVE CallInv'
<1>1. \A p \in Publisher : Current(p)' <=> Current(p)
  BY DEF IdsStay, Current, Straddles, Idle, brokerVars
<1>2. IdsAreUsed'
  BY DEF CallInv, IdsStay, IdsAreUsed, Used, brokerVars
<1>3. CallsHaveTheirIds'
  BY <1>1 DEF CallInv, IdsStay, CallsHaveTheirIds, Used, brokerVars
<1>4. IdSetsInv'
  BY <1>1 DEF CallInv, IdsStay, IdSetsInv, Used, brokerVars, idVars
<1>5. AckReachesItsWaiter'
  BY DEF CallInv, IdsStay, AckReachesItsWaiter, Straddles, Idle, brokerVars, idVars
<1> QED
  BY <1>2, <1>3, <1>4, <1>5 DEF CallInv

LEMMA CallStep == MqttInv /\ [Next]_vars => CallInv'
<1> SUFFICES ASSUME MqttInv, [Next]_vars PROVE CallInv'
  OBVIOUS
<1>0. CallInv /\ HandshakeInv /\ ClientIsTheLast
  BY DEF MqttInv, CallInv
<1>1. /\ handshake \in Handshake /\ session \in Nat /\ nextId \in Nat /\ nextId > 0
      /\ call \in [Publisher -> Call] /\ Subscriptions \in Nat /\ stray \in BOOLEAN
      /\ loop \in LoopPc
  BY MqttClientAssumption DEF MqttInv, ClientTyped
<1> USE DEF Used
<1>3. CASE NewClient
  <2>1. nextId = 1 /\ inflight = {} /\ acked = {} /\ handshake.expectReady = FALSE
    BY <1>0, <1>3 DEF NewClient, CallInv, IdsAreUsed, Destroyed, HandshakeInv, NoHandshake
  <2>2. /\ UNCHANGED <<nextId, inflight, acked, handshake, idVars, call, stray>>
        /\ session' = session + 1 /\ ~Destroyed'
    BY <1>3 DEF NewClient, Destroyed
  <2>3. \A p \in Publisher : call[p].session \in Nat /\ call[p].session <= session
    BY <1>0, <1>1 DEF Call, CallInv, CallsHaveTheirIds
  <2>4. \A p \in Publisher : ~Current(p)'
    BY <1>1, <2>2, <2>3 DEF Current, Straddles, Idle
  <2>5. IdsAreUsed' /\ IdSetsInv'
    BY <1>0, <2>1, <2>2, <2>4 DEF CallInv, IdsAreUsed, IdSetsInv, idVars
  <2>6. CallsHaveTheirIds'
    BY <1>1, <2>2, <2>3, <2>4 DEF CallsHaveTheirIds
  <2>7. AckReachesItsWaiter'
    BY <2>1, <2>2 DEF AckReachesItsWaiter
  <2> QED
    BY <2>5, <2>6, <2>7 DEF CallInv
<1>4. CASE DestroyClient
  <2>1. \A p \in Publisher : ~Current(p)'
    BY <1>4 DEF DestroyClient, Current, Straddles, Destroyed
  <2>2. handshake'.expectReady = FALSE
    BY <1>4 DEF DestroyClient, NoHandshake
  <2>3. IdsAreUsed' /\ IdSetsInv' /\ AckReachesItsWaiter'
    BY <1>4, <2>1, <2>2 DEF DestroyClient, IdsAreUsed, IdSetsInv, AckReachesItsWaiter
  <2>4. CallsHaveTheirIds'
    BY <1>0, <1>4, <2>1 DEF DestroyClient, CallInv, CallsHaveTheirIds
  <2> QED
    BY <2>3, <2>4 DEF CallInv
<1>5. CASE Start \/ StopBegin \/ StopJoin \/ LoopEnds \/ ConnectFails \/ HandshakeFails
           \/ GoOnline \/ SessionLost \/ SessionStopped \/ WithdrawClient \/ UNCHANGED vars
  <2>1. IdsStay
    BY <1>5 DEF IdsStay, Start, StopBegin, StopJoin, LoopEnds, ConnectFails, HandshakeFails,
       GoOnline, SessionLost, SessionStopped, WithdrawClient, vars, threadVars, Destroyed
  <2> QED
    BY <1>0, <2>1, IdsStayStep
\* A handshake that goes on, with ids that are only taken from the next one on.
<1>6. ASSUME UNCHANGED <<call, stray, idVars, inflight, acked, session>>,
             nextId' \in Nat, nextId <= nextId', ~Destroyed, ~Destroyed',
             ~handshake'.expectReady
      PROVE  CallInv'
  <2>1. \A p \in Publisher : Current(p)' <=> Current(p)
    BY <1>6 DEF Current, Straddles, Idle
  <2>2. Used \subseteq Used'
    <3>1. nextId \in Nat /\ nextId' \in Nat /\ nextId <= nextId'
      BY <1>1, <1>6
    <3> QED
      BY <3>1, IntervalGrows
  <2> HIDE DEF Used
  <2>3. IdsAreUsed'
    BY <1>0, <1>6, <2>2 DEF CallInv, IdsAreUsed
  <2>4. CallsHaveTheirIds'
    BY <1>0, <1>6, <2>1, <2>2 DEF CallInv, CallsHaveTheirIds
  <2>5. IdSetsInv'
    BY <1>0, <1>6, <2>1, <2>2 DEF CallInv, IdSetsInv, idVars
  <2>6. AckReachesItsWaiter'
    BY <1>0, <1>6 DEF CallInv, AckReachesItsWaiter, Straddles, Idle, idVars
  <2> QED
    BY <2>3, <2>4, <2>5, <2>6 DEF CallInv
<1>7. CASE Subscribe
  <2>1. ~handshake'.expectReady
    BY <1>0, <1>1, <1>7 DEF Subscribe, HandshakeInv, NoHandshake, Handshake
  <2> QED
    BY <1>1, <1>6, <1>7, <2>1 DEF Subscribe, Destroyed
<1>8. ASSUME NEW m \in MessageId, NEW accepted \in BOOLEAN, SubAck(m, accepted) PROVE CallInv'
  <2>1. ~handshake'.expectReady
    BY <1>0, <1>1, <1>8 DEF SubAck, HandshakeInv, Handshake
  <2> QED
    BY <1>1, <1>6, <1>8, <2>1 DEF SubAck, Destroyed, brokerVars
\* A new id is in nobody's hands.
<1>9. ASSUME Send(nextId), ~Destroyed
      PROVE  /\ nextId' = nextId + 1 /\ Used' = Used \cup {nextId} /\ nextId \notin Used
             /\ inflight' = inflight \cup {nextId} /\ UNCHANGED <<acked, session>>
             /\ nextId \notin inflight /\ nextId \notin acked
  <2>1. nextId' = nextId + 1 /\ inflight' = inflight \cup {nextId} /\ UNCHANGED <<acked, session>>
    BY <1>9 DEF Send
  <2>2. Used' = Used \cup {nextId} /\ nextId \notin Used
    BY <1>1, <2>1
  <2> QED
    BY <1>0, <2>1, <2>2 DEF CallInv, IdsAreUsed
<1> HIDE DEF Used
<1>10. CASE PublishReady
  <2>1. /\ Send(nextId) /\ ~Destroyed /\ ~Destroyed'
        /\ UNCHANGED <<idVars, call, stray>>
        /\ handshake'.ready = nextId
    BY <1>1, <1>10 DEF PublishReady, Destroyed, Handshake
  <2>2. \A p \in Publisher : Current(p)' <=> Current(p)
    BY <1>9, <2>1 DEF Current, Straddles, Idle
  <2>3. IdsAreUsed'
    BY <1>0, <1>9, <2>1 DEF CallInv, IdsAreUsed
  <2>4. CallsHaveTheirIds'
    BY <1>0, <1>9, <2>1, <2>2 DEF CallInv, CallsHaveTheirIds
  <2>5. IdSetsInv'
    BY <1>0, <1>9, <2>1, <2>2 DEF CallInv, IdSetsInv, idVars
  <2>6. AckReachesItsWaiter'
    BY <1>0, <1>9, <2>1 DEF CallInv, AckReachesItsWaiter, Straddles, Idle, idVars
  <2> QED
    BY <2>3, <2>4, <2>5, <2>6 DEF CallInv
<1>11. CASE PublishInCallback
  <2>1. /\ Send(nextId) /\ ~Destroyed /\ ~Destroyed' /\ nonblocking' = nonblocking \cup {nextId}
        /\ UNCHANGED <<handshake, published, call, stray>>
    BY <1>1, <1>11 DEF PublishInCallback, Destroyed, threadVars
  <2>2. \A p \in Publisher : Current(p)' <=> Current(p)
    BY <1>9, <2>1 DEF Current, Straddles, Idle
  <2>3. IdsAreUsed'
    BY <1>0, <1>9, <2>1 DEF CallInv, IdsAreUsed
  <2>4. CallsHaveTheirIds'
    BY <1>0, <1>9, <2>1, <2>2 DEF CallInv, CallsHaveTheirIds
  <2>5. IdSetsInv'
    <3>1. \A p \in Publisher : Current(p) => call[p].id # nextId
      BY <1>0, <1>9, <2>1 DEF CallInv, CallsHaveTheirIds
    <3> QED
      BY <1>0, <1>9, <2>1, <2>2, <3>1 DEF CallInv, IdSetsInv
  <2>6. AckReachesItsWaiter'
    BY <1>0, <1>9, <2>1 DEF CallInv, AckReachesItsWaiter, Straddles, Idle
  <2> QED
    BY <2>3, <2>4, <2>5, <2>6 DEF CallInv
<1>12. ASSUME NEW p \in Publisher, NEW next \in {"settle", "wait"}, Publish(p, next) PROVE CallInv'
  <2>1. /\ Send(nextId) /\ ~Destroyed /\ ~Destroyed'
        /\ UNCHANGED <<handshake, idVars, stray>>
    BY <1>0, <1>12 DEF Publish, Destroyed, ClientIsTheLast, threadVars
  <2>2. /\ \A q \in Publisher \ {p} : call'[q] = call[q]
        /\ call'[p].id = nextId /\ call'[p].session = session
    BY <1>1, <1>12 DEF Publish
  <2>3. \A q \in Publisher \ {p} : Current(q)' <=> Current(q)
    BY <1>9, <2>1, <2>2 DEF Current, Straddles, Idle
  <2>4. IdsAreUsed'
    BY <1>0, <1>9, <2>1 DEF CallInv, IdsAreUsed
  <2>5. CallsHaveTheirIds'
    <3>1. \A q \in Publisher : call'[q].session <= session'
      BY <1>0, <1>1, <1>9, <2>1, <2>2 DEF CallInv, CallsHaveTheirIds
    <3>2. \A q \in Publisher \ {p} : Current(q) => call[q].id # nextId
      BY <1>0, <1>9, <2>1 DEF CallInv, CallsHaveTheirIds
    <3>3. handshake.expectReady => handshake.ready # nextId
      BY <1>0, <1>9, <2>1 DEF CallInv, IdsAreUsed
    <3>4. \A q \in Publisher : Current(q)' =>
            call'[q].id \in Used' /\ (handshake'.expectReady => call'[q].id # handshake'.ready)
      BY <1>0, <1>9, <2>1, <2>2, <2>3, <3>3 DEF CallInv, CallsHaveTheirIds
    <3>5. \A q, r \in Publisher : q # r /\ Current(q)' /\ Current(r)' => call'[q].id # call'[r].id
      BY <1>0, <2>2, <2>3, <3>2 DEF CallInv, CallsHaveTheirIds
    <3> QED
      BY <3>1, <3>4, <3>5 DEF CallsHaveTheirIds
  <2>6. IdSetsInv'
    <3>1. ~stray => nextId \notin nonblocking
      BY <1>0, <1>9, <2>1 DEF CallInv, IdSetsInv
    <3> QED
      BY <1>0, <1>9, <2>1, <2>2, <2>3, <3>1 DEF CallInv, IdSetsInv, idVars
  <2>7. AckReachesItsWaiter'
    BY <1>0, <1>9, <2>1, <2>2, <2>3 DEF CallInv, AckReachesItsWaiter, Current, Straddles, Idle,
       idVars
  <2> QED
    BY <2>4, <2>5, <2>6, <2>7 DEF CallInv
\* A call that returns without having outlived its client, or with nothing said any more.
<1>13. ASSUME NEW p \in Publisher, ~Idle(p), Return(p),
              UNCHANGED <<threadVars, brokerVars>>,
              ~Straddles(p) => published \ {call[p].id} \subseteq published'
                               /\ published' \subseteq published,
              ~Straddles(p) => nonblocking' \subseteq nonblocking \cup {call[p].id}
       PROVE  CallInv'
  <2>1. /\ UNCHANGED <<handshake, Destroyed, Used, nextId, inflight, acked, session>>
    BY <1>13 DEF threadVars, brokerVars, Destroyed, Used
  <2>2. \A q \in Publisher \ {p} : call'[q] = call[q]
    BY <1>1, <1>13 DEF Return
  <2>3. call'[p] = IdleCall /\ ~Current(p)'
    BY <1>1, <1>13 DEF Return, Current, Idle, IdleCall
  <2>4. \A q \in Publisher \ {p} : Current(q)' <=> Current(q)
    BY <2>1, <2>2 DEF Current, Straddles, Idle
  <2>5. ~stray' => ~stray /\ Current(p)
    BY <1>13 DEF Return, Current
  <2>6. IdsAreUsed'
    BY <1>0, <2>1 DEF CallInv, IdsAreUsed
  <2>7. CallsHaveTheirIds'
    <3>1. \A q \in Publisher : call'[q].session <= session'
      BY <1>0, <1>1, <2>1, <2>2, <2>3 DEF CallInv, CallsHaveTheirIds, IdleCall, NoSession
    <3> QED
      BY <1>0, <2>1, <2>2, <2>3, <2>4, <3>1 DEF CallInv, CallsHaveTheirIds
  <2>8. IdSetsInv'
    <3>1. ASSUME ~stray' PROVE published' \subseteq acked' /\ nonblocking' \subseteq Used'
      BY <1>0, <1>13, <2>1, <2>5, <3>1 DEF CallInv, IdSetsInv, CallsHaveTheirIds, Current
    <3>2. ASSUME ~stray', NEW q \in Publisher, Current(q)', call'[q].pc = "wait"
          PROVE  call'[q].id \notin nonblocking'
      <4>1. q # p /\ Current(q) /\ call'[q] = call[q]
        BY <2>2, <2>3, <2>4, <3>2
      <4>2. call[q].id # call[p].id /\ call[q].id \notin nonblocking
        BY <1>0, <2>5, <3>2, <4>1 DEF CallInv, IdSetsInv, CallsHaveTheirIds
      <4> QED
        BY <1>13, <2>5, <3>2, <4>1, <4>2 DEF Current
    <3> QED
      BY <3>1, <3>2 DEF IdSetsInv
  <2>9. AckReachesItsWaiter'
    <3> SUFFICES ASSUME NEW q \in Publisher, call'[q].pc = "wait", call'[q].id \in acked',
                        ~Straddles(q)', ~stray'
                 PROVE  call'[q].id \in published'
      BY DEF AckReachesItsWaiter
    <3>1. q # p /\ Current(q) /\ call'[q] = call[q] /\ ~Straddles(q)
      BY <2>2, <2>3, <2>4 DEF Current, Idle, IdleCall
    <3>2. call[q].id \in published /\ call[q].id # call[p].id
      BY <1>0, <2>1, <2>5, <3>1 DEF CallInv, AckReachesItsWaiter, CallsHaveTheirIds
    <3> QED
      BY <1>13, <2>5, <3>1, <3>2 DEF Current
  <2> QED
    BY <2>6, <2>7, <2>8, <2>9 DEF CallInv
<1>14. ASSUME NEW p \in Publisher, Settle(p) \/ WaitEnds(p) PROVE CallInv'
  BY <1>13, <1>14 DEF Settle, WaitEnds, Idle
<1>15. ASSUME NEW m \in MessageId, PubAck(m) PROVE CallInv'
  <2>1. /\ m \in inflight /\ inflight' = inflight \ {m} /\ acked' = acked \cup {m}
        /\ UNCHANGED <<loop, session, nextId, call, stray, Used, Destroyed>>
    BY <1>15 DEF PubAck, Destroyed, Used
  <2>2. \A p \in Publisher : (Current(p)' <=> Current(p)) /\ (Straddles(p)' <=> Straddles(p))
    BY <2>1 DEF Current, Straddles, Idle
  <2>3. handshake'.ready = handshake.ready /\ (handshake'.expectReady => handshake.expectReady)
    BY <1>1, <1>15 DEF PubAck, Handshake
  <2>4. \/ m = handshake.ready /\ handshake.expectReady /\ UNCHANGED idVars
        \/ m \in nonblocking /\ nonblocking' = nonblocking \ {m} /\ UNCHANGED published
        \/ m \notin nonblocking /\ published' = published \cup {m} /\ UNCHANGED nonblocking
    BY <1>15 DEF PubAck
  <2>5. IdsAreUsed'
    BY <1>0, <2>1, <2>3 DEF CallInv, IdsAreUsed
  <2>6. CallsHaveTheirIds'
    BY <1>0, <2>1, <2>2, <2>3 DEF CallInv, CallsHaveTheirIds
  <2>7. IdSetsInv'
    BY <1>0, <2>1, <2>2, <2>4 DEF CallInv, IdSetsInv, idVars
  <2>8. AckReachesItsWaiter'
    <3> SUFFICES ASSUME NEW p \in Publisher, call[p].pc = "wait", call[p].id \in acked',
                        ~Straddles(p), ~stray
                 PROVE  call[p].id \in published'
      BY <2>1, <2>2 DEF AckReachesItsWaiter
    <3>1. Current(p)
      BY DEF Current, Idle
    <3>2. CASE call[p].id = m
      <4>1. ~(m = handshake.ready /\ handshake.expectReady) /\ m \notin nonblocking
        BY <1>0, <3>1, <3>2 DEF CallInv, CallsHaveTheirIds, IdSetsInv
      <4> QED
        BY <2>4, <3>2, <4>1
    <3>3. CASE call[p].id # m
      BY <1>0, <2>1, <2>4, <3>3 DEF CallInv, AckReachesItsWaiter, idVars
    <3> QED
      BY <3>2, <3>3
  <2> QED
    BY <2>5, <2>6, <2>7, <2>8 DEF CallInv
<1> QED
  BY <1>3, <1>4, <1>5, <1>7, <1>8, <1>10, <1>11, <1>12, <1>14, <1>15
  DEF Next, Loop, Publishers

-----------------------------------------------------------------------------
(* The theorems.                                                           *)

\* What clients, handshakes, message ids and calls keep in every reachable state.
THEOREM SessionsAreKept == Spec => []MqttInv
<1>1. MqttInv /\ [Next]_vars => MqttInv'
  BY TypesStep, HandshakeStep, CallStep DEF MqttInv, CallInv
<1> QED
  BY <1>1, MqttInit, PTL DEF Spec

\* MqttSessionHandshake: nobody sees a session online that is not subscribed and
\* acknowledged, for any number of topics and of messages that cross the handshake.
THEOREM OnlineIsReady == Spec => []OnlineMeansReady
<1>1. MqttInv => OnlineMeansReady
  BY DEF MqttInv
<1> QED
  BY <1>1, SessionsAreKept, PTL

\* publish_payload: true means acknowledged by the broker, for any number of
\* publishers and clients, as long as no call has outlived its client.
THEOREM TrueMeansAcknowledged == Spec => []ToldOfOwnMessage
<1>1. MqttInv => ToldOfOwnMessage
  BY DEF MqttInv, IdSetsInv, ToldOfOwnMessage, Told
<1> QED
  BY <1>1, SessionsAreKept, PTL

\* mqtt_publish_callback: no PUBACK is swallowed or taken before its publisher sees it.
THEOREM AcksReachTheirWaiters == Spec => []AckReachesItsWaiter
<1>1. MqttInv => AckReachesItsWaiter
  BY DEF MqttInv
<1> QED
  BY <1>1, SessionsAreKept, PTL
=============================================================================
