----------------------------- MODULE MqttClient -----------------------------
(***************************************************************************)
(* MqttDeviceClient: one thread builds a client, hands it out, does the    *)
(* handshake, serves the session and builds a new client when the session  *)
(* is lost.  Any other thread publishes through the client of the moment.  *)
(* Message ids start anew with every client, and two sets of ids carry the *)
(* PUBACKs from the MQTT thread to the publishers.                         *)
(***************************************************************************)
EXTENDS Naturals, FiniteSets

CONSTANTS
  Publisher,     \* the calls of publish_payload and publish_payload_nonblocking
  Subscriptions, \* how many topics are subscribed, three in the code
  MaxMessages,   \* bound: messages of publishers in one session
  MaxSessions,   \* bound: clients created
  MaxStops       \* bound: stop() and start() again

ASSUME MqttClientAssumption ==
  /\ Subscriptions \in Nat \ {0}
  /\ MaxMessages \in Nat /\ MaxSessions \in Nat /\ MaxStops \in Nat

VARIABLES
  \* the MQTT thread and its ConnectState
  loop,          \* where mqtt_loop is
  handshake,     \* MqttSessionHandshake of this client
  \* MqttDeviceClient
  client,        \* mqtt_client_: the session it belongs to, or NoSession
  online, stop,  \* online_, stop_
  published,     \* published_message_ids_
  nonblocking,   \* nonblocking_message_ids_
  joining,       \* stop() waits for the thread
  \* libmosquitto and the broker
  session,       \* the last client created
  nextId,        \* the message id it gives next
  inflight,      \* messages published and not yet acknowledged
  acked,         \* history: messages of this session whose PUBACK has come
  \* the publishers
  call,          \* the call of each publisher in progress
  \* history and bounds
  stray,         \* a call has touched the id sets after its client was destroyed
  stops

threadVars  == <<loop, handshake>>
idVars      == <<published, nonblocking>>
brokerVars  == <<session, nextId, inflight, acked>>
ownerVars   == <<stop, joining, stops>>
vars == <<threadVars, client, online, idVars, brokerVars, ownerVars, call, stray>>

NoSession == 0

\* The ids of one client: the subscriptions, the ready message, the others.
MessageId == 1..(Subscriptions + 1 + MaxMessages)
NoId      == 0

NoHandshake == [pending |-> {}, expected |-> 0, failed |-> FALSE,
                ready |-> NoId, expectReady |-> FALSE, readyAcked |-> FALSE]
IdleCall    == [pc |-> "idle", id |-> NoId, session |-> NoSession]

Init ==
  /\ loop = "off" /\ handshake = NoHandshake
  /\ client = NoSession /\ online = FALSE /\ stop = FALSE
  /\ published = {} /\ nonblocking = {} /\ joining = FALSE
  /\ session = NoSession /\ nextId = 1 /\ inflight = {} /\ acked = {}
  /\ call = [p \in Publisher |-> IdleCall]
  /\ stray = FALSE /\ stops = 0

-----------------------------------------------------------------------------
(* start and stop, called by provisioning.                                 *)

Start ==
  /\ loop = "off" /\ ~joining
  /\ session < MaxSessions
  /\ stop' = FALSE /\ online' = FALSE
  /\ loop' = "top"
  /\ UNCHANGED <<handshake, client, idVars, brokerVars, joining, stops, call, stray>>

\* Mutant of StopBegin: the thread is joined without being told to stop.
StopBeginUntold ==
  /\ loop # "off" /\ ~joining
  /\ stops < MaxStops
  /\ joining' = TRUE /\ stops' = stops + 1
  /\ UNCHANGED <<threadVars, client, online, idVars, brokerVars, stop, call, stray>>

StopBegin ==
  /\ loop # "off" /\ ~joining
  /\ stops < MaxStops
  /\ stop' = TRUE /\ joining' = TRUE /\ stops' = stops + 1
  /\ UNCHANGED <<threadVars, client, online, idVars, brokerVars, call, stray>>

StopJoin ==
  /\ joining /\ loop = "done"
  /\ loop' = "off" /\ joining' = FALSE
  /\ UNCHANGED <<handshake, client, online, idVars, brokerVars, stop, stops, call, stray>>

-----------------------------------------------------------------------------
(* mqtt_loop.                                                              *)

\* Each turn makes a client and hands it out before it is connected.
NewClient ==
  /\ loop = "top" /\ ~stop
  /\ session < MaxSessions
  /\ online' = FALSE
  /\ session' = session + 1 /\ client' = session + 1
  /\ loop' = "connack"
  /\ UNCHANGED <<handshake, idVars, nextId, inflight, acked, ownerVars, call, stray>>

\* Configuration, connection and CONNACK may fail or time out.
ConnectFails ==
  /\ loop = "connack"
  /\ loop' = "close"
  /\ UNCHANGED <<handshake, client, online, idVars, brokerVars, ownerVars, call, stray>>

\* The topics are subscribed one after the other; their ids are expected.
Subscribe ==
  /\ loop = "connack"
  /\ nextId + Subscriptions \in MessageId
  /\ LET ids == nextId .. (nextId + Subscriptions - 1) IN
       handshake' = [handshake EXCEPT !.pending = ids, !.expected = Cardinality(ids)]
  /\ nextId' = nextId + Subscriptions
  /\ loop' = "suback"
  /\ UNCHANGED <<client, online, idVars, session, inflight, acked, ownerVars, call, stray>>

\* The broker answers in the order of the requests.
SubAck(m, accepted) ==
  /\ loop = "suback"
  /\ m \in handshake.pending /\ \A k \in handshake.pending : m <= k
  /\ handshake' = [handshake EXCEPT !.pending = @ \ {m}, !.failed = @ \/ ~accepted]
  /\ UNCHANGED <<loop, client, online, idVars, brokerVars, ownerVars, call, stray>>

SubscriptionsReady ==
  ~handshake.failed /\ handshake.expected > 0 /\ handshake.pending = {}

\* A message of the client: the id it gets, in flight until its PUBACK.
Send(m) ==
  /\ m = nextId /\ m \in MessageId
  /\ nextId' = nextId + 1
  /\ inflight' = inflight \cup {m}
  /\ UNCHANGED <<session, acked>>

PublishReady ==
  /\ loop = "suback"
  /\ SubscriptionsReady
  /\ Send(nextId)
  /\ handshake' = [handshake EXCEPT !.ready = nextId, !.expectReady = TRUE]
  /\ loop' = "readyack"
  /\ UNCHANGED <<client, online, idVars, ownerVars, call, stray>>

\* A refused subscription, a failed publication, a timeout, a lost connection.
HandshakeFails ==
  /\ loop \in {"suback", "readyack"}
  /\ loop' = "close"
  /\ UNCHANGED <<handshake, client, online, idVars, brokerVars, ownerVars, call, stray>>

GoOnline ==
  /\ loop = "readyack"
  /\ ~handshake.failed /\ handshake.readyAcked
  /\ online' = TRUE
  /\ loop' = "online"
  /\ UNCHANGED <<handshake, client, idVars, brokerVars, ownerVars, call, stray>>

SessionLost ==
  /\ loop = "online"
  /\ online' = FALSE
  /\ loop' = "close"
  /\ UNCHANGED <<handshake, client, idVars, brokerVars, ownerVars, call, stray>>

\* should_stop ends the session without taking online back yet.
SessionStopped ==
  /\ loop = "online" /\ stop
  /\ loop' = "close"
  /\ UNCHANGED <<handshake, client, online, idVars, brokerVars, ownerVars, call, stray>>

WithdrawClient ==
  /\ loop = "close"
  /\ client' = NoSession
  /\ loop' = "destroy"
  /\ UNCHANGED <<handshake, online, idVars, brokerVars, ownerVars, call, stray>>

\* Mutant of DestroyClient: the ids of PUBACKs outlive their client.
DestroyClientKeepingPublished ==
  /\ loop = "destroy"
  /\ inflight' = {} /\ acked' = {} /\ nextId' = 1
  /\ handshake' = NoHandshake
  /\ nonblocking' = {}
  /\ online' = FALSE
  /\ loop' = "top"
  /\ UNCHANGED <<client, published, session, ownerVars, call, stray>>

\* Mutant of DestroyClient: the ids nobody waits for outlive their client.
DestroyClientKeepingNonblocking ==
  /\ loop = "destroy"
  /\ inflight' = {} /\ acked' = {} /\ nextId' = 1
  /\ handshake' = NoHandshake
  /\ published' = {}
  /\ online' = FALSE
  /\ loop' = "top"
  /\ UNCHANGED <<client, nonblocking, session, ownerVars, call, stray>>

\* What was in flight is lost with the client; the ConnectState of the turn ends.
DestroyClient ==
  /\ loop = "destroy"
  /\ inflight' = {} /\ acked' = {} /\ nextId' = 1
  /\ handshake' = NoHandshake
  /\ published' = {} /\ nonblocking' = {}
  /\ online' = FALSE
  /\ loop' = "top"
  /\ UNCHANGED <<client, session, ownerVars, call, stray>>

LoopEnds ==
  /\ loop = "top" /\ stop
  /\ client' = NoSession /\ online' = FALSE
  /\ loop' = "done"
  /\ UNCHANGED <<handshake, idVars, brokerVars, ownerVars, call, stray>>

-----------------------------------------------------------------------------
(* mqtt_publish_callback, on the MQTT thread.                              *)

Connected == loop \in {"suback", "readyack", "online"}

\* Mutant of PubAck: any PUBACK confirms the ready message.
PubAckAsReady(m) ==
  /\ Connected
  /\ m \in inflight
  /\ inflight' = inflight \ {m}
  /\ acked' = acked \cup {m}
  /\ \/ /\ handshake.expectReady
        /\ handshake' = [handshake EXCEPT !.expectReady = FALSE, !.readyAcked = TRUE]
        /\ UNCHANGED idVars
     \/ /\ ~handshake.expectReady
        /\ IF m \in nonblocking
             THEN nonblocking' = nonblocking \ {m} /\ UNCHANGED published
             ELSE published' = published \cup {m} /\ UNCHANGED nonblocking
        /\ UNCHANGED handshake
  /\ UNCHANGED <<loop, client, online, session, nextId, ownerVars, call, stray>>

\* The handshake takes the PUBACK of its ready message, a nonblocking id
\* swallows one, and any other is left for the publisher that waits for it.
PubAck(m) ==
  /\ Connected
  /\ m \in inflight
  /\ inflight' = inflight \ {m}
  /\ acked' = acked \cup {m}
  /\ \/ /\ handshake.expectReady /\ m = handshake.ready
        /\ handshake' = [handshake EXCEPT !.expectReady = FALSE, !.readyAcked = TRUE]
        /\ UNCHANGED idVars
     \/ /\ ~(handshake.expectReady /\ m = handshake.ready)
        /\ IF m \in nonblocking
             THEN nonblocking' = nonblocking \ {m} /\ UNCHANGED published
             ELSE published' = published \cup {m} /\ UNCHANGED nonblocking
        /\ UNCHANGED handshake
  /\ UNCHANGED <<loop, client, online, session, nextId, ownerVars, call, stray>>

-----------------------------------------------------------------------------
(* publish_payload and publish_payload_nonblocking.                        *)

Idle(p) == call[p].pc = "idle"

\* Without a client, or when mosquitto_publish fails, the call returns false and
\* nothing changes.  Otherwise the message is handed to the client; its id is dealt
\* with in a later step, under another mutex.  Bound: none after a stray call, when
\* the properties of the id sets say nothing any more.
Publish(p, next) ==
  /\ Idle(p)
  /\ client # NoSession /\ ~stray
  /\ Send(nextId)
  /\ call' = [call EXCEPT ![p] = [pc |-> next, id |-> nextId, session |-> session]]
  /\ UNCHANGED <<threadVars, client, online, idVars, ownerVars, stray>>

Destroyed == loop \in {"off", "top", "done"}

\* A call that has outlived the client it published through.
Straddles(p) == ~Idle(p) /\ (call[p].session # session \/ Destroyed)

Return(p) ==
  /\ call' = [call EXCEPT ![p] = IdleCall]
  /\ stray' = (stray \/ Straddles(p))

\* The PUBACK may have come before the call notes that nobody waits for it.
Settle(p) ==
  /\ call[p].pc = "settle"
  /\ IF call[p].id \in published
       THEN published' = published \ {call[p].id} /\ UNCHANGED nonblocking
       ELSE nonblocking' = nonblocking \cup {call[p].id} /\ UNCHANGED published
  /\ Return(p)
  /\ UNCHANGED <<threadVars, client, online, brokerVars, ownerVars>>

\* What publish_payload returns: the PUBACK is there, and it is not stopping.
Told(p) == call[p].pc = "wait" /\ call[p].id \in published /\ ~stop

\* The wait ends with the PUBACK, with the stop, or after 5 s.
WaitEnds(p) ==
  /\ call[p].pc = "wait"
  /\ published' = published \ {call[p].id}
  /\ Return(p)
  /\ UNCHANGED <<threadVars, client, online, nonblocking, brokerVars, ownerVars>>

\* publish_payload out of a callback of mosquitto_loop: it must not wait for a
\* PUBACK that only its own thread can process.
PublishInCallback ==
  /\ loop = "online" /\ ~stray
  /\ Send(nextId)
  /\ nonblocking' = nonblocking \cup {nextId}
  /\ UNCHANGED <<threadVars, client, online, published, ownerVars, call, stray>>

-----------------------------------------------------------------------------
Loop ==
  \/ NewClient \/ ConnectFails \/ Subscribe \/ PublishReady \/ HandshakeFails
  \/ GoOnline \/ SessionLost \/ SessionStopped \/ WithdrawClient \/ DestroyClient
  \/ LoopEnds
  \/ \E m \in MessageId : PubAck(m) \/ \E accepted \in BOOLEAN : SubAck(m, accepted)

Publishers ==
  \/ PublishInCallback
  \/ \E p \in Publisher :
       \/ Publish(p, "settle") \/ Publish(p, "wait")
       \/ Settle(p) \/ WaitEnds(p)

Next == Start \/ StopBegin \/ StopJoin \/ Loop \/ Publishers

Spec == Init /\ [][Next]_vars

\* mqtt_loop runs; connecting and each wait of the handshake end after their
\* timeouts; a waiting publisher returns after 5 s.
Fairness ==
  /\ WF_vars(StopJoin) /\ WF_vars(ConnectFails) /\ WF_vars(HandshakeFails)
  /\ WF_vars(SessionStopped) /\ WF_vars(WithdrawClient) /\ WF_vars(DestroyClient)
  /\ WF_vars(LoopEnds)
  /\ \A p \in Publisher : WF_vars(Settle(p)) /\ WF_vars(WaitEnds(p))

FairSpec == Spec /\ Fairness

-----------------------------------------------------------------------------
(* Properties.                                                             *)

\* A blocking publish that returns true was acknowledged by the broker: the
\* PUBACK of another message never wakes it, nor one of an earlier client, whose
\* ids start again from 1.  A call that outlives its client is excepted: it may
\* take the PUBACK of a message of the next client with the same id.
ToldOfOwnMessage ==
  \A p \in Publisher :
    Told(p) /\ ~Straddles(p) /\ ~stray => call[p].id \in acked

\* While no call has outlived its client, a PUBACK that has come is there for
\* the publisher that waits for it: it was neither swallowed as the PUBACK of a
\* message nobody waits for, nor taken by somebody else.
AckReachesItsWaiter ==
  \A p \in Publisher :
    call[p].pc = "wait" /\ call[p].id \in acked /\ ~Straddles(p) /\ ~stray =>
      call[p].id \in published

\* online_ says that this session is usable: all three subscriptions granted and
\* its own ready message acknowledged, whatever publishers send through a client
\* that is handed out before the handshake.
OnlineMeansReady ==
  online => /\ client \in {session, NoSession}
            /\ handshake.expected = Subscriptions /\ handshake.pending = {}
            /\ ~handshake.failed /\ handshake.ready \in acked

\* stop() joins the MQTT thread in the end, wherever it meets it.
StopReturns == joining ~> ~joining
=============================================================================
