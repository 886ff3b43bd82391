---------------------------- MODULE MessageQueue ----------------------------
(***************************************************************************)
(* mq/cc-message-queue.go: the callers of one PahoMessageQueue, its        *)
(* subscriptions map and the publish handlers it registers with the        *)
(* client, together with what the code relies on: a connection that drops  *)
(* and comes back by itself, and a broker that keeps the session of a      *)
(* disconnected client (CleanStartOnInitialConnection is false) until it   *)
(* expires, queues QoS 1 messages for it, and repeats unacknowledged ones. *)
(*                                                                         *)
(* The map has no lock. Each access is a step of its own, so callers       *)
(* interleave between any two of them; the fatal error Go raises when two  *)
(* accesses coincide is Crash.                                             *)
(***************************************************************************)
EXTENDS Naturals, Sequences

CONSTANTS
  Callers,        \* goroutines of the plugin that use the queue
  Topics,
  MaxSubscribes,  \* bound: Subscribe calls
  MaxMessages,    \* bound: messages published
  MaxDrops,       \* bound: times the connection is lost
  MaxExpiries,    \* bound: times the broker drops the session
  MaxCrashes      \* bound: times the process restarts

ASSUME BoundsAssumption ==
  {MaxSubscribes, MaxMessages, MaxDrops, MaxExpiries, MaxCrashes} \subseteq Nat
ASSUME TopicsAssumption == Topics # {}

VARIABLES
  pc,             \* pc[c]: where caller c is in Subscribe or UnSubscribe
  job,            \* job[c]: the topic and handler of the call in progress
  answer,         \* answer[c]: what the last call of c returned, and its topic
  subscriptions,  \* the map: the handler whose removal it holds, or None
  handlers,       \* the handlers AddOnPublishReceived has registered
  up,             \* the client is connected
  opened,         \* NewMqttMessageQueue has returned
  inflight,       \* the message being dispatched and the handlers left to call
  brokerSubs,     \* broker: the topics the session is subscribed to
  queue,          \* broker: messages of the session not yet acknowledged
  retained,       \* broker: the last message of each topic (0: none)
  subscribes, messages, drops, expiries, crashes,  \* bounded counters
  owed,           \* history: published while its topic had a live handler
  heard           \* history: passed to a handler of its own topic

None == 0
Ids == 1 .. MaxSubscribes
Message == [topic : Topics, id : 1 .. MaxMessages]
Handler == [topic : Topics, id : Ids]
AnyTopic == CHOOSE t \in Topics : TRUE
Idle == [msg |-> [topic |-> AnyTopic, id |-> None], todo |-> {}, current |-> FALSE]

callerVars == <<pc, job, answer>>
clientVars == <<subscriptions, handlers>>
linkVars == <<up, opened, inflight>>
brokerVars == <<brokerSubs, queue, retained>>
counters == <<subscribes, messages, drops, expiries, crashes>>
history == <<owed, heard>>
vars == <<callerVars, clientVars, linkVars, brokerVars, counters, history>>

Init ==
  /\ pc = [c \in Callers |-> "idle"]
  /\ job = [c \in Callers |-> [topic |-> AnyTopic, id |-> None]]
  /\ answer = [c \in Callers |-> [err |-> "none", topic |-> AnyTopic]]
  /\ subscriptions = [t \in Topics |-> None]
  /\ handlers = {}
  /\ up = FALSE /\ opened = FALSE /\ inflight = Idle
  /\ brokerSubs = {} /\ queue = <<>> /\ retained = [t \in Topics |-> None]
  /\ subscribes = 0 /\ messages = 0 /\ drops = 0 /\ expiries = 0 /\ crashes = 0
  /\ owed = {} /\ heard = {}

Returns(c, t, e) ==
  /\ pc' = [pc EXCEPT ![c] = "idle"]
  /\ answer' = [answer EXCEPT ![c] = [err |-> e, topic |-> t]]

(***************************************************************************)
(* Subscribe: look the topic up, wait for the SUBACK, register a handler,  *)
(* store its removal function.                                             *)
(***************************************************************************)

\* Mutant: the handler is registered without waiting for the SUBACK.
SubscribeWithoutSuback(c, t) ==
  /\ opened /\ pc[c] = "idle" /\ subscribes < MaxSubscribes
  /\ subscribes' = subscribes + 1
  /\ job' = [job EXCEPT ![c] = [topic |-> t, id |-> subscribes + 1]]
  /\ \/ subscriptions[t] # None /\ Returns(c, t, "ErrAlreadySubscribed")
     \/ /\ subscriptions[t] = None
        /\ pc' = [pc EXCEPT ![c] = "register"]
        /\ UNCHANGED answer
  /\ UNCHANGED <<clientVars, linkVars, brokerVars, history, messages, drops, expiries, crashes>>

Subscribe(c, t) ==
  /\ opened /\ pc[c] = "idle" /\ subscribes < MaxSubscribes
  /\ subscribes' = subscribes + 1
  /\ job' = [job EXCEPT ![c] = [topic |-> t, id |-> subscribes + 1]]
  /\ \/ subscriptions[t] # None /\ Returns(c, t, "ErrAlreadySubscribed")
     \/ /\ subscriptions[t] = None /\ up
        /\ pc' = [pc EXCEPT ![c] = "suback"]
        /\ UNCHANGED answer
     \/ subscriptions[t] = None /\ ~up /\ Returns(c, t, "connection")
  /\ UNCHANGED <<clientVars, linkVars, brokerVars, history, messages, drops, expiries, crashes>>

RegisterHandler(c) ==
  /\ pc[c] = "register"
  /\ handlers' = handlers \cup {job[c]}
  /\ pc' = [pc EXCEPT ![c] = "store"]
  /\ UNCHANGED <<job, answer, subscriptions, linkVars, brokerVars, counters, history>>

StoreSubscription(c) ==
  /\ pc[c] = "store"
  /\ subscriptions' = [subscriptions EXCEPT ![job[c].topic] = job[c].id]
  /\ Returns(c, job[c].topic, "none")
  /\ UNCHANGED <<job, handlers, linkVars, brokerVars, counters, history>>

(***************************************************************************)
(* UnSubscribe: look the topic up, call the removal function, delete the   *)
(* entry. The broker is never told.                                        *)
(***************************************************************************)
UnSubscribe(c, t) ==
  /\ opened /\ pc[c] = "idle"
  /\ \/ /\ subscriptions[t] = None
        /\ Returns(c, t, "ErrNotSubscribed")
        /\ UNCHANGED job
     \/ /\ subscriptions[t] # None
        /\ job' = [job EXCEPT ![c] = [topic |-> t, id |-> subscriptions[t]]]
        /\ pc' = [pc EXCEPT ![c] = "remove"]
        /\ UNCHANGED answer
  /\ UNCHANGED <<clientVars, linkVars, brokerVars, counters, history>>

\* Mutant: the removal function is not called.
RemoveNoHandler(c) ==
  /\ pc[c] = "remove"
  /\ owed' = {m \in owed : m.topic # job[c].topic}
  /\ pc' = [pc EXCEPT ![c] = "delete"]
  /\ UNCHANGED <<job, answer, clientVars, linkVars, brokerVars, counters, heard>>

\* Mutant: every handler of the topic is removed.
RemoveHandlersOfTopic(c) ==
  /\ pc[c] = "remove"
  /\ handlers' = {h \in handlers : h.topic # job[c].topic}
  /\ owed' = {m \in owed : m.topic # job[c].topic}
  /\ pc' = [pc EXCEPT ![c] = "delete"]
  /\ UNCHANGED <<job, answer, subscriptions, linkVars, brokerVars, counters, heard>>

\* Mutant: the handlers of every topic are removed.
RemoveAllHandlers(c) ==
  /\ pc[c] = "remove"
  /\ handlers' = {}
  /\ owed' = {m \in owed : m.topic # job[c].topic}
  /\ pc' = [pc EXCEPT ![c] = "delete"]
  /\ UNCHANGED <<job, answer, subscriptions, linkVars, brokerVars, counters, heard>>

RemoveHandler(c) ==
  /\ pc[c] = "remove"
  /\ handlers' = {h \in handlers : h.id # job[c].id}
  /\ owed' = {m \in owed : m.topic # job[c].topic}
  /\ pc' = [pc EXCEPT ![c] = "delete"]
  /\ UNCHANGED <<job, answer, subscriptions, linkVars, brokerVars, counters, heard>>

DeleteSubscription(c) ==
  /\ pc[c] = "delete"
  /\ subscriptions' = [subscriptions EXCEPT ![job[c].topic] = None]
  /\ Returns(c, job[c].topic, "none")
  /\ UNCHANGED <<job, handlers, linkVars, brokerVars, counters, history>>

(***************************************************************************)
(* Send, and the broker taking a message of this or another client: it     *)
(* becomes the retained message and is queued for a subscribed session.    *)
(***************************************************************************)
Live(t) == \E h \in handlers : h.topic = t /\ h.id = subscriptions[t]

Accept(t) ==
  LET m == [topic |-> t, id |-> messages + 1] IN
  /\ messages < MaxMessages
  /\ messages' = messages + 1
  /\ retained' = [retained EXCEPT ![t] = messages + 1]
  /\ queue' = IF t \in brokerSubs THEN Append(queue, m) ELSE queue
  /\ owed' = IF Live(t) THEN owed \cup {m} ELSE owed

\* Publish fails without a connection, and when the PUBACK is lost it fails
\* although the broker took the message.
Send(c, t) ==
  /\ opened /\ pc[c] = "idle"
  /\ \/ /\ up /\ Accept(t)
        /\ \E e \in {"none", "connection"} : Returns(c, t, e)
        /\ UNCHANGED <<brokerSubs, heard>>
     \/ /\ ~up /\ Returns(c, t, "connection")
        /\ UNCHANGED <<brokerVars, history, messages>>
  /\ UNCHANGED <<job, clientVars, linkVars, subscribes, drops, expiries, crashes>>

RemotePublish(t) ==
  /\ Accept(t)
  /\ UNCHANGED <<callerVars, clientVars, linkVars, brokerSubs, heard, subscribes, drops, expiries, crashes>>

(***************************************************************************)
(* The broker's answer to SUBSCRIBE, with the topic's retained message.    *)
(***************************************************************************)

\* Mutant: a topic without a retained message is sent one all the same.
BrokerSendsNothing(c) ==
  LET t == job[c].topic IN
  /\ pc[c] = "suback" /\ up
  /\ brokerSubs' = brokerSubs \cup {t}
  /\ queue' = Append(queue, [topic |-> t, id |-> retained[t]])
  /\ pc' = [pc EXCEPT ![c] = "ack"]
  /\ UNCHANGED <<job, answer, clientVars, linkVars, retained, counters, history>>

BrokerSubscribes(c) ==
  LET t == job[c].topic IN
  /\ pc[c] = "suback" /\ up
  /\ brokerSubs' = brokerSubs \cup {t}
  /\ queue' = IF retained[t] = None THEN queue
              ELSE Append(queue, [topic |-> t, id |-> retained[t]])
  /\ pc' = [pc EXCEPT ![c] = "ack"]
  /\ UNCHANGED <<job, answer, clientVars, linkVars, retained, counters, history>>

BrokerRefuses(c) ==
  /\ pc[c] = "suback" /\ up
  /\ Returns(c, job[c].topic, "refused")
  /\ UNCHANGED <<job, clientVars, linkVars, brokerVars, counters, history>>

SubackArrives(c) ==
  /\ pc[c] = "ack" /\ up
  /\ pc' = [pc EXCEPT ![c] = "register"]
  /\ UNCHANGED <<job, answer, clientVars, linkVars, brokerVars, counters, history>>

(***************************************************************************)
(* Delivery: one message at a time, to every registered handler whatever   *)
(* its topic, then the acknowledgement, with or without handlers.          *)
(***************************************************************************)
Dispatch ==
  /\ up /\ inflight.msg.id = None /\ queue # <<>>
  /\ inflight' = [msg |-> Head(queue), todo |-> handlers, current |-> TRUE]
  /\ UNCHANGED <<callerVars, clientVars, up, opened, brokerVars, counters, history>>

CallHandler(h) ==
  /\ h \in inflight.todo
  /\ inflight' = [inflight EXCEPT !.todo = @ \ {h}]
  /\ heard' = IF h.topic = inflight.msg.topic THEN heard \cup {inflight.msg} ELSE heard
  /\ UNCHANGED <<callerVars, clientVars, up, opened, brokerVars, counters, owed>>

\* An acknowledgement of a connection that is gone does not reach the broker.
Acknowledge ==
  /\ inflight.msg.id # None /\ inflight.todo = {}
  /\ inflight' = Idle
  /\ queue' = IF inflight.current THEN Tail(queue) ELSE queue
  /\ UNCHANGED <<callerVars, clientVars, up, opened, brokerSubs, retained, counters, history>>

(***************************************************************************)
(* The connection, the broker's session and the process.                   *)
(***************************************************************************)

\* Mutant: the client does not reconnect.
ConnectOnce ==
  /\ ~up /\ ~opened
  /\ up' = TRUE /\ opened' = TRUE
  /\ UNCHANGED <<callerVars, clientVars, inflight, brokerVars, counters, history>>

\* NewMqttMessageQueue waits for the first connection; later ones come back by
\* themselves, and OnConnectionUp subscribes to nothing.
Connect ==
  /\ ~up
  /\ up' = TRUE /\ opened' = TRUE
  /\ UNCHANGED <<callerVars, clientVars, inflight, brokerVars, counters, history>>

\* Mutant: a Subscribe that waits for its SUBACK is not told.
DisconnectSilently ==
  /\ up /\ drops < MaxDrops
  /\ up' = FALSE /\ drops' = drops + 1
  /\ inflight' = [inflight EXCEPT !.current = FALSE]
  /\ pc' = [c \in Callers |-> IF pc[c] = "ack" THEN "waiting" ELSE pc[c]]
  /\ UNCHANGED <<answer, job, clientVars, opened, brokerVars, subscribes, messages, expiries, crashes, history>>

Disconnect ==
  LET waiting == {c \in Callers : pc[c] \in {"suback", "ack"}} IN
  /\ up /\ drops < MaxDrops
  /\ up' = FALSE /\ drops' = drops + 1
  /\ inflight' = [inflight EXCEPT !.current = FALSE]
  /\ pc' = [c \in Callers |-> IF c \in waiting THEN "idle" ELSE pc[c]]
  /\ answer' = [c \in Callers |->
       IF c \in waiting THEN [err |-> "connection", topic |-> job[c].topic] ELSE answer[c]]
  /\ UNCHANGED <<job, clientVars, opened, brokerVars, subscribes, messages, expiries, crashes, history>>

\* sessionExpiryInterval passes without a connection.
SessionExpires ==
  /\ ~up /\ expiries < MaxExpiries
  /\ expiries' = expiries + 1
  /\ brokerSubs' = {} /\ queue' = <<>>
  /\ UNCHANGED <<callerVars, clientVars, linkVars, retained, subscribes, messages, drops, crashes, history>>

\* The process dies and is started again: the map and the handlers are gone.
Crash ==
  /\ crashes < MaxCrashes
  /\ crashes' = crashes + 1
  /\ pc' = [c \in Callers |-> "idle"]
  /\ subscriptions' = [t \in Topics |-> None]
  /\ handlers' = {} /\ owed' = {}
  /\ up' = FALSE /\ opened' = FALSE /\ inflight' = Idle
  /\ UNCHANGED <<job, answer, brokerVars, subscribes, messages, drops, expiries, heard>>

CallStep(c) ==
  RegisterHandler(c) \/ StoreSubscription(c) \/ RemoveHandler(c) \/ DeleteSubscription(c)
LinkStep(c) == BrokerSubscribes(c) \/ BrokerRefuses(c) \/ SubackArrives(c)
Delivery == Dispatch \/ Acknowledge \/ \E h \in Handler : CallHandler(h)
Request(c, t) == Subscribe(c, t) \/ UnSubscribe(c, t) \/ Send(c, t)

Next ==
  \/ \E c \in Callers : CallStep(c) \/ LinkStep(c)
  \/ \E c \in Callers, t \in Topics : Request(c, t)
  \/ \E t \in Topics : RemotePublish(t)
  \/ Delivery
  \/ Connect \/ Disconnect \/ SessionExpires \/ Crash

Spec == Init /\ [][Next]_vars
\* A call under way, the client's delivery loop and its reconnection go on.
FairSpec ==
  /\ Spec
  /\ \A c \in Callers : WF_vars(CallStep(c)) /\ WF_vars(LinkStep(c))
  /\ WF_vars(Delivery) /\ WF_vars(Connect)

(***************************************************************************)
(* Properties                                                              *)
(***************************************************************************)
PCs == {"idle", "suback", "ack", "register", "store", "remove", "delete"}
Errors == {"none", "ErrAlreadySubscribed", "ErrNotSubscribed", "connection", "refused"}

\* Types of the callers', the client's and the broker's variables.
TypeOK ==
  /\ pc \in [Callers -> PCs]
  /\ job \in [Callers -> [topic : Topics, id : Ids \cup {None}]]
  /\ answer \in [Callers -> [err : Errors, topic : Topics]]
  /\ subscriptions \in [Topics -> Ids \cup {None}]
  /\ handlers \subseteq Handler
  /\ up \in BOOLEAN /\ opened \in BOOLEAN
  /\ inflight \in [msg : [topic : Topics, id : 0 .. MaxMessages],
                   todo : SUBSET Handler, current : BOOLEAN]
  /\ brokerSubs \subseteq Topics
  /\ queue \in Seq(Message)
  /\ retained \in [Topics -> 0 .. MaxMessages]
  /\ subscribes \in 0 .. MaxSubscribes /\ messages \in 0 .. MaxMessages
  /\ drops \in 0 .. MaxDrops /\ expiries \in 0 .. MaxExpiries /\ crashes \in 0 .. MaxCrashes
  /\ owed \subseteq Message /\ heard \subseteq Message

\* The map never promises more than the client does: an entry's handler is
\* registered for that topic, unless a caller is between UnSubscribe's removal
\* and its delete. Holds for any number of callers.
RegisteredOrLeaving ==
  \A t \in Topics : subscriptions[t] # None =>
    \/ [topic |-> t, id |-> subscriptions[t]] \in handlers
    \/ \E c \in Callers : pc[c] = "delete" /\ job[c] = [topic |-> t, id |-> subscriptions[t]]

\* With a single caller the map is exact whenever that caller is not inside a
\* call: the registered handlers are those of its entries, one a topic.
SingleCaller == \A c, d \in Callers : c = d
ExactWhenAlone ==
  SingleCaller /\ (\A c \in Callers : pc[c] = "idle") =>
    handlers = {[topic |-> t, id |-> subscriptions[t]] :
                  t \in {u \in Topics : subscriptions[u] # None}}

\* As long as the session lives a registered handler has its broker
\* subscription: Subscribe registers only after the SUBACK, reconnecting loses
\* nothing and UnSubscribe of another topic takes nothing away.
BrokerKnowsHandlers ==
  expiries = 0 => \A h \in handlers : h.topic \in brokerSubs

\* At least once: while the session lives, a message published when its topic
\* had its handler is still queued at the broker or that topic's handler has
\* had it, through drops of the connection and repeated deliveries.
Queued(m) == \E i \in DOMAIN queue : queue[i] = m
NothingLost ==
  expiries = 0 => \A m \in owed : Queued(m) \/ m \in heard

\* Such a message reaches the handler, unless it is unsubscribed first (or the
\* process or its session is lost).
EventuallyHeard ==
  \A m \in Message : (m \in owed) ~> (m \in heard \/ m \notin owed \/ expiries > 0)

\* Subscribe returns: the caller is not left waiting for a SUBACK for ever.
SubscribeReturns == \A c \in Callers : (pc[c] # "idle") ~> (pc[c] = "idle")
=============================================================================
