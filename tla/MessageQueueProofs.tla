------------------------- MODULE MessageQueueProofs -------------------------
(***************************************************************************)
(* What a PahoMessageQueue guarantees for any number of callers and topics,*)
(* although nothing protects its map: an entry never outlives its handler, *)
(* and a handler never outruns its subscription.                           *)
(***************************************************************************)
EXTENDS MessageQueue, TLAPS

\* What is being dispatched is at the head of the session's queue, as long as
\* the connection it came on is up.
DispatchInv ==
  /\ inflight.current => up /\ queue # <<>>
  /\ inflight.todo # {} => inflight.msg \in Message
  /\ \A c \in Callers : pc[c] \in {"suback", "ack", "register", "store"} => job[c].id \in Ids

TInv == TypeOK /\ DispatchInv

Subscribing(c) == pc[c] \in {"suback", "ack", "register", "store"}
Removing(c) == pc[c] \in {"remove", "delete"}

\* Who owns a handler. The id of a Subscribe in progress is known to its caller
\* alone until it is stored; an entry belongs to one topic, and so does a removal.
OwnerInv ==
  /\ \A c \in Callers : job[c].id <= subscribes
  /\ \A t \in Topics : subscriptions[t] <= subscribes
  /\ \A c \in Callers : Subscribing(c) =>
       /\ job[c].id # None
       /\ \A t \in Topics : subscriptions[t] # job[c].id
       /\ \A d \in Callers : d # c /\ pc[d] # "idle" => job[d].id # job[c].id
  /\ \A t, u \in Topics : subscriptions[t] # None /\ subscriptions[t] = subscriptions[u] => t = u
  /\ \A c \in Callers : Removing(c) => \A t \in Topics : subscriptions[t] = job[c].id => t = job[c].topic
  /\ \A c \in Callers : Removing(c) => job[c].id # None
  /\ \A c \in Callers : pc[c] = "store" => job[c] \in handlers

RInv == OwnerInv /\ RegisteredOrLeaving

\* A caller past the SUBACK has its subscription, as have the handlers.
SubackInv ==
  /\ expiries = 0 => \A c \in Callers : pc[c] \in {"ack", "register"} => job[c].topic \in brokerSubs
  /\ BrokerKnowsHandlers

\* An id belongs to one topic, among handlers, entries and calls under way alike.
OneTopicInv ==
  /\ \A h \in handlers : h.id <= subscribes
  /\ \A c \in Callers : pc[c] # "idle" => \A h \in handlers : h.id = job[c].id => h.topic = job[c].topic
  /\ \A t \in Topics : \A h \in handlers : h.id = subscriptions[t] => h.topic = t

\* A new message is none of those the broker or the history knows.
FreshInv ==
  /\ \A m \in owed : m.id <= messages
  /\ \A i \in DOMAIN queue : queue[i].id <= messages
  /\ \A t \in Topics : retained[t] <= messages

\* What is owed has its handler still, and the message being dispatched, while
\* its acknowledgement would count, is the first of the queue and has been or
\* will be passed to that handler.
OwedInv ==
  /\ \A m \in owed : \E h \in handlers : h.topic = m.topic
  /\ inflight.current =>
       /\ inflight.msg = Head(queue)
       /\ inflight.msg \in owed =>
            inflight.msg \in heard \/ \E h \in inflight.todo : h.topic = inflight.msg.topic
  /\ NothingLost

LInv == OneTopicInv /\ FreshInv /\ OwedInv

\* The entries, as handlers.
Entries == {[topic |-> t, id |-> subscriptions[t]] : t \in {u \in Topics : subscriptions[u] # None}}

\* Where a single caller is, the handlers differ from the entries by its call.
AloneInv ==
  SingleCaller =>
    /\ (\A c \in Callers : pc[c] \notin {"store", "delete"}) => handlers = Entries
    /\ \A c \in Callers :
         /\ Subscribing(c) => subscriptions[job[c].topic] = None
         /\ Removing(c) => subscriptions[job[c].topic] = job[c].id
         /\ pc[c] = "store" => handlers = Entries \cup {job[c]}
         /\ pc[c] = "delete" => handlers = Entries \ {job[c]}

(***************************************************************************)
(* Types                                                                   *)
(***************************************************************************)
\* The bounds are numbers.
LEMMA Bounds ==
  /\ MaxSubscribes \in Nat /\ MaxMessages \in Nat /\ MaxDrops \in Nat
  /\ MaxExpiries \in Nat /\ MaxCrashes \in Nat
BY BoundsAssumption

\* Nothing is dispatched when the queue is idle.
LEMMA IdleType ==
  /\ AnyTopic \in Topics
  /\ Idle \in [msg : [topic : Topics, id : 0 .. MaxMessages], todo : SUBSET Handler, current : BOOLEAN]
  /\ Idle.current = FALSE /\ Idle.todo = {} /\ Idle.msg.id = None
<1>1. AnyTopic \in Topics
  BY TopicsAssumption DEF AnyTopic
<1>2. [topic |-> AnyTopic, id |-> None] \in [topic : Topics, id : 0 .. MaxMessages]
  BY <1>1, Bounds DEF None
<1>. QED BY <1>1, <1>2 DEF Idle

\* The initial states have their types.
LEMMA InitTInv == Init => TInv
<1> SUFFICES ASSUME Init PROVE TInv
  OBVIOUS
<1>1. pc \in [Callers -> PCs] /\ job \in [Callers -> [topic : Topics, id : Ids \cup {None}]]
  BY IdleType DEF Init, PCs
<1>2. answer \in [Callers -> [err : Errors, topic : Topics]]
  BY IdleType DEF Init, Errors
<1>3. subscriptions \in [Topics -> Ids \cup {None}] /\ retained \in [Topics -> 0 .. MaxMessages]
  BY Bounds DEF Init, None
<1>4. DispatchInv
  BY IdleType DEF Init, DispatchInv
<1>5. queue \in Seq(Message)
  BY DEF Init
<1>6. /\ subscribes \in 0 .. MaxSubscribes /\ messages \in 0 .. MaxMessages
      /\ drops \in 0 .. MaxDrops /\ expiries \in 0 .. MaxExpiries /\ crashes \in 0 .. MaxCrashes
  BY Bounds DEF Init
<1>7. inflight \in [msg : [topic : Topics, id : 0 .. MaxMessages], todo : SUBSET Handler, current : BOOLEAN]
  BY IdleType DEF Init
<1>8. /\ handlers \subseteq Handler /\ up \in BOOLEAN /\ opened \in BOOLEAN
      /\ brokerSubs \subseteq Topics /\ owed \subseteq Message /\ heard \subseteq Message
  BY DEF Init
<1>. QED BY <1>1, <1>2, <1>3, <1>4, <1>5, <1>6, <1>7, <1>8 DEF TInv, TypeOK

\* What a return leaves in its caller's variables.
LEMMA ReturnsType ==
  ASSUME TypeOK, NEW c \in Callers, NEW t \in Topics, NEW e \in Errors, Returns(c, t, e)
  PROVE  /\ pc' \in [Callers -> PCs] /\ answer' \in [Callers -> [err : Errors, topic : Topics]]
         /\ \A d \in Callers : pc'[d] = IF d = c THEN "idle" ELSE pc[d]
<1>1. [err |-> e, topic |-> t] \in [err : Errors, topic : Topics]
  OBVIOUS
<1>2. "idle" \in PCs
  BY DEF PCs
<1>. QED BY <1>1, <1>2 DEF Returns, TypeOK

\* The record of the call a caller begins.
LEMMA SubscribeTInv ==
  ASSUME TInv, NEW c \in Callers, NEW t \in Topics, Subscribe(c, t)
  PROVE  TInv'
<1>1. subscribes' \in 0 .. MaxSubscribes /\ subscribes + 1 \in Ids
  BY Bounds DEF Subscribe, TInv, TypeOK, Ids
<1>2. [topic |-> t, id |-> subscribes + 1] \in [topic : Topics, id : Ids \cup {None}]
  BY <1>1
<1>3. job' \in [Callers -> [topic : Topics, id : Ids \cup {None}]]
  BY <1>2 DEF Subscribe, TInv, TypeOK
<1>4. \A d \in Callers : job'[d] = IF d = c THEN [topic |-> t, id |-> subscribes + 1] ELSE job[d]
  BY DEF Subscribe, TInv, TypeOK
<1>5. /\ pc' \in [Callers -> PCs] /\ answer' \in [Callers -> [err : Errors, topic : Topics]]
      /\ \A d \in Callers : d # c => pc'[d] = pc[d]
  <2>1. CASE \E e \in Errors : Returns(c, t, e)
    BY <2>1, ReturnsType DEF TInv
  <2>2. CASE pc' = [pc EXCEPT ![c] = "suback"] /\ UNCHANGED answer
    BY <2>2 DEF TInv, TypeOK, PCs
  <2>. QED BY <2>1, <2>2 DEF Subscribe, Errors
<1>6. DispatchInv'
  BY <1>1, <1>4, <1>5 DEF Subscribe, TInv, DispatchInv, linkVars, brokerVars
<1>. QED
  BY <1>1, <1>3, <1>5, <1>6 DEF Subscribe, TInv, TypeOK, clientVars, linkVars, brokerVars, history

\* UnSubscribe remembers the removal it found.
LEMMA UnSubscribeTInv ==
  ASSUME TInv, NEW c \in Callers, NEW t \in Topics, UnSubscribe(c, t)
  PROVE  TInv'
<1>1. [topic |-> t, id |-> subscriptions[t]] \in [topic : Topics, id : Ids \cup {None}]
  BY DEF TInv, TypeOK
<1>2. /\ job' \in [Callers -> [topic : Topics, id : Ids \cup {None}]]
      /\ \A d \in Callers : d # c => job'[d] = job[d]
  <2>1. job \in [Callers -> [topic : Topics, id : Ids \cup {None}]]
    BY DEF TInv, TypeOK
  <2>2. \/ job' = job
        \/ job' = [job EXCEPT ![c] = [topic |-> t, id |-> subscriptions[t]]]
    BY DEF UnSubscribe
  <2>. QED BY <1>1, <2>1, <2>2
<1>3. /\ pc' \in [Callers -> PCs] /\ answer' \in [Callers -> [err : Errors, topic : Topics]]
      /\ \A d \in Callers : d # c => pc'[d] = pc[d]
      /\ pc'[c] \in {"idle", "remove"}
  <2>1. CASE Returns(c, t, "ErrNotSubscribed")
    BY <2>1, ReturnsType DEF TInv, Errors
  <2>2. CASE pc' = [pc EXCEPT ![c] = "remove"] /\ UNCHANGED answer
    BY <2>2 DEF TInv, TypeOK, PCs
  <2>. QED BY <2>1, <2>2 DEF UnSubscribe
<1>4. DispatchInv'
  BY <1>2, <1>3 DEF UnSubscribe, TInv, DispatchInv, linkVars, brokerVars
<1>. QED
  BY <1>2, <1>3, <1>4
  DEF UnSubscribe, TInv, TypeOK, clientVars, linkVars, brokerVars, counters, history

\* The steps of a call after its first.
LEMMA CallStepTInv ==
  ASSUME TInv, NEW c \in Callers, CallStep(c)
  PROVE  TInv'
<1>1. job[c].topic \in Topics /\ job[c].id \in Ids \cup {None}
  BY DEF TInv, TypeOK
<1>2. /\ pc' \in [Callers -> PCs] /\ answer' \in [Callers -> [err : Errors, topic : Topics]]
      /\ \A d \in Callers : d # c => pc'[d] = pc[d]
      /\ pc'[c] = "store" => pc[c] = "register"
      /\ pc'[c] \in {"idle", "store", "delete"}
  <2>1. CASE Returns(c, job[c].topic, "none")
    BY <1>1, <2>1, ReturnsType DEF TInv, Errors
  <2>2. CASE pc[c] = "register" /\ pc' = [pc EXCEPT ![c] = "store"] /\ UNCHANGED answer
    BY <2>2 DEF TInv, TypeOK, PCs
  <2>3. CASE pc' = [pc EXCEPT ![c] = "delete"] /\ UNCHANGED answer
    BY <2>3 DEF TInv, TypeOK, PCs
  <2>. QED
    BY <2>1, <2>2, <2>3 DEF CallStep, RegisterHandler, StoreSubscription, RemoveHandler, DeleteSubscription
<1>3. subscriptions' \in [Topics -> Ids \cup {None}]
  BY <1>1 DEF CallStep, RegisterHandler, StoreSubscription, RemoveHandler, DeleteSubscription, TInv, TypeOK
<1>4. handlers' \subseteq Handler
  <2>1. pc[c] = "register" => job[c] \in Handler
    BY <1>1 DEF TInv, TypeOK, DispatchInv, Handler
  <2>. QED
    BY <2>1 DEF CallStep, RegisterHandler, StoreSubscription, RemoveHandler, DeleteSubscription, TInv, TypeOK
<1>5. owed' \subseteq Message /\ UNCHANGED <<job, linkVars, brokerVars, counters, heard>>
  BY DEF CallStep, RegisterHandler, StoreSubscription, RemoveHandler, DeleteSubscription, TInv, TypeOK, history
<1>6. DispatchInv'
  BY <1>2, <1>5 DEF TInv, DispatchInv, linkVars, brokerVars
<1>. QED
  BY <1>2, <1>3, <1>4, <1>5, <1>6 DEF TInv, TypeOK, linkVars, brokerVars, counters

\* A message the broker takes.
LEMMA AcceptTypes ==
  ASSUME TypeOK, NEW t \in Topics, Accept(t)
  PROVE  /\ messages' \in 0 .. MaxMessages
         /\ retained' \in [Topics -> 0 .. MaxMessages]
         /\ queue' \in Seq(Message) /\ (queue # <<>> => queue' # <<>>)
         /\ owed' \subseteq Message
<1> DEFINE m == [topic |-> t, id |-> messages + 1]
<1>1. messages' = messages + 1 /\ messages + 1 \in 1 .. MaxMessages
  BY Bounds DEF Accept, TypeOK
<1>2. m \in Message
  BY <1>1 DEF Message
<1>3. retained' = [retained EXCEPT ![t] = messages + 1]
  BY DEF Accept
<1>4. retained' \in [Topics -> 0 .. MaxMessages]
  BY <1>1, <1>3, Bounds DEF TypeOK
<1>5. (queue' = queue \/ queue' = Append(queue, m)) /\ (owed' = owed \/ owed' = owed \cup {m})
  BY DEF Accept
<1> HIDE DEF m
<1>6. queue' \in Seq(Message) /\ (queue # <<>> => queue' # <<>>) /\ owed' \subseteq Message
  <2>1. queue \in Seq(Message) /\ owed \subseteq Message
    BY DEF TypeOK
  <2>2. Append(queue, m) \in Seq(Message) /\ Append(queue, m) # <<>>
    BY <1>2, <2>1
  <2>. QED BY <1>2, <1>5, <2>1, <2>2
<1>. QED BY <1>1, <1>4, <1>6

\* A Send, whether or not the broker took the message.
LEMMA SendTInv ==
  ASSUME TInv, NEW c \in Callers, NEW t \in Topics, Send(c, t)
  PROVE  TInv'
<1>1. /\ pc' \in [Callers -> PCs] /\ answer' \in [Callers -> [err : Errors, topic : Topics]]
      /\ \A d \in Callers : pc'[d] = IF d = c THEN "idle" ELSE pc[d]
  BY ReturnsType DEF Send, TInv, Errors
<1>2. /\ messages' \in 0 .. MaxMessages
      /\ retained' \in [Topics -> 0 .. MaxMessages]
      /\ queue' \in Seq(Message) /\ (queue # <<>> => queue' # <<>>)
      /\ owed' \subseteq Message
  BY AcceptTypes DEF Send, TInv, TypeOK, brokerVars, history
<1>3. UNCHANGED <<brokerSubs, heard, job, clientVars, linkVars, subscribes, drops, expiries, crashes>>
  BY DEF Send, brokerVars, history
<1>4. DispatchInv'
  BY <1>1, <1>2, <1>3 DEF TInv, DispatchInv, linkVars
<1>. QED BY <1>1, <1>2, <1>3, <1>4 DEF TInv, TypeOK, clientVars, linkVars

\* A message of another client.
LEMMA RemotePublishTInv ==
  ASSUME TInv, NEW t \in Topics, RemotePublish(t)
  PROVE  TInv'
<1>1. /\ messages' \in 0 .. MaxMessages
      /\ retained' \in [Topics -> 0 .. MaxMessages]
      /\ queue' \in Seq(Message) /\ (queue # <<>> => queue' # <<>>)
      /\ owed' \subseteq Message
  BY AcceptTypes DEF RemotePublish, TInv
<1>2. UNCHANGED <<callerVars, clientVars, linkVars, brokerSubs, heard, subscribes, drops, expiries, crashes>>
  BY DEF RemotePublish
<1>3. DispatchInv'
  BY <1>1, <1>2 DEF TInv, DispatchInv, callerVars, linkVars
<1>. QED BY <1>1, <1>2, <1>3 DEF TInv, TypeOK, callerVars, clientVars, linkVars

\* The broker's answer to a SUBSCRIBE.
LEMMA LinkStepTInv ==
  ASSUME TInv, NEW c \in Callers, LinkStep(c)
  PROVE  TInv'
<1>1. job[c].topic \in Topics
  BY DEF TInv, TypeOK
<1>2. /\ pc' \in [Callers -> PCs] /\ answer' \in [Callers -> [err : Errors, topic : Topics]]
      /\ \A d \in Callers : d # c => pc'[d] = pc[d]
      /\ pc[c] \in {"suback", "ack"}
  <2>1. CASE Returns(c, job[c].topic, "refused") /\ pc[c] = "suback"
    BY <1>1, <2>1, ReturnsType DEF TInv, Errors
  <2>2. CASE pc' = [pc EXCEPT ![c] = "ack"] /\ UNCHANGED answer /\ pc[c] = "suback"
    BY <2>2 DEF TInv, TypeOK, PCs
  <2>3. CASE pc' = [pc EXCEPT ![c] = "register"] /\ UNCHANGED answer /\ pc[c] = "ack"
    BY <2>3 DEF TInv, TypeOK, PCs
  <2>. QED BY <2>1, <2>2, <2>3 DEF LinkStep, BrokerSubscribes, BrokerRefuses, SubackArrives
<1>3. /\ UNCHANGED <<job, clientVars, linkVars, retained, counters, history>>
      /\ brokerSubs' \subseteq Topics
  BY <1>1 DEF LinkStep, BrokerSubscribes, BrokerRefuses, SubackArrives, TInv, TypeOK, brokerVars
<1>4. queue' \in Seq(Message) /\ (queue # <<>> => queue' # <<>>)
  <2> DEFINE m == [topic |-> job[c].topic, id |-> retained[job[c].topic]]
  <2>1. \/ queue' = queue
        \/ retained[job[c].topic] # None /\ queue' = Append(queue, m)
    BY DEF LinkStep, BrokerSubscribes, BrokerRefuses, SubackArrives, brokerVars
  <2>2. retained[job[c].topic] # None => m \in Message
    BY <1>1, Bounds DEF TInv, TypeOK, Message, None
  <2>3. queue \in Seq(Message)
    BY DEF TInv, TypeOK
  <2> HIDE DEF m
  <2>. QED BY <2>1, <2>2, <2>3
<1>5. DispatchInv'
  BY <1>2, <1>3, <1>4 DEF TInv, DispatchInv, linkVars
<1>. QED
  BY <1>2, <1>3, <1>4, <1>5 DEF TInv, TypeOK, clientVars, linkVars, counters, history

\* A delivery.
LEMMA DeliveryTInv ==
  ASSUME TInv, Delivery
  PROVE  TInv'
<1>1. CASE Dispatch
  <2>1. queue \in Seq(Message) /\ queue # <<>>
    BY <1>1 DEF Dispatch, TInv, TypeOK
  <2>2. Head(queue) \in Message
    BY <2>1
  <2>3. Head(queue) \in [topic : Topics, id : 0 .. MaxMessages]
    BY <2>2, Bounds DEF Message
  <2>4. inflight' \in [msg : [topic : Topics, id : 0 .. MaxMessages], todo : SUBSET Handler, current : BOOLEAN]
    BY <1>1, <2>3 DEF Dispatch, TInv, TypeOK
  <2>5. DispatchInv'
    BY <1>1, <2>1, <2>2 DEF Dispatch, TInv, DispatchInv, callerVars, brokerVars
  <2>. QED
    BY <1>1, <2>4, <2>5
    DEF Dispatch, TInv, TypeOK, callerVars, clientVars, brokerVars, counters, history
<1>2. ASSUME NEW h \in Handler, CallHandler(h) PROVE TInv'
  <2>1. inflight.msg \in Message /\ heard' \subseteq Message
    BY <1>2 DEF CallHandler, TInv, TypeOK, DispatchInv
  <2>2. /\ inflight'.msg = inflight.msg /\ inflight'.current = inflight.current
        /\ inflight'.todo = inflight.todo \ {h}
        /\ inflight' \in [msg : [topic : Topics, id : 0 .. MaxMessages], todo : SUBSET Handler, current : BOOLEAN]
    BY <1>2 DEF CallHandler, TInv, TypeOK
  <2>3. DispatchInv'
    BY <1>2, <2>1, <2>2 DEF CallHandler, TInv, DispatchInv, callerVars, brokerVars
  <2>. QED
    BY <1>2, <2>1, <2>2, <2>3
    DEF CallHandler, TInv, TypeOK, callerVars, clientVars, brokerVars, counters
<1>3. CASE Acknowledge
  <2>1. queue \in Seq(Message) /\ (inflight.current => queue # <<>>)
    BY DEF TInv, TypeOK, DispatchInv
  <2>2. queue' \in Seq(Message)
    BY <1>3, <2>1 DEF Acknowledge
  <2>3. DispatchInv'
    BY <1>3, IdleType DEF Acknowledge, TInv, DispatchInv, callerVars
  <2>. QED
    BY <1>3, <2>2, <2>3, IdleType
    DEF Acknowledge, TInv, TypeOK, callerVars, clientVars, counters, history
<1>. QED BY <1>1, <1>2, <1>3 DEF Delivery

\* The connection comes, goes, and the session and the process with it.
LEMMA ConnectionTInv ==
  ASSUME TInv, Connect \/ Disconnect \/ SessionExpires \/ Crash
  PROVE  TInv'
<1>1. CASE Connect
  BY <1>1 DEF Connect, TInv, TypeOK, DispatchInv, callerVars, clientVars, brokerVars, counters, history
<1>2. CASE Disconnect
  <2>1. drops' \in 0 .. MaxDrops
    BY <1>2, Bounds DEF Disconnect, TInv, TypeOK
  <2>2. \A c \in Callers : [err |-> "connection", topic |-> job[c].topic] \in [err : Errors, topic : Topics]
    BY DEF TInv, TypeOK, Errors
  <2>3. answer' \in [Callers -> [err : Errors, topic : Topics]]
    BY <1>2, <2>2 DEF Disconnect, TInv, TypeOK
  <2>4. pc' \in [Callers -> PCs] /\ \A c \in Callers : pc'[c] \in {"idle", pc[c]}
    BY <1>2 DEF Disconnect, TInv, TypeOK, PCs
  <2>5. /\ inflight'.msg = inflight.msg /\ inflight'.current = FALSE /\ inflight'.todo = inflight.todo
        /\ inflight' \in [msg : [topic : Topics, id : 0 .. MaxMessages], todo : SUBSET Handler, current : BOOLEAN]
    BY <1>2 DEF Disconnect, TInv, TypeOK
  <2>6. DispatchInv'
    BY <1>2, <2>4, <2>5 DEF Disconnect, TInv, DispatchInv
  <2>. QED
    BY <1>2, <2>1, <2>3, <2>4, <2>5, <2>6
    DEF Disconnect, TInv, TypeOK, clientVars, brokerVars, history
<1>3. CASE SessionExpires
  <2>1. expiries' \in 0 .. MaxExpiries
    BY <1>3, Bounds DEF SessionExpires, TInv, TypeOK
  <2>2. DispatchInv'
    BY <1>3 DEF SessionExpires, TInv, DispatchInv, callerVars, linkVars
  <2>. QED
    BY <1>3, <2>1, <2>2 DEF SessionExpires, TInv, TypeOK, callerVars, clientVars, linkVars, history
<1>4. CASE Crash
  <2>1. crashes' \in 0 .. MaxCrashes
    BY <1>4, Bounds DEF Crash, TInv, TypeOK
  <2>2. pc' \in [Callers -> PCs] /\ \A c \in Callers : pc'[c] = "idle"
    BY <1>4 DEF Crash, PCs
  <2>3. subscriptions' \in [Topics -> Ids \cup {None}]
    BY <1>4 DEF Crash
  <2>4. DispatchInv'
    BY <1>4, <2>2, IdleType DEF Crash, DispatchInv
  <2>. QED
    BY <1>4, <2>1, <2>2, <2>3, <2>4, IdleType DEF Crash, TInv, TypeOK, brokerVars
<1>. QED BY <1>1, <1>2, <1>3, <1>4

\* The inductive step.
LEMMA NextTInv == TInv /\ [Next]_vars => TInv'
<1> SUFFICES ASSUME TInv, [Next]_vars PROVE TInv'
  OBVIOUS
<1>1. ASSUME NEW c \in Callers, CallStep(c) \/ LinkStep(c) PROVE TInv'
  BY <1>1, CallStepTInv, LinkStepTInv
<1>2. ASSUME NEW c \in Callers, NEW t \in Topics, Request(c, t) PROVE TInv'
  BY <1>2, SubscribeTInv, UnSubscribeTInv, SendTInv DEF Request
<1>3. ASSUME NEW t \in Topics, RemotePublish(t) PROVE TInv'
  BY <1>3, RemotePublishTInv
<1>4. CASE Delivery
  BY <1>4, DeliveryTInv
<1>5. CASE Connect \/ Disconnect \/ SessionExpires \/ Crash
  BY <1>5, ConnectionTInv
<1>6. CASE UNCHANGED vars
  BY <1>6 DEF vars, callerVars, clientVars, linkVars, brokerVars, counters, history, TInv, TypeOK, DispatchInv
<1>. QED BY <1>1, <1>2, <1>3, <1>4, <1>5, <1>6 DEF Next

\* The type invariant, strengthened, is inductive.
LEMMA TypesInductive == Spec => []TInv
<1>1. Init => TInv
  BY InitTInv
<1>2. TInv /\ [Next]_vars => TInv'
  BY NextTInv
<1>. QED BY <1>1, <1>2, PTL DEF Spec

\* Subscribe, UnSubscribe, Send and the connection keep the callers', the
\* client's and the broker's state within its types.
THEOREM TypeCorrect == Spec => []TypeOK
<1>1. TInv => TypeOK
  BY DEF TInv
<1>. QED BY <1>1, TypesInductive, PTL

(***************************************************************************)
(* The map and the handlers                                                *)
(***************************************************************************)
\* Steps that only move a caller through its SUBACK, or away from it.
LEMMA WaitingRInv ==
  ASSUME RInv, UNCHANGED <<job, subscriptions, handlers, subscribes>>,
         \A c \in Callers :
           \/ pc'[c] = pc[c]
           \/ pc[c] \in {"suback", "ack"} /\ pc'[c] \in {"idle", "ack", "register"}
  PROVE  RInv'
<1>1. \A c \in Callers : /\ Subscribing(c)' => Subscribing(c)
                         /\ Removing(c)' <=> Removing(c)
                         /\ pc'[c] # "idle" => pc[c] # "idle"
                         /\ pc'[c] = "store" <=> pc[c] = "store"
                         /\ pc'[c] = "delete" <=> pc[c] = "delete"
  BY DEF Subscribing, Removing
<1>2. OwnerInv'
  BY <1>1 DEF RInv, OwnerInv
<1>3. RegisteredOrLeaving'
  BY <1>1 DEF RInv, RegisteredOrLeaving
<1>. QED BY <1>2, <1>3 DEF RInv

\* A Subscribe takes an id nobody else has.
LEMMA SubscribeRInv ==
  ASSUME TInv, RInv, NEW c \in Callers, NEW t \in Topics, Subscribe(c, t)
  PROVE  RInv'
<1>1. /\ subscribes \in Nat /\ subscribes' = subscribes + 1
      /\ \A d \in Callers : job[d].id \in Nat /\ job[d].id <= subscribes
      /\ \A u \in Topics : subscriptions[u] \in Nat /\ subscriptions[u] <= subscribes
  BY DEF Subscribe, TInv, TypeOK, RInv, OwnerInv, Ids, None
<1>2. /\ job'[c] = [topic |-> t, id |-> subscribes + 1]
      /\ \A d \in Callers : d # c => job'[d] = job[d]
  BY DEF Subscribe, TInv, TypeOK
<1>3. /\ pc[c] = "idle" /\ pc'[c] \in {"idle", "suback"}
      /\ \A d \in Callers : d # c => pc'[d] = pc[d]
  BY DEF Subscribe, Returns, TInv, TypeOK
<1>4. UNCHANGED <<subscriptions, handlers>>
  BY DEF Subscribe, clientVars
<1>5. \A d \in Callers : /\ d # c => (Subscribing(d)' <=> Subscribing(d)) /\ (Removing(d)' <=> Removing(d))
                         /\ d = c => ~Removing(d)'
  BY <1>3 DEF Subscribing, Removing
<1>6. OwnerInv'
  <2>1. \A d \in Callers : job'[d].id <= subscribes'
    BY <1>1, <1>2
  <2>2. \A u \in Topics : subscriptions'[u] <= subscribes'
    BY <1>1, <1>4
  <2>3. ASSUME NEW d \in Callers, Subscribing(d)'
        PROVE  /\ job'[d].id # None
               /\ \A u \in Topics : subscriptions'[u] # job'[d].id
               /\ \A e \in Callers : e # d /\ pc'[e] # "idle" => job'[e].id # job'[d].id
    <3>1. CASE d = c
      BY <1>1, <1>2, <1>4, <3>1 DEF None
    <3>2. CASE d # c
      <4>1. Subscribing(d) /\ job'[d] = job[d] /\ job[d].id <= subscribes /\ job[d].id \in Nat
        BY <1>1, <1>2, <1>5, <2>3, <3>2
      <4>2. job'[c].id # job'[d].id
        BY <1>1, <1>2, <4>1
      <4>. QED BY <1>2, <1>3, <1>4, <4>1, <4>2 DEF RInv, OwnerInv
    <3>. QED BY <3>1, <3>2
  <2>4. \A d \in Callers : Removing(d)' => /\ job'[d].id # None
                                           /\ \A u \in Topics : subscriptions'[u] = job'[d].id => u = job'[d].topic
    BY <1>2, <1>4, <1>5 DEF RInv, OwnerInv
  <2>5. \A d \in Callers : pc'[d] = "store" => job'[d] \in handlers'
    BY <1>2, <1>3, <1>4 DEF RInv, OwnerInv
  <2>6. \A u, v \in Topics : subscriptions'[u] # None /\ subscriptions'[u] = subscriptions'[v] => u = v
    BY <1>4 DEF RInv, OwnerInv
  <2>. QED BY <2>1, <2>2, <2>3, <2>4, <2>5, <2>6 DEF OwnerInv
<1>7. RegisteredOrLeaving'
  BY <1>2, <1>3, <1>4 DEF RInv, RegisteredOrLeaving
<1>. QED BY <1>6, <1>7 DEF RInv

\* An UnSubscribe takes the id of an entry, which no Subscribe in progress has.
LEMMA UnSubscribeRInv ==
  ASSUME TInv, RInv, NEW c \in Callers, NEW t \in Topics, UnSubscribe(c, t)
  PROVE  RInv'
<1>1. UNCHANGED <<subscriptions, handlers, subscribes>> /\ pc[c] = "idle"
  BY DEF UnSubscribe, clientVars, counters
<1>2. CASE Returns(c, t, "ErrNotSubscribed") /\ UNCHANGED job
  <2>1. \A d \in Callers : pc'[d] = pc[d]
    BY <1>1, <1>2 DEF Returns, TInv, TypeOK
  <2>. QED BY <1>1, <1>2, <2>1, WaitingRInv
<1>3. CASE /\ subscriptions[t] # None
           /\ job' = [job EXCEPT ![c] = [topic |-> t, id |-> subscriptions[t]]]
           /\ pc' = [pc EXCEPT ![c] = "remove"]
  <2>1. /\ job'[c] = [topic |-> t, id |-> subscriptions[t]] /\ pc'[c] = "remove"
        /\ \A d \in Callers : d # c => job'[d] = job[d] /\ pc'[d] = pc[d]
    BY <1>3 DEF TInv, TypeOK
  <2>2. /\ ~Subscribing(c)'
        /\ \A d \in Callers : d # c => (Subscribing(d)' <=> Subscribing(d)) /\ (Removing(d)' <=> Removing(d))
    BY <2>1 DEF Subscribing, Removing
  <2>3. ASSUME NEW d \in Callers, Subscribing(d)'
        PROVE  /\ job'[d].id # None
               /\ \A u \in Topics : subscriptions'[u] # job'[d].id
               /\ \A e \in Callers : e # d /\ pc'[e] # "idle" => job'[e].id # job'[d].id
    BY <1>1, <2>1, <2>2, <2>3 DEF RInv, OwnerInv
  <2>4. \A d \in Callers : Removing(d)' => /\ job'[d].id # None
                                           /\ \A u \in Topics : subscriptions'[u] = job'[d].id => u = job'[d].topic
    BY <1>1, <1>3, <2>1, <2>2 DEF RInv, OwnerInv
  <2>5. OwnerInv'
    BY <1>1, <2>1, <2>3, <2>4 DEF RInv, OwnerInv
  <2>6. RegisteredOrLeaving'
    BY <1>1, <2>1 DEF RInv, RegisteredOrLeaving
  <2>. QED BY <2>5, <2>6 DEF RInv
<1>. QED BY <1>2, <1>3 DEF UnSubscribe

\* A handler is registered before its entry is stored.
LEMMA RegisterHandlerRInv ==
  ASSUME TInv, RInv, NEW c \in Callers, RegisterHandler(c)
  PROVE  RInv'
<1>1. /\ UNCHANGED <<job, subscriptions, subscribes>>
      /\ handlers' = handlers \cup {job[c]}
      /\ pc[c] = "register" /\ pc'[c] = "store"
      /\ \A d \in Callers : d # c => pc'[d] = pc[d]
  BY DEF RegisterHandler, counters, TInv, TypeOK
<1>2. \A d \in Callers : /\ Subscribing(d)' <=> Subscribing(d)
                         /\ Removing(d)' <=> Removing(d)
                         /\ pc'[d] # "idle" => pc[d] # "idle"
  BY <1>1 DEF Subscribing, Removing
<1>3. OwnerInv'
  BY <1>1, <1>2 DEF RInv, OwnerInv
<1>4. RegisteredOrLeaving'
  BY <1>1 DEF RInv, RegisteredOrLeaving
<1>. QED BY <1>3, <1>4 DEF RInv

\* The stored entry has its handler.
LEMMA StoreSubscriptionRInv ==
  ASSUME TInv, RInv, NEW c \in Callers, StoreSubscription(c)
  PROVE  RInv'
<1>1. /\ UNCHANGED <<job, handlers, subscribes>>
      /\ pc[c] = "store" /\ pc'[c] = "idle"
      /\ \A d \in Callers : d # c => pc'[d] = pc[d]
      /\ job[c].topic \in Topics
  BY DEF StoreSubscription, Returns, counters, TInv, TypeOK
<1>2. \A u \in Topics : subscriptions'[u] = IF u = job[c].topic THEN job[c].id ELSE subscriptions[u]
  BY DEF StoreSubscription, TInv, TypeOK
<1>3. /\ Subscribing(c) /\ ~Subscribing(c)' /\ ~Removing(c)'
      /\ \A d \in Callers : d # c => (Subscribing(d)' <=> Subscribing(d)) /\ (Removing(d)' <=> Removing(d))
  BY <1>1 DEF Subscribing, Removing
<1>4. /\ job[c].id # None /\ job[c] \in handlers /\ job[c].id <= subscribes
      /\ \A u \in Topics : subscriptions[u] # job[c].id
      /\ \A d \in Callers : d # c /\ pc[d] # "idle" => job[d].id # job[c].id
  BY <1>1, <1>3 DEF RInv, OwnerInv
<1>5. OwnerInv'
  <2>1. \A d \in Callers : Subscribing(d)' =>
          /\ job'[d].id # None
          /\ \A u \in Topics : subscriptions'[u] # job'[d].id
          /\ \A e \in Callers : e # d /\ pc'[e] # "idle" => job'[e].id # job'[d].id
    <3>1. \A d \in Callers : Subscribing(d) => pc[d] # "idle"
      BY DEF Subscribing
    <3>. QED BY <1>1, <1>2, <1>3, <1>4, <3>1 DEF RInv, OwnerInv
  <2>2. \A d \in Callers : Removing(d)' =>
          /\ job'[d].id # None
          /\ \A u \in Topics : subscriptions'[u] = job'[d].id => u = job'[d].topic
    <3>1. \A d \in Callers : Removing(d) => pc[d] # "idle"
      BY DEF Removing
    <3>. QED BY <1>1, <1>2, <1>3, <1>4, <3>1 DEF RInv, OwnerInv
  <2>3. \A t, u \in Topics : subscriptions'[t] # None /\ subscriptions'[t] = subscriptions'[u] => t = u
    BY <1>2, <1>4 DEF RInv, OwnerInv
  <2>. QED BY <1>1, <1>2, <1>4, <2>1, <2>2, <2>3 DEF RInv, OwnerInv
<1>6. RegisteredOrLeaving'
  <2>1. job[c] = [topic |-> job[c].topic, id |-> job[c].id]
    BY DEF TInv, TypeOK
  <2>. QED BY <1>1, <1>2, <1>4, <2>1 DEF RInv, RegisteredOrLeaving
<1>. QED BY <1>5, <1>6 DEF RInv

\* Removing a handler takes it from no other topic and from no Subscribe in
\* progress; its own entry is then being deleted.
LEMMA RemoveHandlerRInv ==
  ASSUME TInv, RInv, NEW c \in Callers, RemoveHandler(c)
  PROVE  RInv'
<1>1. /\ UNCHANGED <<job, subscriptions, subscribes>>
      /\ handlers' = {h \in handlers : h.id # job[c].id}
      /\ pc[c] = "remove" /\ pc'[c] = "delete"
      /\ \A d \in Callers : d # c => pc'[d] = pc[d]
  BY DEF RemoveHandler, counters, TInv, TypeOK
<1>2. \A d \in Callers : /\ Subscribing(d)' <=> Subscribing(d)
                         /\ Removing(d)' <=> Removing(d)
                         /\ pc'[d] # "idle" <=> pc[d] # "idle"
  BY <1>1 DEF Subscribing, Removing
<1>3. \A d \in Callers : pc'[d] = "store" => job'[d] \in handlers'
  BY <1>1 DEF RInv, OwnerInv, Subscribing
<1>4. OwnerInv'
  BY <1>1, <1>2, <1>3 DEF RInv, OwnerInv
<1>5. RegisteredOrLeaving'
  <2>1. ASSUME NEW t \in Topics, subscriptions[t] # None
        PROVE  \/ [topic |-> t, id |-> subscriptions[t]] \in handlers'
               \/ \E d \in Callers : pc'[d] = "delete" /\ job[d] = [topic |-> t, id |-> subscriptions[t]]
    <3>1. CASE subscriptions[t] = job[c].id
      <4>1. t = job[c].topic
        BY <1>1, <3>1 DEF RInv, OwnerInv, Removing
      <4>2. job[c] = [topic |-> t, id |-> subscriptions[t]]
        BY <3>1, <4>1 DEF TInv, TypeOK
      <4>. QED BY <1>1, <4>2
    <3>2. CASE subscriptions[t] # job[c].id
      BY <1>1, <2>1, <3>2 DEF RInv, RegisteredOrLeaving
    <3>. QED BY <3>1, <3>2
  <2>. QED BY <1>1, <2>1 DEF RegisteredOrLeaving
<1>. QED BY <1>4, <1>5 DEF RInv

\* Deleting an entry leaves the other entries as they were.
LEMMA DeleteSubscriptionRInv ==
  ASSUME TInv, RInv, NEW c \in Callers, DeleteSubscription(c)
  PROVE  RInv'
<1>1. /\ UNCHANGED <<job, handlers, subscribes>>
      /\ pc[c] = "delete" /\ pc'[c] = "idle"
      /\ \A d \in Callers : d # c => pc'[d] = pc[d]
      /\ subscribes \in Nat
  BY DEF DeleteSubscription, Returns, counters, TInv, TypeOK
<1>2. \A u \in Topics : subscriptions'[u] = IF u = job[c].topic THEN None ELSE subscriptions[u]
  BY DEF DeleteSubscription, TInv, TypeOK
<1>3. \A d \in Callers : /\ Subscribing(d)' <=> Subscribing(d)
                         /\ Removing(d)' => Removing(d)
                         /\ pc'[d] # "idle" => pc[d] # "idle"
                         /\ pc'[d] = "store" => pc[d] = "store"
  BY <1>1 DEF Subscribing, Removing
<1>4. OwnerInv'
  <2>1. \A u \in Topics : subscriptions'[u] <= subscribes'
    BY <1>1, <1>2 DEF RInv, OwnerInv, None
  <2>. QED BY <1>1, <1>2, <1>3, <2>1 DEF RInv, OwnerInv
<1>5. RegisteredOrLeaving'
  <2>1. ASSUME NEW t \in Topics, subscriptions'[t] # None
        PROVE  \/ [topic |-> t, id |-> subscriptions'[t]] \in handlers'
               \/ \E d \in Callers : pc'[d] = "delete" /\ job'[d] = [topic |-> t, id |-> subscriptions'[t]]
    <3>1. t # job[c].topic /\ subscriptions'[t] = subscriptions[t]
      BY <1>2, <2>1
    <3>2. CASE [topic |-> t, id |-> subscriptions[t]] \in handlers
      BY <1>1, <3>1, <3>2
    <3>3. ASSUME NEW d \in Callers, pc[d] = "delete", job[d] = [topic |-> t, id |-> subscriptions[t]]
          PROVE  pc'[d] = "delete" /\ job'[d] = [topic |-> t, id |-> subscriptions'[t]]
      BY <1>1, <3>1, <3>3
    <3>. QED BY <2>1, <3>1, <3>2, <3>3 DEF RInv, RegisteredOrLeaving
  <2>. QED BY <2>1 DEF RegisteredOrLeaving
<1>. QED BY <1>4, <1>5 DEF RInv

\* After a restart there is nothing to keep.
LEMMA CrashRInv ==
  ASSUME TInv, RInv, Crash
  PROVE  RInv'
<1>1. /\ UNCHANGED <<job, subscribes>> /\ subscribes \in Nat
      /\ \A d \in Callers : pc'[d] = "idle"
      /\ \A u \in Topics : subscriptions'[u] = None
  BY DEF Crash, TInv, TypeOK
<1>2. \A d \in Callers : ~Subscribing(d)' /\ ~Removing(d)' /\ pc'[d] # "store"
  BY <1>1 DEF Subscribing, Removing
<1>. QED BY <1>1, <1>2 DEF RInv, OwnerInv, RegisteredOrLeaving, None

\* The inductive step.
LEMMA NextRInv == TInv /\ RInv /\ [Next]_vars => RInv'
<1> SUFFICES ASSUME TInv, RInv, [Next]_vars PROVE RInv'
  OBVIOUS
<1>1. ASSUME NEW c \in Callers, CallStep(c) PROVE RInv'
  BY <1>1, RegisterHandlerRInv, StoreSubscriptionRInv, RemoveHandlerRInv, DeleteSubscriptionRInv DEF CallStep
<1>2. ASSUME NEW c \in Callers, LinkStep(c) PROVE RInv'
  BY <1>2, WaitingRInv
  DEF LinkStep, BrokerSubscribes, BrokerRefuses, SubackArrives, Returns, clientVars, counters, TInv, TypeOK
<1>3. ASSUME NEW c \in Callers, NEW t \in Topics, Send(c, t) PROVE RInv'
  BY <1>3, WaitingRInv DEF Send, Returns, clientVars, TInv, TypeOK
<1>4. ASSUME NEW c \in Callers, NEW t \in Topics, Request(c, t) PROVE RInv'
  BY <1>3, <1>4, SubscribeRInv, UnSubscribeRInv DEF Request
<1>5. ASSUME NEW t \in Topics, RemotePublish(t) PROVE RInv'
  BY <1>5, WaitingRInv DEF RemotePublish, callerVars, clientVars
<1>6. CASE Delivery
  BY <1>6, WaitingRInv DEF Delivery, Dispatch, CallHandler, Acknowledge, callerVars, clientVars, counters
<1>7. CASE Connect \/ SessionExpires
  BY <1>7, WaitingRInv DEF Connect, SessionExpires, callerVars, clientVars, counters
<1>8. CASE Disconnect
  BY <1>8, WaitingRInv DEF Disconnect, clientVars, TInv, TypeOK
<1>9. CASE Crash
  BY <1>9, CrashRInv
<1>10. CASE UNCHANGED vars
  BY <1>10, WaitingRInv DEF vars, callerVars, clientVars, counters
<1>. QED BY <1>1, <1>2, <1>4, <1>5, <1>6, <1>7, <1>8, <1>9, <1>10 DEF Next

\* The map never promises a handler the client does not have, however many
\* callers use the queue at once and whatever happens to the connection.
THEOREM MapIsBacked == Spec => []RegisteredOrLeaving
<1>1. Init => RInv
  BY DEF Init, RInv, OwnerInv, RegisteredOrLeaving, Subscribing, Removing, None
<1>2. TInv /\ RInv /\ [Next]_vars => RInv'
  BY NextRInv
<1>3. RInv => RegisteredOrLeaving
  BY DEF RInv
<1>. QED BY <1>1, <1>2, <1>3, TypesInductive, PTL DEF Spec

(***************************************************************************)
(* The handlers and the broker's subscriptions                             *)
(***************************************************************************)
\* Steps that keep the broker's subscriptions and add no handler, and take no
\* caller past its SUBACK.
LEMMA QuietSubackInv ==
  ASSUME TInv, SubackInv, UNCHANGED expiries, brokerSubs \subseteq brokerSubs', handlers' \subseteq handlers,
         \A c \in Callers : pc'[c] \in {"ack", "register"} =>
           pc[c] \in {"ack", "register"} /\ job'[c].topic = job[c].topic
  PROVE  SubackInv'
BY DEF SubackInv, BrokerKnowsHandlers

\* The steps of a call: only a caller past its SUBACK registers a handler.
LEMMA CallStepSubackInv ==
  ASSUME TInv, SubackInv, NEW c \in Callers, CallStep(c)
  PROVE  SubackInv'
<1>1. UNCHANGED <<job, brokerSubs, expiries>>
  BY DEF CallStep, RegisterHandler, StoreSubscription, RemoveHandler, DeleteSubscription, brokerVars, counters
<1>2. \A d \in Callers : pc'[d] \in {"ack", "register"} => pc[d] \in {"ack", "register"}
  BY DEF CallStep, RegisterHandler, StoreSubscription, RemoveHandler, DeleteSubscription, Returns, TInv, TypeOK
<1>3. \/ pc[c] = "register" /\ handlers' = handlers \cup {job[c]}
      \/ handlers' \subseteq handlers
  BY DEF CallStep, RegisterHandler, StoreSubscription, RemoveHandler, DeleteSubscription
<1>. QED BY <1>1, <1>2, <1>3 DEF SubackInv, BrokerKnowsHandlers

\* The broker's answer: the SUBACK is sent after the subscription is made.
LEMMA LinkStepSubackInv ==
  ASSUME TInv, SubackInv, NEW c \in Callers, LinkStep(c)
  PROVE  SubackInv'
<1>1. UNCHANGED <<job, handlers, expiries>>
  BY DEF LinkStep, BrokerSubscribes, BrokerRefuses, SubackArrives, clientVars, counters
<1>2. CASE BrokerSubscribes(c)
  <2>1. brokerSubs' = brokerSubs \cup {job[c].topic}
    BY <1>2 DEF BrokerSubscribes
  <2>2. \A d \in Callers : d # c => pc'[d] = pc[d]
    BY <1>2 DEF BrokerSubscribes, TInv, TypeOK
  <2>. QED BY <1>1, <2>1, <2>2 DEF SubackInv, BrokerKnowsHandlers
<1>3. CASE BrokerRefuses(c) \/ SubackArrives(c)
  BY <1>1, <1>3, QuietSubackInv DEF BrokerRefuses, SubackArrives, Returns, brokerVars, TInv, TypeOK
<1>. QED BY <1>2, <1>3 DEF LinkStep

\* The calls begin without a subscription of theirs.
LEMMA RequestSubackInv ==
  ASSUME TInv, SubackInv, NEW c \in Callers, NEW t \in Topics, Request(c, t)
  PROVE  SubackInv'
<1>1. UNCHANGED <<handlers, brokerSubs, expiries>>
  BY DEF Request, Subscribe, UnSubscribe, Send, clientVars, brokerVars, counters
<1>2. \A d \in Callers : pc'[d] \in {"ack", "register"} => pc[d] \in {"ack", "register"} /\ d # c
  BY DEF Request, Subscribe, UnSubscribe, Send, Returns, TInv, TypeOK
<1>3. \A d \in Callers : d # c => job'[d] = job[d]
  BY DEF Request, Subscribe, UnSubscribe, Send, TInv, TypeOK
<1>. QED BY <1>1, <1>2, <1>3, QuietSubackInv

\* The connection, the session and the process: subscriptions go with the
\* session only, and the callers and handlers with the process.
LEMMA ConnectionSubackInv ==
  ASSUME TInv, SubackInv, Connect \/ Disconnect \/ SessionExpires \/ Crash
  PROVE  SubackInv'
<1>1. CASE Connect
  BY <1>1, QuietSubackInv DEF Connect, callerVars, clientVars, brokerVars, counters
<1>2. CASE Disconnect
  BY <1>2, QuietSubackInv DEF Disconnect, clientVars, brokerVars, TInv, TypeOK
<1>3. CASE SessionExpires
  <2>1. expiries' # 0
    BY <1>3 DEF SessionExpires, TInv, TypeOK
  <2>. QED BY <2>1 DEF SubackInv, BrokerKnowsHandlers
<1>4. CASE Crash
  BY <1>4, QuietSubackInv DEF Crash, brokerVars, TInv, TypeOK
<1>. QED BY <1>1, <1>2, <1>3, <1>4

\* The inductive step.
LEMMA NextSubackInv == TInv /\ SubackInv /\ [Next]_vars => SubackInv'
<1> SUFFICES ASSUME TInv, SubackInv, [Next]_vars PROVE SubackInv'
  OBVIOUS
<1>1. ASSUME NEW c \in Callers, CallStep(c) \/ LinkStep(c) PROVE SubackInv'
  BY <1>1, CallStepSubackInv, LinkStepSubackInv
<1>2. ASSUME NEW c \in Callers, NEW t \in Topics, Request(c, t) PROVE SubackInv'
  BY <1>2, RequestSubackInv
<1>3. ASSUME NEW t \in Topics, RemotePublish(t) PROVE SubackInv'
  BY <1>3, QuietSubackInv DEF RemotePublish, callerVars, clientVars
<1>4. CASE Delivery
  BY <1>4, QuietSubackInv
  DEF Delivery, Dispatch, CallHandler, Acknowledge, callerVars, clientVars, brokerVars, counters
<1>5. CASE Connect \/ Disconnect \/ SessionExpires \/ Crash
  BY <1>5, ConnectionSubackInv
<1>6. CASE UNCHANGED vars
  BY <1>6, QuietSubackInv DEF vars, callerVars, clientVars, brokerVars, counters
<1>. QED BY <1>1, <1>2, <1>3, <1>4, <1>5, <1>6 DEF Next

\* While the session lives every registered handler has its subscription at the
\* broker, through any number of callers, reconnections and restarts.
THEOREM HandlersAreSubscribed == Spec => []BrokerKnowsHandlers
<1>1. Init => SubackInv
  BY DEF Init, SubackInv, BrokerKnowsHandlers
<1>2. TInv /\ SubackInv /\ [Next]_vars => SubackInv'
  BY NextSubackInv
<1>3. SubackInv => BrokerKnowsHandlers
  BY DEF SubackInv
<1>. QED BY <1>1, <1>2, <1>3, TypesInductive, PTL DEF Spec

(***************************************************************************)
(* Ids: of handlers, and of messages                                       *)
(***************************************************************************)
\* Steps that begin no call, register no handler and change no entry.
LEMMA QuietOneTopic ==
  ASSUME OneTopicInv, UNCHANGED <<subscriptions, subscribes>>, handlers' \subseteq handlers,
         \A c \in Callers : pc'[c] # "idle" => pc[c] # "idle" /\ job'[c] = job[c]
  PROVE  OneTopicInv'
BY DEF OneTopicInv

\* A new call has a new id, a removal the id and topic of its entry.
LEMMA RequestOneTopic ==
  ASSUME TInv, OneTopicInv, NEW c \in Callers, NEW t \in Topics, Request(c, t)
  PROVE  OneTopicInv'
<1>1. UNCHANGED <<handlers, subscriptions>>
  BY DEF Request, Subscribe, UnSubscribe, Send, clientVars
<1>2. \A d \in Callers : d # c => pc'[d] = pc[d] /\ job'[d] = job[d]
  BY DEF Request, Subscribe, UnSubscribe, Send, Returns, TInv, TypeOK
<1>3. subscribes \in Nat /\ \A h \in handlers : h.id \in Nat
  BY DEF TInv, TypeOK, Handler, Ids
<1>4. CASE Subscribe(c, t)
  <2>1. subscribes' = subscribes + 1 /\ job'[c] = [topic |-> t, id |-> subscribes + 1]
    BY <1>4 DEF Subscribe, TInv, TypeOK
  <2>2. \A h \in handlers : h.id # job'[c].id /\ h.id <= subscribes'
    BY <1>3, <2>1 DEF OneTopicInv
  <2>. QED BY <1>1, <1>2, <2>2 DEF OneTopicInv
<1>5. CASE UnSubscribe(c, t)
  <2>1. UNCHANGED subscribes
    BY <1>5 DEF UnSubscribe, counters
  <2>2. pc'[c] = "idle" \/ job'[c] = [topic |-> t, id |-> subscriptions[t]]
    BY <1>5 DEF UnSubscribe, Returns, TInv, TypeOK
  <2>3. pc'[c] # "idle" => \A h \in handlers : h.id = job'[c].id => h.topic = job'[c].topic
    BY <2>2 DEF OneTopicInv
  <2>. QED BY <1>1, <1>2, <2>1, <2>3 DEF OneTopicInv
<1>6. CASE Send(c, t)
  <2>1. UNCHANGED subscribes /\ pc'[c] = "idle"
    BY <1>6 DEF Send, Returns, TInv, TypeOK
  <2>. QED BY <1>1, <1>2, <2>1 DEF OneTopicInv
<1>. QED BY <1>4, <1>5, <1>6 DEF Request

\* A handler is registered, and stored, under the id its call alone knows.
LEMMA CallStepOneTopic ==
  ASSUME TInv, RInv, OneTopicInv, NEW c \in Callers, CallStep(c)
  PROVE  OneTopicInv'
<1>1. UNCHANGED <<job, subscribes>>
  BY DEF CallStep, RegisterHandler, StoreSubscription, RemoveHandler, DeleteSubscription, counters
<1>2. pc[c] # "idle" /\ \A d \in Callers : pc'[d] # "idle" => pc[d] # "idle"
  BY DEF CallStep, RegisterHandler, StoreSubscription, RemoveHandler, DeleteSubscription, Returns, TInv, TypeOK
<1>3. CASE RegisterHandler(c)
  <2>1. handlers' = handlers \cup {job[c]} /\ subscriptions' = subscriptions /\ Subscribing(c)
    BY <1>3 DEF RegisterHandler, Subscribing
  <2>2. /\ job[c].id <= subscribes
        /\ \A t \in Topics : subscriptions[t] # job[c].id
        /\ \A d \in Callers : d # c /\ pc[d] # "idle" => job[d].id # job[c].id
    BY <2>1 DEF RInv, OwnerInv
  <2>. QED BY <1>1, <1>2, <2>1, <2>2 DEF OneTopicInv
<1>4. CASE StoreSubscription(c)
  <2>1. handlers' = handlers
    BY <1>4 DEF StoreSubscription
  <2>2. \A u \in Topics : subscriptions'[u] = IF u = job[c].topic THEN job[c].id ELSE subscriptions[u]
    BY <1>4 DEF StoreSubscription, TInv, TypeOK
  <2>. QED BY <1>1, <1>2, <2>1, <2>2 DEF OneTopicInv
<1>5. CASE RemoveHandler(c)
  <2>1. handlers' \subseteq handlers /\ subscriptions' = subscriptions
    BY <1>5 DEF RemoveHandler
  <2>. QED BY <1>1, <1>2, <2>1, QuietOneTopic
<1>6. CASE DeleteSubscription(c)
  <2>1. handlers' = handlers
    BY <1>6 DEF DeleteSubscription
  <2>2. \A u \in Topics : subscriptions'[u] \in {None, subscriptions[u]}
    BY <1>6 DEF DeleteSubscription, TInv, TypeOK
  <2>3. \A h \in handlers : h.id # None
    BY DEF TInv, TypeOK, Handler, Ids, None
  <2>. QED BY <1>1, <1>2, <2>1, <2>2, <2>3 DEF OneTopicInv
<1>. QED BY <1>3, <1>4, <1>5, <1>6 DEF CallStep

\* The inductive step.
LEMMA NextOneTopic == TInv /\ RInv /\ OneTopicInv /\ [Next]_vars => OneTopicInv'
<1> SUFFICES ASSUME TInv, RInv, OneTopicInv, [Next]_vars PROVE OneTopicInv'
  OBVIOUS
<1>1. ASSUME NEW c \in Callers, CallStep(c) PROVE OneTopicInv'
  BY <1>1, CallStepOneTopic
<1>2. ASSUME NEW c \in Callers, LinkStep(c) PROVE OneTopicInv'
  BY <1>2, QuietOneTopic
  DEF LinkStep, BrokerSubscribes, BrokerRefuses, SubackArrives, Returns, clientVars, counters, TInv, TypeOK
<1>3. ASSUME NEW c \in Callers, NEW t \in Topics, Request(c, t) PROVE OneTopicInv'
  BY <1>3, RequestOneTopic
<1>4. ASSUME NEW t \in Topics, RemotePublish(t) PROVE OneTopicInv'
  BY <1>4, QuietOneTopic DEF RemotePublish, callerVars, clientVars
<1>5. CASE Delivery
  BY <1>5, QuietOneTopic DEF Delivery, Dispatch, CallHandler, Acknowledge, callerVars, clientVars, counters
<1>6. CASE Connect \/ SessionExpires
  BY <1>6, QuietOneTopic DEF Connect, SessionExpires, callerVars, clientVars, counters
<1>7. CASE Disconnect
  BY <1>7, QuietOneTopic DEF Disconnect, clientVars, TInv, TypeOK
<1>8. CASE Crash
  <2>1. handlers' = {} /\ UNCHANGED subscribes
    BY <1>8 DEF Crash
  <2>. QED BY <2>1 DEF OneTopicInv
<1>9. CASE UNCHANGED vars
  BY <1>9, QuietOneTopic DEF vars, callerVars, clientVars, counters
<1>. QED BY <1>1, <1>2, <1>3, <1>4, <1>5, <1>6, <1>7, <1>8, <1>9 DEF Next

\* What is added at the end of a queue is its only new element.
LEMMA AppendFacts ==
  ASSUME NEW q \in Seq(Message), NEW m \in Message
  PROVE  /\ Append(q, m) \in Seq(Message)
         /\ DOMAIN Append(q, m) = DOMAIN q \cup {Len(q) + 1}
         /\ \A i \in DOMAIN q : Append(q, m)[i] = q[i]
         /\ Append(q, m)[Len(q) + 1] = m
         /\ q # <<>> => Head(Append(q, m)) = Head(q)
<1>1. Append(q, m) \in Seq(Message) /\ Len(Append(q, m)) = Len(q) + 1 /\ Len(q) \in Nat
  OBVIOUS
<1>2. DOMAIN Append(q, m) = 1 .. Len(q) + 1 /\ DOMAIN q = 1 .. Len(q)
  BY <1>1
<1>3. \A i \in DOMAIN q : Append(q, m)[i] = q[i]
  OBVIOUS
<1>4. Append(q, m)[Len(q) + 1] = m
  OBVIOUS
<1>5. q # <<>> => Head(Append(q, m)) = Head(q)
  <2> SUFFICES ASSUME q # <<>> PROVE Head(Append(q, m)) = Head(q)
    OBVIOUS
  <2>1. 1 \in DOMAIN q
    BY <1>1, <1>2
  <2>. QED BY <1>1, <1>3, <2>1
<1>. QED BY <1>1, <1>2, <1>3, <1>4, <1>5

\* What leaves at the head of a queue is all that leaves.
LEMMA TailFacts ==
  ASSUME NEW q \in Seq(Message), q # <<>>
  PROVE  /\ Tail(q) \in Seq(Message)
         /\ \A i \in DOMAIN Tail(q) : i + 1 \in DOMAIN q /\ Tail(q)[i] = q[i + 1]
         /\ \A i \in DOMAIN q : q[i] = Head(q) \/ \E j \in DOMAIN Tail(q) : Tail(q)[j] = q[i]
<1>1. Tail(q) \in Seq(Message) /\ Len(Tail(q)) = Len(q) - 1 /\ Len(q) \in Nat \ {0}
  OBVIOUS
<1>2. DOMAIN Tail(q) = 1 .. Len(q) - 1 /\ DOMAIN q = 1 .. Len(q)
  BY <1>1
<1>3. \A i \in DOMAIN Tail(q) : i + 1 \in DOMAIN q /\ Tail(q)[i] = q[i + 1]
  BY <1>1, <1>2
<1>4. ASSUME NEW i \in DOMAIN q, i # 1 PROVE \E j \in DOMAIN Tail(q) : Tail(q)[j] = q[i]
  <2>1. i - 1 \in DOMAIN Tail(q) /\ (i - 1) + 1 = i
    BY <1>1, <1>2, <1>4
  <2>2. Tail(q)[i - 1] = q[i]
    BY <1>3, <2>1
  <2>. QED BY <2>1, <2>2
<1>. QED BY <1>1, <1>3, <1>4

\* A message the broker takes has a new id.
LEMMA AcceptFresh ==
  ASSUME TInv, FreshInv, NEW t \in Topics, Accept(t)
  PROVE  FreshInv'
<1> DEFINE m == [topic |-> t, id |-> messages + 1]
<1>1. messages \in Nat /\ messages' = messages + 1 /\ messages + 1 \in 1 .. MaxMessages
  BY Bounds DEF Accept, TInv, TypeOK
<1>2. m \in Message /\ m.id = messages'
  BY <1>1 DEF Message
<1>3. (queue' = queue \/ queue' = Append(queue, m)) /\ (owed' = owed \/ owed' = owed \cup {m})
  BY DEF Accept
<1>4. \A u \in Topics : retained'[u] \in {retained[u], messages'}
  BY <1>1 DEF Accept, TInv, TypeOK
<1>5. queue \in Seq(Message) /\ \A n \in Message : n.id \in Nat
  BY DEF TInv, TypeOK, Message
<1>6. retained \in [Topics -> Nat]
  BY DEF TInv, TypeOK
<1>7. owed \subseteq Message
  BY DEF TInv, TypeOK
<1> HIDE DEF m
<1>8. \A i \in DOMAIN queue' : queue'[i].id <= messages'
  <2>1. \A i \in DOMAIN queue : queue[i] \in Message /\ queue[i].id <= messages
    BY <1>5 DEF FreshInv
  <2>2. \A i \in DOMAIN queue : queue[i].id <= messages'
    BY <1>1, <1>5, <2>1
  <2>. QED BY <1>1, <1>2, <1>3, <1>5, <2>2, AppendFacts
<1>9. \A n \in owed' : n.id <= messages'
  BY <1>1, <1>2, <1>3, <1>5, <1>7 DEF FreshInv
<1>10. \A u \in Topics : retained'[u] <= messages'
  BY <1>1, <1>4, <1>6 DEF FreshInv
<1>. QED BY <1>8, <1>9, <1>10 DEF FreshInv

\* Steps that publish nothing, and queue nothing but a retained message.
LEMMA QuietFresh ==
  ASSUME TInv, FreshInv, UNCHANGED <<messages, retained>>, owed' \subseteq owed,
         \/ queue' = queue
         \/ queue' = <<>>
         \/ queue # <<>> /\ queue' = Tail(queue)
         \/ \E t \in Topics : retained[t] # None /\ queue' = Append(queue, [topic |-> t, id |-> retained[t]])
  PROVE  FreshInv'
<1>1. queue \in Seq(Message)
  BY DEF TInv, TypeOK
<1>2. \A i \in DOMAIN queue' : queue'[i].id <= messages
  <2>1. CASE queue' = queue
    BY <2>1 DEF FreshInv
  <2>2. CASE queue' = <<>>
    BY <2>2
  <2>3. CASE queue # <<>> /\ queue' = Tail(queue)
    BY <1>1, <2>3, TailFacts DEF FreshInv
  <2>4. ASSUME NEW t \in Topics, retained[t] # None, NEW m, m = [topic |-> t, id |-> retained[t]],
               queue' = Append(queue, m)
        PROVE  \A i \in DOMAIN queue' : queue'[i].id <= messages
    <3>1. m \in Message /\ m.id = retained[t]
      BY <2>4, Bounds DEF TInv, TypeOK, Message, None
    <3>. QED BY <1>1, <2>4, <3>1, AppendFacts DEF FreshInv
  <2>. QED BY <2>1, <2>2, <2>3, <2>4
<1>. QED BY <1>2 DEF FreshInv

\* The inductive step.
LEMMA NextFresh == TInv /\ FreshInv /\ [Next]_vars => FreshInv'
<1> SUFFICES ASSUME TInv, FreshInv, [Next]_vars PROVE FreshInv'
  OBVIOUS
<1>1. ASSUME NEW c \in Callers, CallStep(c) PROVE FreshInv'
  BY <1>1, QuietFresh
  DEF CallStep, RegisterHandler, StoreSubscription, RemoveHandler, DeleteSubscription, counters, brokerVars, history
<1>2. ASSUME NEW c \in Callers, LinkStep(c) PROVE FreshInv'
  <2>1. job[c].topic \in Topics
    BY DEF TInv, TypeOK
  <2>. QED
    BY <1>2, <2>1, QuietFresh
    DEF LinkStep, BrokerSubscribes, BrokerRefuses, SubackArrives, brokerVars, counters, history
<1>3. ASSUME NEW c \in Callers, NEW t \in Topics, Request(c, t) PROVE FreshInv'
  <2>1. CASE Subscribe(c, t) \/ UnSubscribe(c, t)
    BY <2>1, QuietFresh DEF Subscribe, UnSubscribe, brokerVars, counters, history
  <2>2. CASE Send(c, t)
    BY <2>2, AcceptFresh, QuietFresh DEF Send, brokerVars, history
  <2>. QED BY <1>3, <2>1, <2>2 DEF Request
<1>4. ASSUME NEW t \in Topics, RemotePublish(t) PROVE FreshInv'
  BY <1>4, AcceptFresh DEF RemotePublish
<1>5. CASE Delivery
  <2>1. CASE Dispatch \/ \E h \in Handler : CallHandler(h)
    BY <2>1, QuietFresh DEF Dispatch, CallHandler, brokerVars, counters, history
  <2>2. CASE Acknowledge
    BY <2>2, QuietFresh DEF Acknowledge, counters, history, TInv, DispatchInv
  <2>. QED BY <1>5, <2>1, <2>2 DEF Delivery
<1>6. CASE Connect \/ Disconnect \/ SessionExpires \/ Crash
  BY <1>6, QuietFresh DEF Connect, Disconnect, SessionExpires, Crash, brokerVars, counters, history
<1>7. CASE UNCHANGED vars
  BY <1>7, QuietFresh DEF vars, brokerVars, counters, history
<1>. QED BY <1>1, <1>2, <1>3, <1>4, <1>5, <1>6, <1>7 DEF Next

(***************************************************************************)
(* What is owed is delivered                                               *)
(***************************************************************************)
\* A message the broker takes is queued for its handler's session, behind the
\* one being dispatched.
LEMMA AcceptOwed ==
  ASSUME TInv, SubackInv, FreshInv, OwedInv, NEW t \in Topics, Accept(t),
         UNCHANGED <<handlers, inflight, expiries, heard>>
  PROVE  OwedInv'
<1> DEFINE m == [topic |-> t, id |-> messages + 1]
<1>1. messages \in Nat /\ messages + 1 \in 1 .. MaxMessages
  BY Bounds DEF Accept, TInv, TypeOK
<1>2. m \in Message /\ m.id = messages + 1 /\ m.topic = t
  BY <1>1 DEF Message
<1>3. queue' = IF t \in brokerSubs THEN Append(queue, m) ELSE queue
  BY DEF Accept
<1>4. owed' = IF Live(t) THEN owed \cup {m} ELSE owed
  BY DEF Accept
<1>5. queue \in Seq(Message) /\ \A i \in DOMAIN queue : queue[i] \in Message /\ queue[i].id <= messages
  BY DEF TInv, TypeOK, FreshInv
<1> HIDE DEF m
<1>6. /\ \A i \in DOMAIN queue : i \in DOMAIN queue' /\ queue'[i] = queue[i]
      /\ queue # <<>> => Head(queue') = Head(queue)
      /\ t \in brokerSubs => \E i \in DOMAIN queue' : queue'[i] = m
  BY <1>2, <1>3, <1>5, AppendFacts
<1>7. \A n \in owed' : \E h \in handlers : h.topic = n.topic
  BY <1>2, <1>4 DEF OwedInv, Live
<1>8. inflight.current => /\ inflight.msg = Head(queue')
                          /\ inflight.msg \in owed' =>
                               inflight.msg \in heard \/ \E h \in inflight.todo : h.topic = inflight.msg.topic
  <2>1. inflight.current => queue # <<>> /\ inflight.msg = Head(queue)
    BY DEF TInv, DispatchInv, OwedInv
  <2>2. queue # <<>> => Head(queue) # m
    <3> SUFFICES ASSUME queue # <<>> PROVE Head(queue) # m
      OBVIOUS
    <3>1. 1 \in DOMAIN queue /\ Head(queue) = queue[1]
      BY <1>5
    <3>. QED BY <1>1, <1>2, <1>5, <3>1
  <2>. QED BY <1>4, <1>6, <2>1, <2>2 DEF OwedInv
<1>9. NothingLost'
  <2> SUFFICES ASSUME expiries = 0, NEW n \in owed' PROVE Queued(n)' \/ n \in heard
    BY DEF NothingLost
  <2>1. CASE n \in owed
    BY <1>6, <2>1 DEF OwedInv, NothingLost, Queued
  <2>2. CASE n = m /\ Live(t)
    <3>1. t \in brokerSubs
      BY <2>2 DEF Live, SubackInv, BrokerKnowsHandlers
    <3>. QED BY <1>6, <2>2, <3>1 DEF Queued
  <2>. QED BY <1>4, <2>1, <2>2
<1>. QED BY <1>7, <1>8, <1>9 DEF OwedInv

\* Steps that neither publish nor take anything from what is known of the
\* messages owed, nor move the dispatch.
LEMMA QuietOwed ==
  ASSUME TInv, OwedInv, owed' \subseteq owed, heard' = heard, expiries' = expiries \/ expiries' # 0,
         \A m \in owed' : \E h \in handlers' : h.topic = m.topic,
         \/ queue' = queue
         \/ expiries' # 0 /\ ~inflight'.current
         \/ \E t \in Topics : retained[t] # None /\ queue' = Append(queue, [topic |-> t, id |-> retained[t]]),
         inflight' = inflight \/ ~inflight'.current
  PROVE  OwedInv'
<1>1. queue \in Seq(Message)
  BY DEF TInv, TypeOK
<1>2. CASE expiries' # 0 /\ ~inflight'.current
  BY <1>2 DEF OwedInv, NothingLost
<1>3. ASSUME /\ \A i \in DOMAIN queue : i \in DOMAIN queue' /\ queue'[i] = queue[i]
             /\ queue # <<>> => Head(queue') = Head(queue)
      PROVE  OwedInv'
  <2>1. inflight'.current => inflight' = inflight /\ queue # <<>>
    BY DEF TInv, DispatchInv
  <2>2. NothingLost'
    BY <1>3 DEF OwedInv, NothingLost, Queued
  <2>. QED BY <1>3, <2>1, <2>2 DEF OwedInv
<1>4. ASSUME NEW t \in Topics, retained[t] # None, NEW m, m = [topic |-> t, id |-> retained[t]],
             queue' = Append(queue, m)
      PROVE  OwedInv'
  <2>1. m \in Message
    BY <1>4, Bounds DEF TInv, TypeOK, Message, None
  <2>. QED BY <1>1, <1>3, <1>4, <2>1, AppendFacts
<1>. QED BY <1>2, <1>3, <1>4

\* A removal takes the handlers of its own topic only, and that topic is owed
\* nothing any more.
LEMMA CallStepOwed ==
  ASSUME TInv, OneTopicInv, OwedInv, NEW c \in Callers, CallStep(c)
  PROVE  OwedInv'
<1>1. UNCHANGED <<queue, inflight, expiries, heard>>
  BY DEF CallStep, RegisterHandler, StoreSubscription, RemoveHandler, DeleteSubscription,
         brokerVars, linkVars, counters, history
<1>2. owed' \subseteq owed /\ \A m \in owed' : \E h \in handlers' : h.topic = m.topic
  <2>1. CASE RemoveHandler(c)
    <3>1. /\ handlers' = {h \in handlers : h.id # job[c].id} /\ pc[c] # "idle"
          /\ owed' = {m \in owed : m.topic # job[c].topic}
      BY <2>1 DEF RemoveHandler
    <3>2. \A h \in handlers : h.topic # job[c].topic => h \in handlers'
      BY <3>1 DEF OneTopicInv
    <3>. QED BY <3>1, <3>2 DEF OwedInv
  <2>2. CASE RegisterHandler(c) \/ StoreSubscription(c) \/ DeleteSubscription(c)
    BY <2>2 DEF RegisterHandler, StoreSubscription, DeleteSubscription, history, OwedInv
  <2>. QED BY <2>1, <2>2 DEF CallStep
<1>. QED BY <1>1, <1>2, QuietOwed

\* A dispatch is to every handler, each call of the topic's handler is heard,
\* and only then is the message acknowledged.
LEMMA DeliveryOwed ==
  ASSUME TInv, OwedInv, Delivery
  PROVE  OwedInv'
<1>1. UNCHANGED <<handlers, owed, expiries>>
  BY DEF Delivery, Dispatch, CallHandler, Acknowledge, clientVars, counters, history
<1>2. queue \in Seq(Message)
  BY DEF TInv, TypeOK
<1>3. CASE Dispatch
  <2>1. /\ inflight'.msg = Head(queue) /\ inflight'.todo = handlers
        /\ UNCHANGED <<queue, heard>>
    BY <1>3 DEF Dispatch, brokerVars, history
  <2>. QED BY <1>1, <2>1 DEF OwedInv, NothingLost, Queued
<1>4. ASSUME NEW h \in Handler, CallHandler(h) PROVE OwedInv'
  <2>1. /\ inflight'.msg = inflight.msg /\ inflight'.current = inflight.current
        /\ inflight'.todo = inflight.todo \ {h} /\ UNCHANGED queue
    BY <1>4 DEF CallHandler, TInv, TypeOK, brokerVars
  <2>2. heard' = IF h.topic = inflight.msg.topic THEN heard \cup {inflight.msg} ELSE heard
    BY <1>4 DEF CallHandler
  <2>. QED BY <1>1, <2>1, <2>2 DEF OwedInv, NothingLost, Queued
<1>5. CASE Acknowledge
  <2>1. /\ inflight.todo = {} /\ ~inflight'.current /\ UNCHANGED heard
        /\ queue' = IF inflight.current THEN Tail(queue) ELSE queue
    BY <1>5, IdleType DEF Acknowledge, history
  <2>2. ASSUME expiries = 0, NEW m \in owed PROVE Queued(m)' \/ m \in heard
    <3>1. CASE inflight.current
      <4>1. queue # <<>> /\ inflight.msg = Head(queue) /\ (inflight.msg \in owed => inflight.msg \in heard)
        BY <2>1, <3>1 DEF TInv, DispatchInv, OwedInv
      <4>2. Queued(m) => m = Head(queue) \/ Queued(m)'
        BY <1>2, <2>1, <3>1, <4>1, TailFacts DEF Queued
      <4>. QED BY <2>2, <4>1, <4>2 DEF OwedInv, NothingLost
    <3>2. CASE ~inflight.current
      BY <2>1, <2>2, <3>2 DEF OwedInv, NothingLost, Queued
    <3>. QED BY <3>1, <3>2
  <2>. QED BY <1>1, <2>1, <2>2 DEF OwedInv, NothingLost
<1>. QED BY <1>3, <1>4, <1>5 DEF Delivery

\* The inductive step.
LEMMA NextOwed == TInv /\ SubackInv /\ LInv /\ [Next]_vars => OwedInv'
<1> SUFFICES ASSUME TInv, SubackInv, OneTopicInv, FreshInv, OwedInv, [Next]_vars PROVE OwedInv'
  BY DEF LInv
<1>0. \A m \in owed : \E h \in handlers : h.topic = m.topic
  BY DEF OwedInv
<1>1. ASSUME NEW c \in Callers, CallStep(c) PROVE OwedInv'
  BY <1>1, CallStepOwed
<1>2. ASSUME NEW c \in Callers, LinkStep(c) PROVE OwedInv'
  <2>1. job[c].topic \in Topics
    BY DEF TInv, TypeOK
  <2>2. UNCHANGED <<handlers, owed, heard, inflight, expiries>>
    BY <1>2
    DEF LinkStep, BrokerSubscribes, BrokerRefuses, SubackArrives, clientVars, linkVars, counters, history
  <2>. QED
    BY <1>0, <1>2, <2>1, <2>2, QuietOwed
    DEF LinkStep, BrokerSubscribes, BrokerRefuses, SubackArrives, brokerVars
<1>3. ASSUME NEW c \in Callers, NEW t \in Topics, Request(c, t) PROVE OwedInv'
  <2>1. CASE Subscribe(c, t) \/ UnSubscribe(c, t)
    BY <1>0, <2>1, QuietOwed
    DEF Subscribe, UnSubscribe, clientVars, linkVars, brokerVars, counters, history
  <2>2. CASE Send(c, t) /\ Accept(t)
    BY <2>2, AcceptOwed DEF Send, clientVars, linkVars, history
  <2>3. CASE Send(c, t) /\ ~Accept(t)
    BY <1>0, <2>3, QuietOwed DEF Send, clientVars, linkVars, brokerVars, history
  <2>. QED BY <1>3, <2>1, <2>2, <2>3 DEF Request
<1>4. ASSUME NEW t \in Topics, RemotePublish(t) PROVE OwedInv'
  BY <1>4, AcceptOwed DEF RemotePublish, clientVars, linkVars
<1>5. CASE Delivery
  BY <1>5, DeliveryOwed
<1>6. CASE Connect
  BY <1>0, <1>6, QuietOwed DEF Connect, clientVars, brokerVars, counters, history
<1>7. CASE Disconnect
  <2>1. ~inflight'.current
    BY <1>7 DEF Disconnect, TInv, TypeOK
  <2>. QED BY <1>0, <1>7, <2>1, QuietOwed DEF Disconnect, clientVars, brokerVars, history
<1>8. CASE SessionExpires
  <2>1. expiries' # 0 /\ ~inflight'.current
    BY <1>8 DEF SessionExpires, linkVars, TInv, TypeOK, DispatchInv
  <2>. QED BY <1>0, <1>8, <2>1, QuietOwed DEF SessionExpires, clientVars, linkVars, history
<1>9. CASE Crash
  <2>1. owed' = {} /\ ~inflight'.current
    BY <1>9, IdleType DEF Crash
  <2>. QED BY <2>1 DEF OwedInv, NothingLost
<1>10. CASE UNCHANGED vars
  BY <1>0, <1>10, QuietOwed DEF vars, clientVars, linkVars, brokerVars, counters, history
<1>. QED BY <1>1, <1>2, <1>3, <1>4, <1>5, <1>6, <1>7, <1>8, <1>9, <1>10 DEF Next

\* At least once, for any number of callers, topics and messages: while the
\* session lives what was published for a registered handler is still at the
\* broker or that handler has had it.
THEOREM DeliveredAtLeastOnce == Spec => []NothingLost
<1>1. Init => RInv /\ SubackInv
  BY DEF Init, RInv, OwnerInv, RegisteredOrLeaving, Subscribing, Removing, None, SubackInv, BrokerKnowsHandlers
<1>2. Init => LInv
  <2> SUFFICES ASSUME Init PROVE LInv
    OBVIOUS
  <2>1. OneTopicInv
    BY DEF Init, OneTopicInv
  <2>2. FreshInv
    BY DEF Init, FreshInv, None
  <2>3. OwedInv
    BY IdleType DEF Init, OwedInv, NothingLost
  <2>. QED BY <2>1, <2>2, <2>3 DEF LInv
<1>3. TInv /\ RInv /\ SubackInv /\ LInv /\ [Next]_vars => RInv' /\ SubackInv' /\ LInv'
  BY NextRInv, NextSubackInv, NextOneTopic, NextFresh, NextOwed DEF LInv
<1>4. LInv => NothingLost
  BY DEF LInv, OwedInv
<1>. QED BY <1>1, <1>2, <1>3, <1>4, TypesInductive, PTL DEF Spec

(***************************************************************************)
(* A single caller                                                         *)
(***************************************************************************)
\* Steps that change neither the map nor the handlers and begin no call.
LEMMA QuietAlone ==
  ASSUME AloneInv, UNCHANGED <<subscriptions, handlers>>,
         \A c \in Callers :
           \/ pc'[c] = pc[c] /\ job'[c] = job[c]
           \/ (pc[c] = "idle" \/ Subscribing(c)) /\ pc'[c] = "idle" /\ pc[c] # "store"
           \/ Subscribing(c) /\ pc'[c] \in {"ack", "register"} /\ pc[c] # "store" /\ job'[c] = job[c]
  PROVE  AloneInv'
<1> SUFFICES ASSUME SingleCaller PROVE AloneInv'
  BY DEF AloneInv
<1>1. Entries' = Entries
  BY DEF Entries
<1>. QED BY <1>1 DEF AloneInv, Subscribing, Removing

\* A call begins on what it read of the map.
LEMMA RequestAlone ==
  ASSUME TInv, AloneInv, NEW c \in Callers, NEW t \in Topics, Request(c, t)
  PROVE  AloneInv'
<1>1. UNCHANGED <<handlers, subscriptions>> /\ pc[c] = "idle"
  BY DEF Request, Subscribe, UnSubscribe, Send, clientVars
<1>2. \A d \in Callers : d # c => pc'[d] = pc[d] /\ job'[d] = job[d]
  BY DEF Request, Subscribe, UnSubscribe, Send, Returns, TInv, TypeOK
<1>3. CASE pc'[c] = "idle"
  BY <1>1, <1>2, <1>3, QuietAlone
<1>4. CASE \/ pc'[c] = "suback" /\ subscriptions[t] = None /\ job'[c].topic = t
           \/ pc'[c] = "remove" /\ job'[c] = [topic |-> t, id |-> subscriptions[t]]
  <2> SUFFICES ASSUME SingleCaller PROVE AloneInv'
    BY DEF AloneInv
  <2>1. \A d \in Callers : d = c
    BY DEF SingleCaller
  <2>2. Entries' = Entries /\ handlers = Entries
    BY <1>1, <2>1 DEF Entries, AloneInv
  <2>. QED BY <1>1, <1>4, <2>1, <2>2 DEF AloneInv, Subscribing, Removing
<1>5. pc'[c] = "idle" \/ \/ pc'[c] = "suback" /\ subscriptions[t] = None /\ job'[c].topic = t
                         \/ pc'[c] = "remove" /\ job'[c] = [topic |-> t, id |-> subscriptions[t]]
  BY DEF Request, Subscribe, UnSubscribe, Send, Returns, TInv, TypeOK
<1>. QED BY <1>3, <1>4, <1>5

\* What the steps of a call do to the handlers and to the entries.
LEMMA CallStepAlone ==
  ASSUME TInv, RInv, AloneInv, NEW c \in Callers, CallStep(c)
  PROVE  AloneInv'
<1> SUFFICES ASSUME SingleCaller PROVE AloneInv'
  BY DEF AloneInv
<1>1. \A d \in Callers : d = c
  BY DEF SingleCaller
<1>2. job[c].topic \in Topics /\ job[c] = [topic |-> job[c].topic, id |-> job[c].id] /\ UNCHANGED job
  BY DEF CallStep, RegisterHandler, StoreSubscription, RemoveHandler, DeleteSubscription, TInv, TypeOK
<1>3. CASE RegisterHandler(c)
  <2>1. /\ handlers' = handlers \cup {job[c]} /\ subscriptions' = subscriptions
        /\ pc[c] = "register" /\ pc'[c] = "store"
    BY <1>3 DEF RegisterHandler, TInv, TypeOK
  <2>2. Entries' = Entries
    BY <2>1 DEF Entries
  <2>. QED BY <1>1, <1>2, <2>1, <2>2 DEF AloneInv, Subscribing, Removing
<1>4. CASE StoreSubscription(c)
  <2>1. handlers' = handlers /\ pc[c] = "store" /\ pc'[c] = "idle"
    BY <1>4 DEF StoreSubscription, Returns, TInv, TypeOK
  <2>2. \A u \in Topics : subscriptions'[u] = IF u = job[c].topic THEN job[c].id ELSE subscriptions[u]
    BY <1>4 DEF StoreSubscription, TInv, TypeOK
  <2>3. subscriptions[job[c].topic] = None /\ handlers = Entries \cup {job[c]} /\ job[c].id # None
    BY <2>1 DEF AloneInv, Subscribing, RInv, OwnerInv
  <2>4. Entries' = Entries \cup {job[c]}
    BY <1>2, <2>2, <2>3 DEF Entries
  <2>. QED BY <1>1, <2>1, <2>3, <2>4 DEF AloneInv, Subscribing, Removing
<1>5. CASE RemoveHandler(c)
  <2>1. /\ handlers' = {h \in handlers : h.id # job[c].id} /\ subscriptions' = subscriptions
        /\ pc[c] = "remove" /\ pc'[c] = "delete"
    BY <1>5 DEF RemoveHandler, TInv, TypeOK
  <2>2. Entries' = Entries /\ handlers = Entries
    BY <1>1, <2>1 DEF Entries, AloneInv
  <2>3. \A u \in Topics : subscriptions[u] = job[c].id => u = job[c].topic
    BY <2>1 DEF RInv, OwnerInv, Removing
  <2>4. \A h \in Entries : h.id = job[c].id <=> h = job[c]
    BY <1>2, <2>3 DEF Entries
  <2>5. handlers' = Entries \ {job[c]}
    BY <2>1, <2>2, <2>4
  <2>6. subscriptions[job[c].topic] = job[c].id
    BY <2>1 DEF AloneInv, Removing
  <2>. QED BY <1>1, <1>2, <2>1, <2>2, <2>5, <2>6 DEF AloneInv, Subscribing, Removing
<1>6. CASE DeleteSubscription(c)
  <2>1. handlers' = handlers /\ pc[c] = "delete" /\ pc'[c] = "idle"
    BY <1>6 DEF DeleteSubscription, Returns, TInv, TypeOK
  <2>2. \A u \in Topics : subscriptions'[u] = IF u = job[c].topic THEN None ELSE subscriptions[u]
    BY <1>6 DEF DeleteSubscription, TInv, TypeOK
  <2>3. subscriptions[job[c].topic] = job[c].id /\ handlers = Entries \ {job[c]}
    BY <2>1 DEF AloneInv, Removing
  <2>4. Entries' = Entries \ {job[c]}
    BY <1>2, <2>2, <2>3 DEF Entries
  <2>. QED BY <1>1, <2>1, <2>3, <2>4 DEF AloneInv, Subscribing, Removing
<1>. QED BY <1>3, <1>4, <1>5, <1>6 DEF CallStep

\* The inductive step.
LEMMA NextAlone == TInv /\ RInv /\ AloneInv /\ [Next]_vars => AloneInv'
<1> SUFFICES ASSUME TInv, RInv, AloneInv, [Next]_vars PROVE AloneInv'
  OBVIOUS
<1>1. ASSUME NEW c \in Callers, CallStep(c) PROVE AloneInv'
  BY <1>1, CallStepAlone
<1>2. ASSUME NEW c \in Callers, LinkStep(c) PROVE AloneInv'
  BY <1>2, QuietAlone
  DEF LinkStep, BrokerSubscribes, BrokerRefuses, SubackArrives, Returns, clientVars, Subscribing, TInv, TypeOK
<1>3. ASSUME NEW c \in Callers, NEW t \in Topics, Request(c, t) PROVE AloneInv'
  BY <1>3, RequestAlone
<1>4. ASSUME NEW t \in Topics, RemotePublish(t) PROVE AloneInv'
  BY <1>4, QuietAlone DEF RemotePublish, callerVars, clientVars
<1>5. CASE Delivery
  BY <1>5, QuietAlone DEF Delivery, Dispatch, CallHandler, Acknowledge, callerVars, clientVars
<1>6. CASE Connect \/ SessionExpires
  BY <1>6, QuietAlone DEF Connect, SessionExpires, callerVars, clientVars
<1>7. CASE Disconnect
  BY <1>7, QuietAlone DEF Disconnect, clientVars, Subscribing, TInv, TypeOK
<1>8. CASE Crash
  <2>1. /\ \A u \in Topics : subscriptions'[u] = None
        /\ handlers' = {} /\ \A d \in Callers : pc'[d] = "idle"
    BY <1>8 DEF Crash, TInv, TypeOK
  <2>2. Entries' = {}
    BY <2>1 DEF Entries
  <2>. QED BY <2>1, <2>2 DEF AloneInv, Subscribing, Removing
<1>9. CASE UNCHANGED vars
  BY <1>9, QuietAlone DEF vars, callerVars, clientVars
<1>. QED BY <1>1, <1>2, <1>3, <1>4, <1>5, <1>6, <1>7, <1>8, <1>9 DEF Next

\* Used by one goroutine the map is exact between the calls: each registered
\* handler has its entry and each entry its handler.
THEOREM MapIsExact == Spec => []ExactWhenAlone
<1>1. Init => RInv
  BY DEF Init, RInv, OwnerInv, RegisteredOrLeaving, Subscribing, Removing, None
<1>2. Init => AloneInv
  BY DEF Init, AloneInv, Entries, Subscribing, Removing
<1>3. TInv /\ RInv /\ AloneInv /\ [Next]_vars => RInv' /\ AloneInv'
  BY NextRInv, NextAlone
<1>4. AloneInv => ExactWhenAlone
  BY DEF AloneInv, ExactWhenAlone, Entries
<1>. QED BY <1>1, <1>2, <1>3, <1>4, TypesInductive, PTL DEF Spec
==============================================================================
