-------------------------- MODULE WsRelayEventProofs --------------------------
(***************************************************************************)
(* What a client of the relay is sent: the greeting comes first; a bound   *)
(* client misses no message, is shown its own only, and neither way twice; *)
(* acknowledgements claim only what happened, go to one connection, and    *)
(* none is lost; when a greeting waits; why a handler panics.  For every   *)
(* set of users, devices, ids and connections, every scenario and all      *)
(* capacities.                                                             *)
(***************************************************************************)
EXTENDS WsRelayProofs

-----------------------------------------------------------------------------
(* Who changes what. *)

\* The steps of p's own handler that change where it is or what it works on.
ConnStep(c) ==
    \/ Bind(c) \/ OpenStream(c) \/ ListMailbox(c) \/ StartPumps(c) \/ Push(c)
    \/ ReadSend(c) \/ TrackPendingAck(c)
    \/ ReadAck(c) \/ LookupPending(c) \/ ForwardAck(c) \/ ClearPending(c) \/ ReadOther(c)
    \/ ReadFails(c) \/ Unbind(c) \/ CancelStream(c)

SendStep(p) == StoreItem(p) \/ SendReturned(p) \/ \E s \in Conns : OfferPanics(p, s)

OwnStep(p) == \/ p \in Conns /\ ConnStep(p)
              \/ p \in Requests /\ HttpSend(p)
              \/ SendStep(p)

\* The steps in which every handler stays where it is.
StillStep ==
    \/ \E p \in Callers, s \in Conns : Offer(p, s) \/ OfferDropped(p, s)
    \/ \E c \in Conns : \/ ReadRefusedAck(c) \/ ClientDrops(c)
                        \/ ForwarderStep(c) \/ WriterStep(c)
    \/ UNCHANGED vars

\* Every step is one handler's own, or leaves every handler where it is.
LEMMA StepKinds ==
    ASSUME [Next]_vars
    PROVE  StillStep \/ \E p \in Callers : OwnStep(p)
<1> Conns \subseteq Callers /\ Requests \subseteq Callers
  BY RelayAssumption DEF Requests
<1>1. ASSUME Environment PROVE StillStep \/ \E p \in Callers : OwnStep(p)
  BY <1>1 DEF Environment, StillStep, OwnStep, ConnStep
<1>2. ASSUME NEW p \in Callers, HandlerStep(p)
      PROVE  StillStep \/ OwnStep(p)
  BY <1>2 DEF HandlerStep, StillStep, OwnStep, ConnStep, SendStep
<1>3. ASSUME NEW c \in Conns, ForwarderStep(c) \/ WriterStep(c) PROVE StillStep
  BY <1>3 DEF StillStep
<1> QED
  BY <1>1, <1>2, <1>3 DEF Next, StillStep

\* A step that is no handler's own changes neither a handler's place nor its
\* work, nor what it is about to push, nor the hub.
LEMMA StillEffect ==
    ASSUME StillStep
    PROVE  UNCHANGED <<pc, item, waiter, outbox, session, pendingAck, scenario>>
<1> USE DEF hubVars, jobVars, restVars
<1>1. ASSUME NEW p \in Callers, NEW s \in Conns, Offer(p, s) \/ OfferDropped(p, s)
      PROVE  UNCHANGED <<pc, item, waiter, outbox, session, pendingAck, scenario>>
  BY <1>1 DEF Offer, OfferDropped
<1>2. ASSUME NEW c \in Conns, ReadRefusedAck(c) \/ ClientDrops(c) \/ ForwarderStep(c) \/ WriterStep(c)
      PROVE  UNCHANGED <<pc, item, waiter, outbox, session, pendingAck, scenario>>
  BY <1>2 DEF ReadRefusedAck, ClientDrops, ForwarderStep, WriterStep, ForwarderTakes,
              ForwarderPushes, ForwarderEnds, WriterWrites, WriterLoses
<1>3. CASE UNCHANGED vars
  BY <1>3 DEF vars
<1> QED
  BY <1>1, <1>2, <1>3 DEF StillStep

\* A handler's own step leaves the place and the work of every other alone, and
\* the scenario never changes.
LEMMA OwnEffect ==
    ASSUME Typed, NEW p \in Callers, OwnStep(p)
    PROVE  /\ \A q \in Callers : q # p => pc'[q] = pc[q] /\ item'[q] = item[q]
           /\ \A c \in Conns : c # p => waiter'[c] = waiter[c] /\ outbox'[c] = outbox[c]
           /\ scenario' = scenario
<1> USE DEF Go, hubVars, jobVars, restVars
<1>1. /\ pc = [q \in Callers |-> pc[q]] /\ item = [q \in Callers |-> item[q]]
      /\ waiter = [c \in Conns |-> waiter[c]] /\ outbox = [c \in Conns |-> outbox[c]]
      /\ Conns \subseteq Callers
  BY RelayAssumption DEF Typed, RelayTypeOK
<1> DEFINE Goal == /\ \A q \in Callers : q # p => pc'[q] = pc[q] /\ item'[q] = item[q]
                   /\ \A c \in Conns : c # p => waiter'[c] = waiter[c] /\ outbox'[c] = outbox[c]
                   /\ scenario' = scenario
<1>2. CASE SendStep(p)
  BY <1>1, <1>2 DEF SendStep, StoreItem, SendReturned, OfferPanics
<1>3. CASE p \in Requests /\ HttpSend(p)
  <2>1. PICK x : item' = [item EXCEPT ![p] = x]
    BY <1>3 DEF HttpSend, Route
  <2> QED
    BY <1>1, <1>3, <2>1 DEF HttpSend
<1>4. CASE p \in Conns /\ ConnStep(p)
  <2>1. CASE \/ Bind(p) \/ OpenStream(p) \/ ListMailbox(p) \/ StartPumps(p) \/ Push(p)
             \/ ReadFails(p) \/ Unbind(p) \/ CancelStream(p) \/ ReadOther(p)
    BY <1>1, <2>1 DEF Bind, OpenStream, ListMailbox, StartPumps, Push, ReadFails, Unbind,
                      CancelStream, ReadOther
  <2>2. CASE ReadSend(p)
    <3>1. PICK x : item' = [item EXCEPT ![p] = x]
      BY <2>2 DEF ReadSend, Route
    <3> QED
      BY <1>1, <2>2, <3>1 DEF ReadSend
  <2>3. CASE ReadAck(p)
    <3>1. PICK x : item' = [item EXCEPT ![p] = x]
      BY <2>3 DEF ReadAck
    <3> QED
      BY <1>1, <2>3, <3>1 DEF ReadAck
  <2>4. CASE TrackPendingAck(p) \/ LookupPending(p) \/ ForwardAck(p) \/ ClearPending(p)
    BY <1>1, <2>4 DEF TrackPendingAck, LookupPending, ForwardAck, ClearPending
  <2> QED
    BY <1>4, <2>1, <2>2, <2>3, <2>4 DEF ConnStep
<1> QED
  BY <1>2, <1>3, <1>4 DEF OwnStep

\* So a handler's place and work change only by its own step.
LEMMA OwnSteps ==
    ASSUME Typed, [Next]_vars
    PROVE  /\ scenario' = scenario
           /\ \A p \in Callers : \/ pc'[p] = pc[p] /\ item'[p] = item[p]
                                 \/ OwnStep(p)
           /\ \A c \in Conns : \/ /\ pc'[c] = pc[c] /\ item'[c] = item[c]
                                  /\ waiter'[c] = waiter[c] /\ outbox'[c] = outbox[c]
                               \/ OwnStep(c)
<1> Conns \subseteq Callers
  BY RelayAssumption
<1> QED
  BY StepKinds, StillEffect, OwnEffect

\* p begins to send: the handler of a client that asked for it, or a request.
Routing(p) ==
    /\ pc[p] \notin {"store", "fanout", "track"} /\ pc' = [pc EXCEPT ![p] = "store"]
    /\ p \in scenario.authors
    /\ \E m \in NewItems :
          /\ item' = [item EXCEPT ![p] = m]
          /\ p \in Conns => m.sender = UserOf(p)
          /\ m.id \notin Stored
          /\ \A q \in Callers : item[q] # None => item[q].id # m.id

\* A handler without work.
Idle(p) == pc[p] \notin {"store", "fanout", "track", "lookup", "forward", "clear"}

\* A handler's own step leaves it without work, or takes it one step further.
LEMMA OwnMove ==
    ASSUME ServiceTypeOK, Typed, NEW p \in Callers, OwnStep(p)
    PROVE  \/ Idle(p)'
           \/ Routing(p) /\ UNCHANGED storeVars
           \/ StoreItem(p) /\ pc[p] = "store" /\ pc'[p] = "fanout" /\ item'[p] = item[p]
           \/ /\ pc[p] = "fanout" /\ pc'[p] = "track" /\ item'[p] = item[p] /\ p \in Conns
           \/ p \in Conns /\ ReadAck(p) /\ pc'[p] = "lookup"
           \/ /\ p \in Conns /\ pc[p] = "lookup" /\ pc'[p] = "forward" /\ item'[p] = item[p]
              /\ waiter'[p] = pendingAck[item[p].id] /\ waiter'[p] # None
              /\ UNCHANGED <<storeVars, pendingAck>>
           \/ /\ p \in Conns /\ pc[p] = "forward" /\ pc'[p] = "clear" /\ item'[p] = item[p]
              /\ Final(item[p])
<1> USE DEF Go, jobVars, hubVars
<1>1. /\ pc = [q \in Callers |-> pc[q]] /\ item = [q \in Callers |-> item[q]]
      /\ waiter = [c \in Conns |-> waiter[c]] /\ Conns \subseteq Callers
      /\ \A q \in Callers : ~Idle(q) => pc[q] # "new" /\ pc[q] # "loop"
  BY RelayAssumption DEF Typed, RelayTypeOK, Idle
<1>2. CASE StoreItem(p)
  BY <1>1, <1>2 DEF StoreItem
<1>3. CASE SendReturned(p) \/ \E s \in Conns : OfferPanics(p, s)
  BY <1>1, <1>3 DEF SendReturned, OfferPanics, Idle
<1>4. CASE p \in Requests /\ HttpSend(p)
  <2>1. PICK u \in Users : Route(p, u)
    BY <1>4 DEF HttpSend
  <2>2. p \notin Conns /\ pc[p] = "new" /\ pc' = [pc EXCEPT ![p] = "store"]
        /\ UNCHANGED storeVars
    BY <1>4 DEF HttpSend, Requests, serviceVars
  <2>3. Routing(p)
    BY <2>1, <2>2, RouteType DEF Routing, Typed
  <2> QED
    BY <2>2, <2>3
<1>5. CASE p \in Conns /\ ConnStep(p)
  <2>1. CASE \/ Bind(p) \/ OpenStream(p) \/ ListMailbox(p) \/ StartPumps(p)
             \/ ReadFails(p) \/ Unbind(p) \/ CancelStream(p) \/ ReadOther(p)
             \/ TrackPendingAck(p) \/ ClearPending(p)
    BY <1>1, <2>1 DEF Bind, OpenStream, ListMailbox, StartPumps, ReadFails, Unbind,
                      CancelStream, ReadOther, TrackPendingAck, ClearPending, Idle
  <2>2. CASE Push(p)
    BY <1>1, <2>2 DEF Push, Idle
  <2>3. CASE ReadSend(p)
    <3>1. pc[p] = "loop" /\ pc' = [pc EXCEPT ![p] = "store"] /\ Route(p, UserOf(p))
          /\ UNCHANGED storeVars
      BY <2>3 DEF ReadSend, serviceVars
    <3>2. UserOf(p) \in Users
      BY <1>5, <3>1, Bindable DEF Typed, RelayTypeOK, Jobs
    <3> QED
      BY <3>1, <3>2, RouteType DEF Routing, Typed
  <2>4. CASE ReadAck(p)
    BY <1>1, <1>5, <2>4 DEF ReadAck
  <2>5. CASE LookupPending(p)
    BY <1>1, <1>5, <2>5 DEF LookupPending, Idle, serviceVars
  <2>6. CASE ForwardAck(p)
    <3>1. \/ Idle(p)'
          \/ pc[p] = "forward" /\ pc'[p] = "clear" /\ item'[p] = item[p] /\ Final(item[p])
      BY <1>1, <1>5, <2>6 DEF ForwardAck, Idle
    <3> QED
      BY <1>5, <3>1
  <2> QED
    BY <1>5, <2>1, <2>2, <2>3, <2>4, <2>5, <2>6 DEF ConnStep
<1> QED
  BY <1>2, <1>3, <1>4, <1>5 DEF OwnStep, SendStep

\* The store changes when a message is stored and when one is acknowledged.
LEMMA StoreSteps ==
    ASSUME [Next]_vars
    PROVE  \/ \E p \in Callers : StoreItem(p)
           \/ \E c \in Conns : ReadAck(c)
           \/ UNCHANGED storeVars
<1> USE DEF serviceVars
<1>1. CASE StillStep
  <2>1. ASSUME NEW p \in Callers, NEW s \in Conns, Offer(p, s) \/ OfferDropped(p, s)
        PROVE  UNCHANGED storeVars
    BY <2>1 DEF Offer, OfferDropped, FanOutSkip, FanOutDeliver, FanOutDrop
  <2>2. ASSUME NEW c \in Conns,
               ReadRefusedAck(c) \/ ClientDrops(c) \/ ForwarderStep(c) \/ WriterStep(c)
        PROVE  UNCHANGED storeVars
    BY <2>2 DEF ReadRefusedAck, ClientDrops, ForwarderStep, WriterStep, ForwarderTakes, Receive,
                ForwarderPushes, ForwarderEnds, WriterWrites, WriterLoses
  <2>3. CASE UNCHANGED vars
    BY <2>3 DEF vars
  <2> QED
    BY <1>1, <2>1, <2>2, <2>3 DEF StillStep
<1>2. ASSUME NEW p \in Callers, OwnStep(p), ~StoreItem(p), ~(p \in Conns /\ ReadAck(p))
      PROVE  UNCHANGED storeVars
  <2>1. CASE SendStep(p)
    BY <1>2, <2>1 DEF SendStep, SendReturned, Return, OfferPanics, FanOutPanic
  <2>2. CASE p \in Requests /\ HttpSend(p)
    BY <2>2 DEF HttpSend
  <2>3. CASE p \in Conns /\ ConnStep(p)
    BY <1>2, <2>3
       DEF ConnStep, Bind, OpenStream, Subscribe, ListMailbox, StartPumps, Push, ReadSend,
           TrackPendingAck, LookupPending, ForwardAck, ClearPending, ReadOther, ReadFails,
           Unbind, CancelStream, Cancel
  <2> QED
    BY <1>2, <2>1, <2>2, <2>3 DEF OwnStep
<1> QED
  BY <1>1, <1>2, StepKinds

\* What storing an item does.
LEMMA StoreItemEffect ==
    ASSUME ServiceTypeOK, Typed, NEW p \in Callers, StoreItem(p)
    PROVE  /\ item[p] \in Message /\ pc[p] = "store" /\ Store(p, item[p])
           /\ pc' = [pc EXCEPT ![p] = "fanout"] /\ item' = item
           /\ Stored' = Stored \cup {item[p].id}
           /\ \A id \in Stored' :
                 messageByID'[id] = IF id = item[p].id THEN item[p] ELSE messageByID[id]
<1>1. item[p] \in Message /\ pc[p] = "store" /\ Store(p, item[p])
      /\ pc' = [pc EXCEPT ![p] = "fanout"] /\ item' = item
  BY NewItemType DEF StoreItem, Go, Typed, Jobs, jobVars
<1> QED
  BY <1>1, StoreEffect

\* While a handler does not store an id again, a stored message keeps its users
\* and its device once known, and what was reported of it.
FreshItems ==
    /\ \A p \in Callers : pc[p] = "store" => item[p].id \notin Stored
    /\ \A p, q \in Callers : Sending(p) /\ Sending(q) /\ item[p].id = item[q].id => p = q

\* Every step keeps what is stored, with its users, its device once known, and its
\* receipts.
LEMMA RecordsKept ==
    ASSUME ServiceTypeOK, Typed, FreshItems, [Next]_vars
    PROVE  /\ Stored \subseteq Stored'
           /\ \A id \in Stored :
                 /\ messageByID'[id].sender = messageByID[id].sender
                 /\ messageByID'[id].recipient = messageByID[id].recipient
                 /\ messageByID[id].device # NoDevice
                       => messageByID'[id].device = messageByID[id].device
                 /\ messageByID[id].deliveredAt => messageByID'[id].deliveredAt
                 /\ messageByID[id].readAt => messageByID'[id].readAt
<1>1. ASSUME NEW p \in Callers, StoreItem(p)
      PROVE  /\ Stored \subseteq Stored'
             /\ \A id \in Stored : messageByID'[id] = messageByID[id]
  BY <1>1, StoreItemEffect DEF FreshItems
<1>2. ASSUME NEW c \in Conns, ReadAck(c)
      PROVE  \E id \in MessageIDs, u \in Users, d \in DeviceRefs, st \in Statuses :
                Acknowledge(id, u, d, st)
  BY <1>2, ReadAckEffect, ServiceAssumption
<1>3. CASE UNCHANGED storeVars
  BY <1>3 DEF storeVars, Stored
<1>4. CASE \E id \in MessageIDs, u \in Users, d \in DeviceRefs, st \in Statuses :
              Acknowledge(id, u, d, st)
  BY <1>4, AcknowledgeEffect
<1> QED
  BY <1>1, <1>2, <1>3, <1>4, StoreSteps

-----------------------------------------------------------------------------
(* What handlers work on, and who waits for news of what. *)

\* What a copy of a message says is still true of the stored one.
Agrees(m) ==
    /\ m.id \in Stored
    /\ messageByID[m.id].sender = m.sender
    /\ messageByID[m.id].recipient = m.recipient
    /\ m.device # NoDevice => messageByID[m.id].device = m.device
    /\ m.deliveredAt => messageByID[m.id].deliveredAt
    /\ m.readAt => messageByID[m.id].readAt

ItemsAgree ==
    \A p \in Callers : ~Idle(p) /\ pc[p] # "store" => Agrees(item[p])

SendsAgree ==
    /\ \A t \in DOMAIN sends : Agrees(sends[t].msg)
    /\ \A t \in DOMAIN sends : pc[t] = "fanout" => sends[t].msg = item[t]

\* An acknowledged message carries what was reported of it.
AckItems ==
    \A c \in Conns : Acking(c) =>
       /\ item[c].status \in AckStatuses
       /\ item[c].status \in {"delivered", "read"} => item[c].deliveredAt
       /\ item[c].status = "read" => item[c].readAt
       /\ pc[c] = "clear" => Final(item[c])

SentBySelf ==
    \A c \in Conns : Sending(c) => item[c].sender = UserOf(c) /\ c \in scenario.authors

Started(c) == pc[c] \notin {"new", "subscribe", "list", "greet"}

\* Connection w may be told of message id.
Waiting(id, w) ==
    /\ id \in Stored
    /\ messageByID[id].sender = UserOf(w)
    /\ w \in scenario.authors
    /\ Started(w)

WaitersKnown ==
    /\ \A id \in MessageIDs : pendingAck[id] # None => Waiting(id, pendingAck[id])
    /\ \A c \in Conns : pc[c] = "forward" => waiter[c] # None /\ Waiting(item[c].id, waiter[c])

Tracking == FreshItems /\ ItemsAgree /\ SendsAgree /\ AckItems /\ SentBySelf /\ WaitersKnown

\* So a record that agrees with the store goes on agreeing with it.
LEMMA AgreesKept ==
    ASSUME ServiceTypeOK, Typed, FreshItems, [Next]_vars, NEW m, Agrees(m)
    PROVE  Agrees(m)'
<1>1. /\ m.id \in Stored' /\ m.id \in Stored
      /\ messageByID'[m.id].sender = m.sender
      /\ messageByID'[m.id].recipient = m.recipient
      /\ m.device # NoDevice => messageByID'[m.id].device = m.device
      /\ m.deliveredAt => messageByID'[m.id].deliveredAt
      /\ m.readAt => messageByID'[m.id].readAt
  BY RecordsKept DEF Agrees
<1> QED
  BY <1>1 DEF Agrees

\* A handler that has started stays so.
LEMMA StartedKept ==
    ASSUME ServiceTypeOK, Typed, [Next]_vars, NEW c \in Conns, Started(c)
    PROVE  Started(c)'
<1> c \in Callers
  BY RelayAssumption
<1>1. pc = [q \in Callers |-> pc[q]]
  BY DEF Typed, RelayTypeOK
<1>2. CASE pc'[c] = pc[c]
  BY <1>2 DEF Started
<1>3. ASSUME OwnStep(c) PROVE Started(c)'
  <2>1. CASE SendStep(c) \/ (c \in Requests /\ HttpSend(c))
    BY <1>1, <2>1 DEF SendStep, StoreItem, SendReturned, OfferPanics, HttpSend, Go, Started
  <2>2. CASE ConnStep(c)
    <3>1. CASE Bind(c) \/ OpenStream(c) \/ ListMailbox(c) \/ StartPumps(c)
      BY <3>1 DEF Bind, OpenStream, ListMailbox, StartPumps, Go, Started
    <3>2. CASE Push(c)
      BY <1>1, <3>2 DEF Push, Started
    <3>3. CASE ReadSend(c) \/ TrackPendingAck(c) \/ ReadAck(c) \/ LookupPending(c)
               \/ ForwardAck(c) \/ ClearPending(c) \/ ReadOther(c)
               \/ ReadFails(c) \/ Unbind(c) \/ CancelStream(c)
      BY <1>1, <3>3 DEF ReadSend, TrackPendingAck, ReadAck, LookupPending, ForwardAck,
                        ClearPending, ReadOther, ReadFails, Unbind, CancelStream, Go, Started
    <3> QED
      BY <2>2, <3>1, <3>2, <3>3 DEF ConnStep
  <2> QED
    BY <1>3, <2>1, <2>2 DEF OwnStep
<1> QED
  BY <1>2, <1>3, OwnSteps

\* And a connection that waits for the acknowledgement of a message goes on waiting.
LEMMA WaitingKept ==
    ASSUME ServiceTypeOK, Typed, FreshItems, [Next]_vars, NEW id, NEW w \in Conns, Waiting(id, w)
    PROVE  Waiting(id, w)'
<1>1. scenario' = scenario /\ id \in Stored' /\ messageByID'[id].sender = messageByID[id].sender
  BY RecordsKept, OwnSteps DEF Waiting
<1>2. Started(w)'
  BY StartedKept DEF Waiting
<1> QED
  BY <1>1, <1>2 DEF Waiting, UserOf, DeviceOf

\* A handler that sends was sending the same message, or takes up a new one.
LEMMA SendingSteps ==
    ASSUME ServiceTypeOK, Typed, [Next]_vars, NEW p \in Callers, Sending(p)'
    PROVE  \/ Sending(p) /\ item'[p] = item[p] /\ (pc'[p] = "store" => pc[p] = "store")
           \/ Routing(p) /\ UNCHANGED storeVars
<1>1. CASE pc'[p] = pc[p] /\ item'[p] = item[p]
  BY <1>1 DEF Sending
<1>2. CASE OwnStep(p)
  BY <1>2, OwnMove DEF Sending, Idle
<1> QED
  BY <1>1, <1>2, OwnSteps

\* New messages have new ids, and are stored only once.
LEMMA FreshStep ==
    ASSUME ServiceTypeOK, Typed, FreshItems, [Next]_vars
    PROVE  FreshItems'
<1>1. /\ pc = [q \in Callers |-> pc[q]] /\ item = [q \in Callers |-> item[q]]
      /\ \A q \in Callers : Sending(q) => item[q] \in Message /\ item[q] # None
  <2>1. \A q \in Callers : Sending(q) => item[q] \in Message
    BY NewItemType DEF Typed, Jobs, Sending
  <2>2. None \notin Message
    BY RelayAssumption
  <2> QED
    BY <2>1, <2>2 DEF Typed, RelayTypeOK
<1>2. ASSUME NEW p \in Callers, Routing(p), NEW q \in Callers, q # p, Sending(q)'
      PROVE  Sending(q) /\ item'[q] = item[q] /\ item'[p].id # item'[q].id
  <2>1. PICK m \in NewItems : /\ item' = [item EXCEPT ![p] = m]
                              /\ \A x \in Callers : item[x] # None => item[x].id # m.id
    BY <1>2 DEF Routing
  <2>2. item'[p] = m /\ item'[q] = item[q] /\ pc'[q] = pc[q]
    BY <1>1, <1>2, <2>1 DEF Routing
  <2>3. Sending(q)
    BY <1>2, <2>2 DEF Sending
  <2> QED
    BY <1>1, <2>1, <2>2, <2>3
<1>3. ASSUME NEW p \in Callers, NEW q \in Callers, Sending(p)', Sending(q)',
             item'[p].id = item'[q].id
      PROVE  p = q
  <2>1. CASE Routing(p)
    BY <1>2, <1>3, <2>1
  <2>2. CASE Routing(q)
    BY <1>2, <1>3, <2>2
  <2>3. CASE ~Routing(p) /\ ~Routing(q)
    BY <1>3, <2>3, SendingSteps DEF FreshItems
  <2> QED
    BY <2>1, <2>2, <2>3
<1>4. ASSUME NEW p \in Callers, pc'[p] = "store" PROVE item'[p].id \notin Stored'
  <2>1. Sending(p)'
    BY <1>4 DEF Sending
  <2>2. CASE Routing(p) /\ UNCHANGED storeVars
    <3>1. PICK m \in NewItems : item' = [item EXCEPT ![p] = m] /\ m.id \notin Stored
      BY <2>2 DEF Routing
    <3>2. item'[p] = m /\ Stored' = Stored
      BY <1>1, <2>2, <3>1 DEF storeVars, Stored
    <3> QED
      BY <3>1, <3>2
  <2>3. CASE pc[p] = "store" /\ item'[p] = item[p]
    <3>1. item[p].id \notin Stored
      BY <2>3 DEF FreshItems
    <3>2. ASSUME NEW r \in Callers, StoreItem(r) PROVE item[p].id \notin Stored'
      <4>1. pc[r] = "store" /\ pc'[r] = "fanout" /\ Stored' = Stored \cup {item[r].id}
        BY <1>1, <3>2, StoreItemEffect
      <4>2. r # p
        BY <1>4, <4>1
      <4>3. item[r].id # item[p].id
        BY <2>3, <4>1, <4>2 DEF FreshItems, Sending
      <4> QED
        BY <3>1, <4>1, <4>3
    <3>3. ASSUME NEW c \in Conns, ReadAck(c) PROVE Stored' = Stored
      <4>1. PICK id \in MessageIDs, st \in AckStatuses :
               /\ UserOf(c) \in Users /\ DeviceOf(c) \in DeviceRefs
               /\ Acknowledge(id, UserOf(c), DeviceOf(c), st)
        BY <3>3, ReadAckEffect
      <4>2. st \in Statuses
        BY ServiceAssumption
      <4> QED
        BY <4>1, <4>2, AcknowledgeEffect
    <3>4. CASE UNCHANGED storeVars
      BY <2>3, <3>1, <3>4 DEF storeVars, Stored
    <3> QED
      BY <2>3, <3>1, <3>2, <3>3, <3>4, StoreSteps
  <2> QED
    BY <1>4, <2>1, <2>2, <2>3, SendingSteps
<1> QED
  BY <1>3, <1>4 DEF FreshItems

\* One round of a fan-out takes one stream off its list.
LEMMA OfferedTodo ==
    ASSUME ServiceTypeOK, NEW t, NEW s, t \in DOMAIN sends, Offered(t, s)
    PROVE  /\ DOMAIN sends' = DOMAIN sends
           /\ \A x \in DOMAIN sends :
                 /\ sends'[x].msg = sends[x].msg
                 /\ sends'[x].todo = IF x = t THEN sends[x].todo \ {s} ELSE sends[x].todo
<1>1. sends \in [DOMAIN sends -> [msg : Message, todo : SUBSET Subscribers]]
  BY DEF ServiceTypeOK
<1>2. sends' = [sends EXCEPT ![t].todo = sends[t].todo \ {s}]
  BY DEF Offered
<1> QED
  BY <1>1, <1>2

\* A call of Send begins with the message its handler stores, for the streams of
\* the recipient; until it returns, a stream leaves its list by being offered.
LEMMA SendsSteps ==
    ASSUME ServiceTypeOK, Typed, [Next]_vars
    PROVE  /\ \A t \in DOMAIN sends' :
                 \/ /\ t \in DOMAIN sends /\ sends'[t].msg = sends[t].msg
                    /\ sends'[t].todo \subseteq sends[t].todo
                 \/ /\ StoreItem(t) /\ sends'[t].msg = item[t]
                    /\ sends'[t].todo = subscribersByUser[item[t].recipient]
           /\ \A t \in DOMAIN sends : \A s \in sends[t].todo :
                 \/ t \in DOMAIN sends' /\ s \in sends'[t].todo
                 \/ s \in Conns /\ (Offer(t, s) \/ OfferDropped(t, s))
<1> DEFINE Goal ==
       /\ \A t \in DOMAIN sends' :
             \/ /\ t \in DOMAIN sends /\ sends'[t].msg = sends[t].msg
                /\ sends'[t].todo \subseteq sends[t].todo
             \/ /\ StoreItem(t) /\ sends'[t].msg = item[t]
                /\ sends'[t].todo = subscribersByUser[item[t].recipient]
       /\ \A t \in DOMAIN sends : \A s \in sends[t].todo :
             \/ t \in DOMAIN sends' /\ s \in sends'[t].todo
             \/ s \in Conns /\ (Offer(t, s) \/ OfferDropped(t, s))
<1>1. ASSUME sends' = sends PROVE Goal
  BY <1>1
<1>2. ASSUME NEW p \in Callers, StoreItem(p) PROVE Goal
  <2>1. Store(p, item[p])
    BY <1>2 DEF StoreItem
  <2>2. /\ p \notin DOMAIN sends
        /\ sends' = [x \in DOMAIN sends \cup {p} |->
                       IF x = p
                       THEN [msg |-> item[p], todo |-> subscribersByUser[item[p].recipient]]
                       ELSE sends[x]]
    BY <2>1 DEF Store
  <2>3. /\ DOMAIN sends' = DOMAIN sends \cup {p}
        /\ sends'[p].msg = item[p] /\ sends'[p].todo = subscribersByUser[item[p].recipient]
        /\ \A x \in DOMAIN sends : sends'[x] = sends[x]
    BY <2>2
  <2> QED
    BY <1>2, <2>3
<1>3. ASSUME NEW p \in Callers, SendReturned(p) PROVE Goal
  <2>1. sends[p].todo = {} /\ sends' = [x \in DOMAIN sends \ {p} |-> sends[x]]
    BY <1>3 DEF SendReturned, Return
  <2> QED
    BY <2>1
<1>4. ASSUME NEW p \in Callers, NEW s \in Conns, Offer(p, s) \/ OfferDropped(p, s) PROVE Goal
  <2>1. p \in DOMAIN sends /\ Offered(p, s)
    BY <1>4 DEF Offer, OfferDropped, FanOutSkip, FanOutDeliver, FanOutDrop, Deliverable,
                Offering, Running
  <2>2. /\ DOMAIN sends' = DOMAIN sends
        /\ \A x \in DOMAIN sends :
              /\ sends'[x].msg = sends[x].msg
              /\ sends'[x].todo = IF x = p THEN sends[x].todo \ {s} ELSE sends[x].todo
    BY <2>1, OfferedTodo
  <2>3. ASSUME NEW t \in DOMAIN sends, NEW x \in sends[t].todo, x \notin sends'[t].todo
        PROVE  t = p /\ x = s
    BY <2>2, <2>3
  <2> QED
    BY <1>4, <2>2, <2>3
<1> HIDE DEF Goal
<1>5. ASSUME StillStep PROVE Goal
  <2>1. ASSUME NEW c \in Conns,
               ReadRefusedAck(c) \/ ClientDrops(c) \/ ForwarderStep(c) \/ WriterStep(c)
        PROVE  sends' = sends
    BY <2>1 DEF ReadRefusedAck, ClientDrops, ForwarderStep, WriterStep, ForwarderTakes, Receive,
                ForwarderPushes, ForwarderEnds, WriterWrites, WriterLoses, serviceVars, callVars
  <2>2. CASE UNCHANGED vars
    BY <1>1, <2>2 DEF vars, serviceVars, callVars
  <2> QED
    BY <1>1, <1>4, <1>5, <2>1, <2>2 DEF StillStep
<1>6. ASSUME NEW p \in Callers, OwnStep(p), ~StoreItem(p), ~SendReturned(p)
      PROVE  sends' = sends
  <2> USE DEF serviceVars, callVars
  <2>1. CASE SendStep(p)
    BY <1>6, <2>1 DEF SendStep, OfferPanics, FanOutPanic
  <2>2. CASE p \in Requests /\ HttpSend(p)
    BY <2>2 DEF HttpSend
  <2>3. CASE p \in Conns /\ ConnStep(p)
    BY <2>3
       DEF ConnStep, Bind, OpenStream, Subscribe, ListMailbox, StartPumps, Push, ReadSend,
           TrackPendingAck, ReadAck, Acknowledge, LookupPending, ForwardAck, ClearPending,
           ReadOther, ReadFails, Unbind, CancelStream, Cancel
  <2> QED
    BY <1>6, <2>1, <2>2, <2>3 DEF OwnStep
<1>7. Goal
  BY <1>1, <1>2, <1>3, <1>5, <1>6, StepKinds
<1> QED
  BY <1>7 DEF Goal

\* What handlers and calls of Send have in hand stays true of the store.
LEMMA AgreementStep ==
    ASSUME ServiceTypeOK, IndexesAgree, Typed, Tracking, [Next]_vars
    PROVE  ItemsAgree' /\ SendsAgree'
<1> USE DEF Tracking
<1>1. ASSUME NEW p \in Callers, ~Idle(p)', pc'[p] # "store" PROVE Agrees(item[p])'
  <2>1. CASE ~Idle(p) /\ pc[p] # "store" /\ item'[p] = item[p]
    <3>1. Agrees(item[p])
      BY <2>1 DEF ItemsAgree
    <3> QED
      BY <2>1, <3>1, AgreesKept DEF Agrees
  <2>2. CASE StoreItem(p)
    <3>1. /\ item' = item /\ item[p].id \in Stored'
          /\ messageByID'[item[p].id] = item[p]
      BY <2>2, StoreItemEffect
    <3> QED
      BY <3>1 DEF Agrees
  <2>3. CASE p \in Conns /\ ReadAck(p)
    <3>1. PICK id \in MessageIDs, st \in AckStatuses :
             /\ UserOf(p) \in Users /\ DeviceOf(p) \in DeviceRefs
             /\ Acknowledge(id, UserOf(p), DeviceOf(p), st)
             /\ id \in Stored /\ messageByID[id] \in Message
             /\ messageByID'[id] = Acked(messageByID[id], DeviceOf(p), st)
             /\ item' = [item EXCEPT ![p] = messageByID'[id]]
      BY <2>3, ReadAckEffect
    <3>2. item'[p] = messageByID'[id]
      BY <3>1 DEF Typed, RelayTypeOK
    <3>3. messageByID'[id].id = id
      BY <3>1, AckedType, ServiceAssumption DEF IndexesAgree
    <3>4. id \in Stored'
      BY <3>1, RecordsKept
    <3> QED
      BY <3>2, <3>3, <3>4 DEF Agrees
  <2>4. CASE OwnStep(p)
    <3>1. \/ StoreItem(p) \/ (p \in Conns /\ ReadAck(p))
          \/ pc[p] \in {"fanout", "lookup", "forward"} /\ item'[p] = item[p]
      <4>1. ~Routing(p)
        BY <1>1 DEF Routing, Typed, RelayTypeOK
      <4> QED
        BY <1>1, <2>4, <4>1, OwnMove
    <3> QED
      BY <2>1, <2>2, <2>3, <3>1 DEF Idle
  <2>5. CASE pc'[p] = pc[p] /\ item'[p] = item[p]
    BY <1>1, <2>1, <2>5 DEF Idle
  <2> QED
    BY <2>4, <2>5, OwnSteps
<1>2. ASSUME NEW t \in DOMAIN sends' PROVE Agrees(sends[t].msg)'
  <2>1. CASE t \in DOMAIN sends /\ sends'[t].msg = sends[t].msg
    <3>1. Agrees(sends[t].msg)
      BY <2>1 DEF SendsAgree
    <3> QED
      BY <2>1, <3>1, AgreesKept DEF Agrees
  <2>2. CASE StoreItem(t) /\ sends'[t].msg = item[t]
    <3>1. t \in Callers
      BY TypeStep, RelayServiceStep DEF ServiceTypeOK
    <3>2. item[t].id \in Stored' /\ messageByID'[item[t].id] = item[t]
      BY <2>2, <3>1, StoreItemEffect
    <3> QED
      BY <2>2, <3>2 DEF Agrees
  <2> QED
    BY <2>1, <2>2, SendsSteps
<1>3. ASSUME NEW t \in DOMAIN sends', pc'[t] = "fanout" PROVE sends'[t].msg = item'[t]
  <2>1. t \in Callers
    BY TypeStep, RelayServiceStep DEF ServiceTypeOK
  <2>2. StoreItem(t) => item' = item /\ pc[t] = "store" /\ t \notin DOMAIN sends
    BY <2>1, StoreItemEffect DEF Store
  <2>3. \/ StoreItem(t) \/ (pc[t] = "fanout" /\ item'[t] = item[t])
    <3>1. ~Routing(t)
      BY <1>3, <2>1 DEF Routing, Typed, RelayTypeOK
    <3> QED
      BY <1>3, <2>1, <3>1, OwnSteps, OwnMove DEF Idle
  <2>4. \/ t \in DOMAIN sends /\ sends'[t].msg = sends[t].msg
        \/ StoreItem(t) /\ sends'[t].msg = item[t]
    BY SendsSteps
  <2> QED
    BY <2>2, <2>3, <2>4 DEF SendsAgree
<1> QED
  BY <1>1, <1>2, <1>3 DEF ItemsAgree, SendsAgree

\* An acknowledged message carries what its recipient reported.
LEMMA AckItemsStep ==
    ASSUME ServiceTypeOK, Typed, AckItems, [Next]_vars
    PROVE  AckItems'
<1> Conns \subseteq Callers
  BY RelayAssumption
<1> SUFFICES ASSUME NEW c \in Conns, Acking(c)'
             PROVE  /\ item'[c].status \in AckStatuses
                    /\ item'[c].status \in {"delivered", "read"} => item'[c].deliveredAt
                    /\ item'[c].status = "read" => item'[c].readAt
                    /\ pc'[c] = "clear" => Final(item'[c])
  BY DEF AckItems, Final
<1>1. CASE Acking(c) /\ item'[c] = item[c] /\ (pc'[c] = "clear" => pc[c] = "clear" \/ Final(item[c]))
  BY <1>1 DEF AckItems
<1>2. CASE ReadAck(c) /\ pc'[c] = "lookup"
  <2>1. PICK id \in MessageIDs, st \in AckStatuses :
           /\ messageByID[id] \in Message
           /\ messageByID'[id] = Acked(messageByID[id], DeviceOf(c), st)
           /\ item' = [item EXCEPT ![c] = messageByID'[id]]
    BY <1>2, ReadAckEffect
  <2>2. item'[c] = Acked(messageByID[id], DeviceOf(c), st)
    BY <2>1 DEF Typed, RelayTypeOK
  <2>3. /\ Acked(messageByID[id], DeviceOf(c), st).status = st
        /\ st \in {"delivered", "read"} => Acked(messageByID[id], DeviceOf(c), st).deliveredAt
        /\ st = "read" => Acked(messageByID[id], DeviceOf(c), st).readAt
    BY <2>1 DEF Acked, Message
  <2> QED
    BY <1>2, <2>2, <2>3
<1>3. CASE OwnStep(c)
  <2>1. ~Routing(c)
    BY DEF Routing, Acking, Typed, RelayTypeOK
  <2> QED
    BY <1>1, <1>2, <1>3, <2>1, OwnMove DEF Acking, Idle
<1>4. CASE pc'[c] = pc[c] /\ item'[c] = item[c]
  BY <1>1, <1>4 DEF Acking
<1> QED
  BY <1>3, <1>4, OwnSteps

\* A connection sends only in the name of its own user.
LEMMA SentBySelfStep ==
    ASSUME ServiceTypeOK, Typed, SentBySelf, [Next]_vars
    PROVE  SentBySelf'
<1> Conns \subseteq Callers
  BY RelayAssumption
<1> SUFFICES ASSUME NEW c \in Conns, Sending(c)'
             PROVE  item'[c].sender = UserOf(c)' /\ c \in scenario'.authors
  BY DEF SentBySelf
<1>1. UserOf(c)' = UserOf(c) /\ scenario' = scenario
  BY OwnSteps DEF UserOf, DeviceOf
<1>2. CASE Sending(c) /\ item'[c] = item[c]
  BY <1>1, <1>2 DEF SentBySelf
<1>3. CASE Routing(c)
  BY <1>1, <1>3 DEF Routing, Typed, RelayTypeOK
<1> QED
  BY <1>2, <1>3, SendingSteps

\* The hub learns who waits from the sender's handler, and forgets it by the
\* handler that passes on the last news.
LEMMA PendingSteps ==
    ASSUME [Next]_vars
    PROVE  \/ \E c \in Conns : TrackPendingAck(c) \/ ClearPending(c)
           \/ pendingAck' = pendingAck
<1> USE DEF hubVars
<1>1. ASSUME NEW p \in Callers, OwnStep(p), ~(p \in Conns /\ (TrackPendingAck(p) \/ ClearPending(p)))
      PROVE  pendingAck' = pendingAck
  <2>1. CASE SendStep(p)
    BY <2>1 DEF SendStep, StoreItem, SendReturned, OfferPanics
  <2>2. CASE p \in Requests /\ HttpSend(p)
    BY <2>2 DEF HttpSend
  <2>3. CASE p \in Conns /\ ConnStep(p)
    BY <1>1, <2>3
       DEF ConnStep, Bind, OpenStream, ListMailbox, StartPumps, Push, ReadSend,
           ReadAck, LookupPending, ForwardAck, ReadOther, ReadFails, Unbind, CancelStream
  <2> QED
    BY <1>1, <2>1, <2>2, <2>3 DEF OwnStep
<1> QED
  BY <1>1, StepKinds, StillEffect

\* A connection the hub or a handler means to tell is one that sent the message.
LEMMA WaitersStep ==
    ASSUME ServiceTypeOK, Typed, Tracking, [Next]_vars
    PROVE  WaitersKnown'
<1> USE DEF Tracking
<1> Conns \subseteq Callers /\ None \notin Conns
  BY RelayAssumption
<1>1. ASSUME NEW id \in MessageIDs, pendingAck'[id] # None
      PROVE  Waiting(id, pendingAck[id])'
  <2>1. CASE pendingAck'[id] = pendingAck[id]
    <3>1. pendingAck[id] \in Conns /\ Waiting(id, pendingAck[id])
      BY <1>1, <2>1 DEF Typed, RelayTypeOK, WaitersKnown
    <3>2. PICK w \in Conns : w = pendingAck[id]
      BY <3>1
    <3>3. Waiting(id, w)'
      BY <3>1, <3>2, WaitingKept
    <3> QED
      BY <2>1, <3>2, <3>3 DEF Waiting, Started, UserOf, DeviceOf
  <2>2. ASSUME NEW c \in Conns, TrackPendingAck(c), pendingAck'[id] # pendingAck[id]
        PROVE  Waiting(id, pendingAck[id])'
    <3>1. /\ pc[c] = "track" /\ pc'[c] = "reply"
          /\ pendingAck' = [pendingAck EXCEPT ![item[c].id] = c]
          /\ scenario' = scenario /\ messageByID' = messageByID
      BY <2>2 DEF TrackPendingAck, Go, Typed, RelayTypeOK, restVars, serviceVars, storeVars
    <3>2. id = item[c].id /\ pendingAck'[id] = c
      BY <2>2, <3>1 DEF Typed, RelayTypeOK
    <3>3. Agrees(item[c])
      BY <3>1 DEF ItemsAgree, Idle
    <3>4. item[c].sender = UserOf(c) /\ c \in scenario.authors
      BY <3>1 DEF SentBySelf, Sending
    <3>5. Stored' = Stored /\ UserOf(c)' = UserOf(c)
      BY <3>1 DEF Stored, UserOf, DeviceOf
    <3>6. Waiting(id, c)'
      BY <3>1, <3>2, <3>3, <3>4, <3>5 DEF Waiting, Agrees, Started
    <3> QED
      BY <3>2, <3>6 DEF Waiting, Started, UserOf, DeviceOf
  <2>3. ASSUME NEW c \in Conns, ClearPending(c)
        PROVE  pendingAck'[id] = pendingAck[id]
    <3>1. pendingAck' = [pendingAck EXCEPT ![item[c].id] = None]
      BY <2>3 DEF ClearPending
    <3> QED
      BY <1>1, <3>1 DEF Typed, RelayTypeOK
  <2> QED
    BY <2>1, <2>2, <2>3, PendingSteps
<1>2. ASSUME NEW c \in Conns, pc'[c] = "forward"
      PROVE  waiter'[c] # None /\ Waiting(item[c].id, waiter[c])'
  <2>1. /\ item'[c] = item[c]
        /\ waiter'[c] \in Conns
        /\ Waiting(item[c].id, waiter'[c])
    <3>1. CASE pc[c] = "forward" /\ item'[c] = item[c] /\ waiter'[c] = waiter[c]
      BY <3>1 DEF WaitersKnown, Typed, RelayTypeOK
    <3>2. CASE /\ pc[c] = "lookup" /\ item'[c] = item[c]
               /\ waiter'[c] = pendingAck[item[c].id] /\ waiter'[c] # None
      <4>1. item[c].id \in MessageIDs
        BY <3>2 DEF Typed, Jobs, Acking, Message
      <4> QED
        BY <3>2, <4>1 DEF WaitersKnown, Typed, RelayTypeOK
    <3>3. CASE OwnStep(c)
      <4>1. ~Routing(c)
        BY <1>2 DEF Routing, Typed, RelayTypeOK
      <4> QED
        BY <1>2, <3>2, <3>3, <4>1, OwnMove DEF Idle
    <3> QED
      BY <1>2, <3>1, <3>3, OwnSteps
  <2>2. PICK w \in Conns : w = waiter'[c]
    BY <2>1
  <2>3. PICK id : id = item[c].id
    OBVIOUS
  <2>4. Waiting(id, w)'
    BY <2>1, <2>2, <2>3, WaitingKept
  <2> QED
    BY <2>1, <2>2, <2>3, <2>4 DEF Waiting, Started, UserOf, DeviceOf
<1> QED
  BY <1>1, <1>2 DEF WaitersKnown

\* All of this holds before anything has happened.
LEMMA TrackingInit == Init => Tracking
<1> SUFFICES ASSUME Init PROVE Tracking
  OBVIOUS
<1>1. \A p \in Callers : pc[p] = "new"
  BY DEF Init
<1>2. \A c \in Conns : pc[c] = "new"
  BY <1>1, RelayAssumption
<1>3. sends = [t \in {} |-> {}] /\ \A id \in MessageIDs : pendingAck[id] = None
  BY DEF Init, ServiceInit
<1> QED
  BY <1>1, <1>2, <1>3
     DEF Tracking, FreshItems, ItemsAgree, SendsAgree, AckItems, SentBySelf, WaitersKnown,
         Sending, Acking, Idle

\* Every step keeps it.
LEMMA TrackingStep ==
    ASSUME ServiceTypeOK, IndexesAgree, Typed, Tracking, [Next]_vars
    PROVE  Tracking'
BY FreshStep, AgreementStep, AckItemsStep, SentBySelfStep, WaitersStep DEF Tracking

\* All that is known of the message service holds inside the relay.
ServiceGood == ServiceTypeOK /\ IndexesAgree /\ SubscriptionsAgree /\ StreamsAddressed

\* The service keeps its promises because the relay uses it as any caller may.
LEMMA ServiceGoodAlways == Spec => []ServiceGood
BY RelayUsesService, TypeCorrect, IndexSafety, SubscriptionSafety, StreamSafety, PTL DEF ServiceGood

\* The types and the tracking hold in every state.
LEMMA TrackingAlways == Spec => [](Typed /\ Tracking)
<1>1. ServiceGood /\ Typed /\ Tracking /\ [Next]_vars => (Typed /\ Tracking)'
  BY TypedStep, TrackingStep DEF ServiceGood
<1> QED
  BY <1>1, TypedInit, TrackingInit, ServiceGoodAlways, PTL DEF Spec

-----------------------------------------------------------------------------
(* What a client is sent: the places an event passes through. *)

\* What a client received and will receive changes by the steps of its own
\* handler, forwarder and writer, and by an acknowledgement another handler
\* passes on.
LEMMA EventSteps ==
    ASSUME Typed, [Next]_vars, NEW c \in Conns
    PROVE  \/ ListMailbox(c) \/ Push(c) \/ TrackPendingAck(c) \/ ReadOther(c)
           \/ ForwarderPushes(c) \/ WriterWrites(c) \/ WriterLoses(c)
           \/ \E a \in Conns : ForwardAck(a) /\ waiter[a] = c
           \/ wire'[c] = wire[c] /\ sendQ'[c] = sendQ[c] /\ outbox'[c] = outbox[c]
<1> USE DEF netVars
<1>1. /\ wire = [x \in Conns |-> wire[x]] /\ sendQ = [x \in Conns |-> sendQ[x]]
      /\ outbox = [x \in Conns |-> outbox[x]]
  BY DEF Typed, RelayTypeOK
<1> DEFINE Same == wire'[c] = wire[c] /\ sendQ'[c] = sendQ[c] /\ outbox'[c] = outbox[c]
<1>2. CASE StillStep
  <2>1. ASSUME NEW p \in Callers, NEW s \in Conns, Offer(p, s) \/ OfferDropped(p, s)
        PROVE  Same
    BY <2>1 DEF Offer, OfferDropped
  <2>2. ASSUME NEW x \in Conns, ReadRefusedAck(x) \/ ClientDrops(x) \/ ForwarderTakes(x) \/ ForwarderEnds(x)
        PROVE  Same
    BY <2>2 DEF ReadRefusedAck, ClientDrops, ForwarderTakes, ForwarderEnds
  <2>3. ASSUME NEW x \in Conns, x # c, ForwarderPushes(x) \/ WriterWrites(x) \/ WriterLoses(x)
        PROVE  Same
    BY <1>1, <2>3 DEF ForwarderPushes, WriterWrites, WriterLoses, Writes
  <2>4. CASE UNCHANGED vars
    BY <2>4 DEF vars
  <2> QED
    BY <1>2, <2>1, <2>2, <2>3, <2>4 DEF StillStep, ForwarderStep, WriterStep
<1>3. ASSUME NEW p \in Callers, OwnStep(p)
      PROVE  \/ Same
             \/ p = c /\ (ListMailbox(c) \/ Push(c) \/ TrackPendingAck(c) \/ ReadOther(c))
             \/ p \in Conns /\ ForwardAck(p) /\ waiter[p] = c
  <2>1. CASE SendStep(p)
    BY <2>1 DEF SendStep, StoreItem, SendReturned, OfferPanics
  <2>2. CASE p \in Requests /\ HttpSend(p)
    BY <2>2 DEF HttpSend
  <2>3. CASE p \in Conns /\ ConnStep(p)
    <3>1. CASE Bind(p) \/ OpenStream(p) \/ StartPumps(p) \/ ReadSend(p) \/ ReadAck(p)
               \/ LookupPending(p) \/ ClearPending(p) \/ ReadFails(p) \/ Unbind(p) \/ CancelStream(p)
      BY <3>1 DEF Bind, OpenStream, StartPumps, ReadSend, ReadAck, LookupPending, ClearPending,
                  ReadFails, Unbind, CancelStream
    <3>2. CASE p # c /\ (ListMailbox(p) \/ Push(p) \/ TrackPendingAck(p) \/ ReadOther(p))
      BY <1>1, <3>2 DEF ListMailbox, Push, TrackPendingAck, ReadOther
    <3>3. CASE ForwardAck(p) /\ waiter[p] # c
      BY <1>1, <3>3 DEF ForwardAck, Told
    <3> QED
      BY <2>3, <3>1, <3>2, <3>3 DEF ConnStep
  <2> QED
    BY <1>3, <2>1, <2>2, <2>3 DEF OwnStep
<1> QED
  BY <1>2, <1>3, StepKinds

\* A handler pushes to its session only what it answers: the greeting, then one
\* event at a time.
Outboxes ==
    \A c \in Conns :
       /\ pc[c] \notin {"greet", "reply"} => outbox[c] = <<>>
       /\ pc[c] = "reply" => \E e \in EventType : outbox[c] = <<e>> /\ e.kind \in {"ack", "reply"}

\* Before its greeting a connection is sent nothing, and its forwarder is off;
\* a forwarder holds one item.
NothingEarly ==
    \A c \in Conns :
       /\ pc[c] \in {"new", "subscribe", "list"} => wire[c] = <<>> /\ sendQ[c] = <<>>
       /\ ~Started(c) => forwarder[c] = "off" /\ hand[c] = <<>>
       /\ hand[c] = <<>> \/ \E m \in Message : hand[c] = <<m>>

\* A connection that listed its mailbox has its stream until it is torn down.
OwnStream ==
    \A c \in Conns : pc[c] \notin {"new", "subscribe", "done"} =>
       /\ c \in DOMAIN subscriber
       /\ subscriber[c].user = UserOf(c)
       /\ subscriber[c].device = DeviceOf(c)
       /\ subscriber[c].open

Shape == Outboxes /\ NothingEarly /\ OwnStream

\* An event that comes to c, and the step that sends it.
Incoming(c, e) ==
    \/ TrackPendingAck(c) /\ e = About("ack", [item[c] EXCEPT !.status = "accepted"])
    \/ ReadOther(c) /\ e = Plain("reply")
    \/ ForwarderPushes(c) /\ e = About("deliver", hand[c][1])
    \/ \E a \in Conns : ForwardAck(a) /\ waiter[a] = c /\ e = About("ack", item[a])

Greeting(c) ==
    Append([i \in DOMAIN Mailbox(c) |-> About("mailbox", Mailbox(c)[i])], Plain("bound"))

\* A push moves an event on; it changes nothing of what the client will receive.
LEMMA PushSame ==
    ASSUME Typed, NEW c \in Conns, Push(c)
    PROVE  Outgoing(c)' = Outgoing(c)
<1> DEFINE w == wire[c]  q == sendQ[c]  o == outbox[c]
<1>1. w \in Seq(EventType) /\ q \in Seq(EventType) /\ o \in Seq(EventType) /\ o # <<>>
  BY DEF Push, Typed, RelayTypeOK
<1>2. wire'[c] = w /\ sendQ'[c] = Append(q, Head(o)) /\ outbox'[c] = Tail(o)
  BY DEF Push, netVars, Typed, RelayTypeOK
<1> HIDE DEF w, q, o
<1>3. Head(o) \in EventType /\ w \o q \in Seq(EventType)
  BY <1>1
<1>4. w \o Append(q, Head(o)) = Append(w \o q, Head(o))
  BY <1>1, <1>3, ConcatAppend
<1>5. Append(w \o q, Head(o)) \o Tail(o) = (w \o q) \o o
  BY <1>1, <1>3, ConcatHead
<1> QED
  BY <1>2, <1>4, <1>5 DEF Outgoing, w, q, o

\* So does a write.
LEMMA WriteSame ==
    ASSUME Typed, NEW c \in Conns, WriterWrites(c)
    PROVE  Outgoing(c)' = Outgoing(c)
<1>1. wire[c] \in Seq(EventType) /\ sendQ[c] \in Seq(EventType) /\ sendQ[c] # <<>>
  BY DEF WriterWrites, Writes, Typed, RelayTypeOK
<1>2. wire'[c] = Append(wire[c], Head(sendQ[c])) /\ sendQ'[c] = Tail(sendQ[c])
      /\ outbox'[c] = outbox[c]
  BY DEF WriterWrites, Writes, Typed, RelayTypeOK
<1>3. Append(wire[c], Head(sendQ[c])) \o Tail(sendQ[c]) = wire[c] \o sendQ[c]
  BY <1>1, ConcatHead
<1> QED
  BY <1>2, <1>3 DEF Outgoing

\* What a client received and will receive is a list of events.
LEMMA OutgoingType ==
    ASSUME Typed, NEW c \in Conns
    PROVE  /\ wire[c] \in Seq(EventType) /\ sendQ[c] \in Seq(EventType)
           /\ outbox[c] \in Seq(EventType) /\ wire[c] \o sendQ[c] \in Seq(EventType)
           /\ Outgoing(c) \in Seq(EventType)
BY DEF Typed, RelayTypeOK, Outgoing

\* So it is after a step.
LEMMA OutgoingTypes ==
    ASSUME ServiceTypeOK, Typed, [Next]_vars, NEW c \in Conns
    PROVE  Outgoing(c) \in Seq(EventType) /\ Outgoing(c)' \in Seq(EventType)
<1>1. Typed'
  BY TypedStep
<1>2. /\ wire'[c] \in Seq(EventType) /\ sendQ'[c] \in Seq(EventType)
      /\ outbox'[c] \in Seq(EventType)
  BY <1>1 DEF Typed, RelayTypeOK
<1>3. (wire'[c] \o sendQ'[c]) \o outbox'[c] \in Seq(EventType)
  BY <1>2
<1> QED
  BY <1>3, OutgoingType DEF Outgoing

\* What is inserted is added to it, and what is removed was in it.
LEMMA OutgoingListed ==
    ASSUME ServiceTypeOK, Typed, [Next]_vars, NEW c \in Conns, NEW k, NEW x
    PROVE  /\ Inserted(Outgoing(c), k, x, Outgoing(c)')
                 => Listed(Outgoing(c)') = Listed(Outgoing(c)) \cup {x}
           /\ Inserted(Outgoing(c)', k, x, Outgoing(c))
                 => Listed(Outgoing(c)) = Listed(Outgoing(c)') \cup {x}
<1> DEFINE q == Outgoing(c)  r == Outgoing(c)'
<1>1. q \in Seq(EventType) /\ r \in Seq(EventType)
  BY OutgoingTypes
<1> HIDE DEF q, r
<1>2. Inserted(q, k, x, r) => Listed(r) = Listed(q) \cup {x}
  BY <1>1, InsertedListed
<1>3. Inserted(r, k, x, q) => Listed(q) = Listed(r) \cup {x}
  BY <1>1, InsertedListed
<1> QED
  BY <1>2, <1>3 DEF q, r

\* An event that another handler or the forwarder sends comes behind what is in
\* the send channel and before what the handler itself has yet to push.
LEMMA QueuedInserted ==
    ASSUME Typed, NEW c \in Conns, NEW e \in EventType,
           wire'[c] = wire[c], sendQ'[c] = Append(sendQ[c], e), outbox'[c] = outbox[c]
    PROVE  Inserted(Outgoing(c), Len(wire[c] \o sendQ[c]) + 1, e, Outgoing(c)')
<1> DEFINE w == wire[c]  q == sendQ[c]  o == outbox[c]
<1>1. /\ w \in Seq(EventType) /\ q \in Seq(EventType) /\ o \in Seq(EventType)
      /\ w \o q \in Seq(EventType)
  BY OutgoingType
<1> HIDE DEF w, q, o
<1>2. w \o Append(q, e) = Append(w \o q, e)
  BY <1>1, ConcatAppend
<1>3. Inserted((w \o q) \o o, Len(w \o q) + 1, e, Append(w \o q, e) \o o)
  BY <1>1, InsertBetween
<1>4. Outgoing(c)' = Append(w \o q, e) \o o
  BY <1>2 DEF Outgoing, w, q, o
<1> QED
  BY <1>3, <1>4 DEF Outgoing, w, q, o

\* An event that the handler will push comes last.
LEMMA AnswerInserted ==
    ASSUME Typed, NEW c \in Conns, NEW e \in EventType,
           wire'[c] = wire[c], sendQ'[c] = sendQ[c], outbox[c] = <<>>, outbox'[c] = <<e>>
    PROVE  Inserted(Outgoing(c), Len(wire[c] \o sendQ[c]) + 1, e, Outgoing(c)')
<1>1. wire[c] \o sendQ[c] \in Seq(EventType)
  BY OutgoingType
<1>2. Inserted((wire[c] \o sendQ[c]) \o <<>>, Len(wire[c] \o sendQ[c]) + 1, e,
               (wire[c] \o sendQ[c]) \o <<e>>)
  BY <1>1, InsertLast
<1> QED
  BY <1>2 DEF Outgoing

\* In every step what a client received and will receive stays as it is, gains
\* one event, loses one because the socket is down, or becomes the greeting.
LEMMA OutgoingStep ==
    ASSUME ServiceTypeOK, Typed, Shape, [Next]_vars, NEW c \in Conns
    PROVE  \/ Outgoing(c)' = Outgoing(c) /\ ~ListMailbox(c)
           \/ \E e \in EventType :
                 /\ Incoming(c, e)
                 /\ Inserted(Outgoing(c), Len(wire[c] \o sendQ[c]) + 1, e, Outgoing(c)')
           \/ /\ socket[c] = "down" /\ socket'[c] = "down" /\ pc' = pc
              /\ \E k, e : Inserted(Outgoing(c)', k, e, Outgoing(c))
           \/ /\ ListMailbox(c) /\ pc[c] = "list"
              /\ Outgoing(c) = <<>> /\ Outgoing(c)' = Greeting(c)
<1> USE DEF netVars, jobVars, Go
<1>1. wire[c] \in Seq(EventType) /\ sendQ[c] \in Seq(EventType)
      /\ outbox[c] \in Seq(EventType) /\ wire[c] \o sendQ[c] \in Seq(EventType)
  BY OutgoingType
<1>2. /\ pc[c] \notin {"greet", "reply"} => outbox[c] = <<>>
      /\ wire = [x \in Conns |-> wire[x]] /\ sendQ = [x \in Conns |-> sendQ[x]]
      /\ outbox = [x \in Conns |-> outbox[x]]
  BY DEF Shape, Outboxes, Typed, RelayTypeOK
<1>3. CASE Push(c)
  BY <1>3, PushSame DEF Push, ListMailbox
<1>4. CASE WriterWrites(c)
  <2>1. sendQ[c] # <<>> /\ wire'[c] # wire[c]
    <3>1. sendQ[c] # <<>> /\ wire'[c] = Append(wire[c], Head(sendQ[c]))
      BY <1>2, <1>4 DEF WriterWrites, Writes
    <3>2. Head(sendQ[c]) \in EventType
      BY <1>1, <3>1
    <3>3. Len(Append(wire[c], Head(sendQ[c]))) = Len(wire[c]) + 1 /\ Len(wire[c]) \in Nat
      BY <1>1, <3>2
    <3>4. Len(wire'[c]) # Len(wire[c])
      BY <3>1, <3>3
    <3> QED
      BY <3>1, <3>4
  <2>2. ~ListMailbox(c)
    BY <2>1 DEF ListMailbox
  <2> QED
    BY <1>4, <2>2, WriteSame
<1>5. CASE TrackPendingAck(c)
  <2> DEFINE e == About("ack", [item[c] EXCEPT !.status = "accepted"])
  <2>1. item[c] \in Message /\ [item[c] EXCEPT !.status = "accepted"] \in Message
    <3>1. c \in Callers
      BY RelayAssumption
    <3>2. item[c] \in Message
      BY <1>5, <3>1 DEF TrackPendingAck, Typed, Jobs
    <3> QED
      BY <3>2 DEF Message, Statuses
  <2>2. e \in EventType
    BY <2>1, EventTypes
  <2>3. /\ wire'[c] = wire[c] /\ sendQ'[c] = sendQ[c]
        /\ outbox[c] = <<>> /\ outbox'[c] = <<e>>
    BY <1>2, <1>5 DEF TrackPendingAck, Answer
  <2>4. Incoming(c, e)
    BY <1>5 DEF Incoming
  <2> HIDE DEF e
  <2> QED
    BY <2>2, <2>3, <2>4, AnswerInserted
<1>6. CASE ReadOther(c)
  <2>1. Plain("reply") \in EventType
    BY EventTypes
  <2>2. /\ wire'[c] = wire[c] /\ sendQ'[c] = sendQ[c]
        /\ outbox[c] = <<>> /\ outbox'[c] = <<Plain("reply")>>
    BY <1>2, <1>6 DEF ReadOther
  <2>3. Incoming(c, Plain("reply"))
    BY <1>6 DEF Incoming
  <2> QED
    BY <2>1, <2>2, <2>3, AnswerInserted
<1>7. CASE ForwarderPushes(c)
  <2> DEFINE e == About("deliver", hand[c][1])
  <2>1. e \in EventType
    <3>1. hand[c][1] \in Message
      BY <1>7 DEF ForwarderPushes, Shape, NothingEarly
    <3> QED
      BY <3>1, EventTypes
  <2>2. wire'[c] = wire[c] /\ sendQ'[c] = Append(sendQ[c], e) /\ outbox'[c] = outbox[c]
    BY <1>2, <1>7 DEF ForwarderPushes
  <2>3. Incoming(c, e)
    BY <1>7 DEF Incoming
  <2> HIDE DEF e
  <2> QED
    BY <2>1, <2>2, <2>3, QueuedInserted
<1>8. ASSUME NEW a \in Conns, ForwardAck(a), waiter[a] = c
      PROVE  \E e \in EventType :
                /\ Incoming(c, e)
                /\ Inserted(Outgoing(c), Len(wire[c] \o sendQ[c]) + 1, e, Outgoing(c)')
  <2> DEFINE e == About("ack", item[a])
  <2>1. e \in EventType
    <3>1. item[a] \in Message
      BY <1>8 DEF ForwardAck, Typed, Jobs, Acking
    <3> QED
      BY <3>1, EventTypes
  <2>2. wire'[c] = wire[c] /\ sendQ'[c] = Append(sendQ[c], e) /\ outbox'[c] = outbox[c]
    BY <1>2, <1>8 DEF ForwardAck, Told
  <2>3. Incoming(c, e)
    BY <1>8 DEF Incoming
  <2> HIDE DEF e
  <2> QED
    BY <2>1, <2>2, <2>3, QueuedInserted
<1>9. CASE WriterLoses(c)
  <2>1. /\ sendQ[c] # <<>> /\ sendQ'[c] = Tail(sendQ[c])
        /\ wire'[c] = wire[c] /\ outbox'[c] = outbox[c]
        /\ socket[c] = "down" /\ socket'[c] = "down" /\ pc' = pc
    BY <1>2, <1>9 DEF WriterLoses, Writes
  <2>2. \E x \in EventType : Inserted((wire[c] \o Tail(sendQ[c])) \o outbox[c], Len(wire[c]) + 1, x,
                                      (wire[c] \o sendQ[c]) \o outbox[c])
    BY <1>1, <2>1, RemoveBetween
  <2> QED
    BY <2>1, <2>2 DEF Outgoing
<1>10. CASE ListMailbox(c)
  <2>1. /\ pc[c] = "list" /\ outbox'[c] = Greeting(c)
        /\ wire'[c] = wire[c] /\ sendQ'[c] = sendQ[c]
    BY <1>2, <1>10 DEF ListMailbox, Greeting
  <2>2. wire[c] = <<>> /\ sendQ[c] = <<>> /\ outbox[c] = <<>>
    BY <1>2, <2>1 DEF Shape, NothingEarly
  <2>3. outbox'[c] \in Seq(EventType)
    BY TypedStep DEF Typed, RelayTypeOK
  <2>4. <<>> \o <<>> = <<>> /\ <<>> \o outbox'[c] = outbox'[c]
    BY <2>3
  <2> QED
    BY <1>10, <2>1, <2>2, <2>4 DEF Outgoing
<1>11. CASE wire'[c] = wire[c] /\ sendQ'[c] = sendQ[c] /\ outbox'[c] = outbox[c]
  BY <1>10, <1>11 DEF Outgoing
<1> QED
  BY <1>3, <1>4, <1>5, <1>6, <1>7, <1>8, <1>9, <1>10, <1>11, EventSteps

-----------------------------------------------------------------------------
(* Handlers, forwarders and streams fit together. *)

\* A forwarder starts with the handler's loop, and only it takes and pushes.
LEMMA HandSteps ==
    ASSUME Typed, [Next]_vars, NEW c \in Conns
    PROVE  \/ StartPumps(c) \/ ForwarderStep(c)
           \/ hand'[c] = hand[c] /\ forwarder'[c] = forwarder[c]
<1> USE DEF pumpVars
<1>1. hand = [x \in Conns |-> hand[x]] /\ forwarder = [x \in Conns |-> forwarder[x]]
  BY DEF Typed, RelayTypeOK
<1> DEFINE Same == hand'[c] = hand[c] /\ forwarder'[c] = forwarder[c]
<1>2. CASE StillStep
  <2>1. ASSUME NEW p \in Callers, NEW s \in Conns, Offer(p, s) \/ OfferDropped(p, s)
        PROVE  Same
    BY <2>1 DEF Offer, OfferDropped
  <2>2. ASSUME NEW x \in Conns, ReadRefusedAck(x) \/ ClientDrops(x) \/ WriterStep(x)
        PROVE  Same
    BY <2>2 DEF ReadRefusedAck, ClientDrops, WriterStep, WriterWrites, WriterLoses
  <2>3. ASSUME NEW x \in Conns, x # c, ForwarderStep(x)
        PROVE  Same
    BY <1>1, <2>3 DEF ForwarderStep, ForwarderTakes, ForwarderPushes, ForwarderEnds
  <2>4. CASE UNCHANGED vars
    BY <2>4 DEF vars
  <2> QED
    BY <1>2, <2>1, <2>2, <2>3, <2>4 DEF StillStep
<1>3. ASSUME NEW p \in Callers, OwnStep(p)
      PROVE  Same \/ (p = c /\ StartPumps(c))
  <2>1. CASE SendStep(p)
    BY <2>1 DEF SendStep, StoreItem, SendReturned, OfferPanics
  <2>2. CASE p \in Requests /\ HttpSend(p)
    BY <2>2 DEF HttpSend
  <2>3. CASE p \in Conns /\ ConnStep(p)
    BY <1>1, <2>3
       DEF ConnStep, Bind, OpenStream, ListMailbox, StartPumps, Push, ReadSend, TrackPendingAck,
           ReadAck, LookupPending, ForwardAck, ClearPending, ReadOther, ReadFails, Unbind,
           CancelStream
  <2> QED
    BY <1>3, <2>1, <2>2, <2>3 DEF OwnStep
<1> QED
  BY <1>2, <1>3, StepKinds

\* A stream changes when it is opened or cancelled by its connection, filled by a
\* call of Send and emptied by its forwarder.
LEMMA StreamSteps ==
    ASSUME ServiceTypeOK, Typed, [Next]_vars, NEW c \in Conns
    PROVE  \/ OpenStream(c) \/ CancelStream(c) \/ ForwarderTakes(c)
           \/ \E t \in Callers : FanOutDeliver(t, c)
           \/ /\ c \in DOMAIN subscriber' <=> c \in DOMAIN subscriber
              /\ c \in DOMAIN subscriber => subscriber'[c] = subscriber[c]
<1> USE DEF serviceVars, streamVars
<1>1. subscriber = [x \in DOMAIN subscriber |-> subscriber[x]]
  BY DEF ServiceTypeOK
<1> DEFINE Same == /\ c \in DOMAIN subscriber' <=> c \in DOMAIN subscriber
                   /\ c \in DOMAIN subscriber => subscriber'[c] = subscriber[c]
<1>2. CASE StillStep
  <2>1. ASSUME NEW p \in Callers, NEW s \in Conns, Offer(p, s) \/ OfferDropped(p, s)
        PROVE  Same \/ FanOutDeliver(p, c)
    <3>1. CASE FanOutSkip(p, s) \/ FanOutDrop(p, s)
      BY <3>1 DEF FanOutSkip, FanOutDrop
    <3>2. CASE FanOutDeliver(p, s) /\ s # c
      BY <1>1, <3>2 DEF FanOutDeliver
    <3> QED
      BY <2>1, <3>1, <3>2 DEF Offer, OfferDropped
  <2>2. ASSUME NEW x \in Conns,
               \/ ReadRefusedAck(x) \/ ClientDrops(x) \/ WriterStep(x)
               \/ ForwarderPushes(x) \/ ForwarderEnds(x)
        PROVE  Same
    BY <2>2 DEF ReadRefusedAck, ClientDrops, WriterStep, WriterWrites, WriterLoses,
                ForwarderPushes, ForwarderEnds
  <2>3. ASSUME NEW x \in Conns, x # c, ForwarderTakes(x)
        PROVE  Same
    BY <1>1, <2>3 DEF ForwarderTakes, Receive
  <2>4. CASE UNCHANGED vars
    BY <2>4 DEF vars
  <2> QED
    BY <1>2, <2>1, <2>2, <2>3, <2>4 DEF StillStep, ForwarderStep
<1>3. ASSUME NEW p \in Callers, OwnStep(p)
      PROVE  Same \/ (p = c /\ (OpenStream(c) \/ CancelStream(c)))
  <2>1. CASE SendStep(p)
    BY <2>1 DEF SendStep, StoreItem, Store, SendReturned, Return, OfferPanics, FanOutPanic
  <2>2. CASE p \in Requests /\ HttpSend(p)
    BY <2>2 DEF HttpSend
  <2>3. CASE p \in Conns /\ ConnStep(p)
    <3>1. CASE \/ Bind(p) \/ ListMailbox(p) \/ StartPumps(p) \/ Push(p) \/ ReadSend(p)
               \/ TrackPendingAck(p) \/ ReadAck(p) \/ LookupPending(p) \/ ForwardAck(p)
               \/ ClearPending(p) \/ ReadOther(p) \/ ReadFails(p) \/ Unbind(p)
      BY <3>1 DEF Bind, ListMailbox, StartPumps, Push, ReadSend, TrackPendingAck, ReadAck,
                  Acknowledge, LookupPending, ForwardAck, ClearPending, ReadOther, ReadFails, Unbind
    <3>2. CASE p # c /\ OpenStream(p)
      <4>1. subscriber' = [x \in DOMAIN subscriber \cup {p} |->
                             IF x = p
                             THEN [user |-> UserOf(p), device |-> DeviceOf(p), open |-> TRUE, buf |-> <<>>]
                             ELSE subscriber[x]]
        BY <3>2 DEF OpenStream, Subscribe
      <4>2. CASE c \in DOMAIN subscriber
        BY <3>2, <4>1, <4>2
      <4>3. CASE c \notin DOMAIN subscriber
        <5>1. c \notin DOMAIN subscriber'
          BY <3>2, <4>1, <4>3
        <5> QED
          BY <4>3, <5>1
      <4> QED
        BY <4>2, <4>3
    <3>3. CASE p # c /\ CancelStream(p)
      BY <1>1, <3>3 DEF CancelStream, Cancel
    <3> QED
      BY <2>3, <3>1, <3>2, <3>3 DEF ConnStep
  <2> QED
    BY <1>3, <2>1, <2>2, <2>3 DEF OwnStep
<1> QED
  BY <1>2, <1>3, StepKinds

\* A handler writes its greeting or its one answer before it goes on.
LEMMA OutboxesStep ==
    ASSUME ServiceTypeOK, Typed, Outboxes, [Next]_vars
    PROVE  Outboxes'
<1> Conns \subseteq Callers
  BY RelayAssumption
<1> SUFFICES ASSUME NEW c \in Conns
             PROVE  /\ pc'[c] \notin {"greet", "reply"} => outbox'[c] = <<>>
                    /\ pc'[c] = "reply" => \E e \in EventType :
                                              outbox'[c] = <<e>> /\ e.kind \in {"ack", "reply"}
  BY DEF Outboxes
<1>1. /\ pc = [q \in Callers |-> pc[q]] /\ outbox = [x \in Conns |-> outbox[x]]
      /\ pc[c] \notin {"greet", "reply"} => outbox[c] = <<>>
      /\ pc[c] = "reply" => \E e \in EventType :
                               outbox[c] = <<e>> /\ e.kind \in {"ack", "reply"}
  BY DEF Typed, RelayTypeOK, Outboxes
<1> USE DEF Go
<1>2. CASE pc'[c] = pc[c] /\ outbox'[c] = outbox[c]
  BY <1>1, <1>2
<1>3. CASE SendStep(c)
  BY <1>1, <1>3 DEF SendStep, StoreItem, SendReturned, OfferPanics
<1>4. CASE Push(c)
  <2>1. CASE pc[c] = "greet"
    BY <1>1, <1>4, <2>1 DEF Push
  <2>2. CASE pc[c] = "reply"
    <3>1. PICK e \in EventType : outbox[c] = <<e>>
      BY <1>1, <2>2
    <3>2. Tail(outbox[c]) = <<>>
      BY <3>1
    <3>3. outbox'[c] = <<>> /\ pc'[c] = "loop"
      BY <1>1, <1>4, <2>2, <3>2 DEF Push
    <3> QED
      BY <3>3
  <2> QED
    BY <1>4, <2>1, <2>2 DEF Push
<1>5. CASE TrackPendingAck(c)
  <2> DEFINE m == [item[c] EXCEPT !.status = "accepted"]
  <2>1. m \in Message
    BY <1>5 DEF TrackPendingAck, Typed, Jobs, Message, Statuses
  <2>2. About("ack", m) \in EventType /\ About("ack", m).kind = "ack"
    BY <2>1, EventTypes DEF About
  <2>3. outbox'[c] = <<About("ack", m)>> /\ pc'[c] = "reply"
    BY <1>1, <1>5 DEF TrackPendingAck, Answer
  <2> HIDE DEF m
  <2> QED
    BY <2>2, <2>3
<1>6. CASE ReadOther(c)
  <2>1. Plain("reply") \in EventType /\ Plain("reply").kind = "reply"
    BY EventTypes DEF Plain
  <2>2. outbox'[c] = <<Plain("reply")>> /\ pc'[c] = "reply"
    BY <1>1, <1>6 DEF ReadOther
  <2> QED
    BY <2>1, <2>2
<1>7. CASE ListMailbox(c)
  BY <1>1, <1>7 DEF ListMailbox
<1>8. CASE StartPumps(c)
  BY <1>1, <1>8 DEF StartPumps, Greeted
<1>9. CASE \/ Bind(c) \/ OpenStream(c) \/ ReadSend(c) \/ ReadAck(c) \/ LookupPending(c)
           \/ ForwardAck(c) \/ ClearPending(c) \/ ReadFails(c) \/ Unbind(c) \/ CancelStream(c)
  BY <1>1, <1>9 DEF Bind, OpenStream, ReadSend, ReadAck, LookupPending, ForwardAck, ClearPending,
                    ReadFails, Unbind, CancelStream
<1>10. ~(c \in Requests /\ HttpSend(c))
  BY DEF Requests
<1>11. CASE OwnStep(c)
  BY <1>3, <1>4, <1>5, <1>6, <1>7, <1>8, <1>9, <1>10, <1>11 DEF OwnStep, ConnStep
<1> QED
  BY <1>2, <1>11, OwnSteps

\* The first steps of a connection, in order, and the last.
LEMMA EarlySteps ==
    ASSUME ServiceTypeOK, Typed, [Next]_vars, NEW c \in Conns
    PROVE  /\ pc'[c] = "new" => pc[c] = "new"
           /\ pc'[c] = "subscribe" => pc[c] \in {"new", "subscribe"}
           /\ pc'[c] = "list" => pc[c] = "list" \/ (OpenStream(c) /\ pc[c] = "subscribe")
           /\ pc'[c] = "greet" => pc[c] = "greet" \/ (ListMailbox(c) /\ pc[c] = "list")
           /\ pc'[c] \notin {"new", "subscribe", "list", "greet", "done"}
                 => pc[c] \notin {"new", "subscribe", "list", "done"}
           /\ pc'[c] \notin {"new", "subscribe", "list", "greet"}
                 => pc[c] \notin {"new", "subscribe", "list"}
           /\ pc[c] \in {"unbind", "cancel", "done"} => pc'[c] \in {"unbind", "cancel", "done"}
           /\ CancelStream(c) => pc'[c] = "done"
<1> c \in Callers
  BY RelayAssumption
<1>1. pc = [q \in Callers |-> pc[q]]
  BY DEF Typed, RelayTypeOK
<1> USE DEF Go
<1>2. CancelStream(c) => pc'[c] = "done"
  BY <1>1 DEF CancelStream
<1>3. CASE pc'[c] = pc[c]
  BY <1>2, <1>3
<1>4. CASE SendStep(c)
  BY <1>1, <1>2, <1>4 DEF SendStep, StoreItem, SendReturned, OfferPanics
<1>5. CASE Push(c)
  BY <1>1, <1>2, <1>5 DEF Push
<1>6. CASE ForwardAck(c)
  BY <1>1, <1>2, <1>6 DEF ForwardAck
<1>7. CASE Bind(c) \/ OpenStream(c) \/ ListMailbox(c) \/ StartPumps(c)
  BY <1>1, <1>2, <1>7 DEF Bind, OpenStream, ListMailbox, StartPumps
<1>8. CASE \/ ReadSend(c) \/ TrackPendingAck(c) \/ ReadAck(c) \/ ClearPending(c) \/ ReadOther(c)
           \/ LookupPending(c) \/ ReadFails(c) \/ Unbind(c) \/ CancelStream(c)
  BY <1>1, <1>2, <1>8 DEF ReadSend, TrackPendingAck, ReadAck, ClearPending, ReadOther,
                          LookupPending, ReadFails, Unbind, CancelStream
<1>9. ~(c \in Requests /\ HttpSend(c))
  BY DEF Requests
<1>10. CASE OwnStep(c)
  BY <1>4, <1>5, <1>6, <1>7, <1>8, <1>9, <1>10 DEF OwnStep, ConnStep
<1> QED
  BY <1>3, <1>10, OwnSteps

\* Nothing goes out before the greeting, and the forwarder takes one message at a time.
LEMMA NothingEarlyStep ==
    ASSUME ServiceTypeOK, Typed, Tracking, Shape, [Next]_vars
    PROVE  NothingEarly'
<1> SUFFICES ASSUME NEW c \in Conns
             PROVE  /\ pc'[c] \in {"new", "subscribe", "list"} => wire'[c] = <<>> /\ sendQ'[c] = <<>>
                    /\ ~Started(c)' => forwarder'[c] = "off" /\ hand'[c] = <<>>
                    /\ hand'[c] = <<>> \/ \E m \in Message : hand'[c] = <<m>>
  BY DEF NothingEarly
<1> c \in Callers
  BY RelayAssumption
<1>1. /\ pc = [q \in Callers |-> pc[q]]
      /\ hand = [x \in Conns |-> hand[x]] /\ forwarder = [x \in Conns |-> forwarder[x]]
      /\ pc[c] \in {"new", "subscribe", "list"} => wire[c] = <<>> /\ sendQ[c] = <<>>
      /\ ~Started(c) => forwarder[c] = "off" /\ hand[c] = <<>>
      /\ hand[c] = <<>> \/ \E m \in Message : hand[c] = <<m>>
  BY DEF Shape, NothingEarly, Typed, RelayTypeOK
<1>2. ASSUME pc'[c] \in {"new", "subscribe", "list"} PROVE wire'[c] = <<>> /\ sendQ'[c] = <<>>
  <2>1. pc[c] \in {"new", "subscribe", "list"} /\ ~Started(c)
    BY <1>2, EarlySteps DEF Started
  <2>2. wire[c] = <<>> /\ sendQ[c] = <<>> /\ hand[c] = <<>>
    BY <1>1, <2>1
  <2>3. ~(ListMailbox(c) \/ Push(c) \/ TrackPendingAck(c) \/ ReadOther(c))
    BY <1>1, <1>2, <2>1 DEF ListMailbox, Push, TrackPendingAck, ReadOther, Go, Reads
  <2>4. ~(ForwarderPushes(c) \/ WriterWrites(c) \/ WriterLoses(c))
    BY <2>2 DEF ForwarderPushes, WriterWrites, WriterLoses, Writes
  <2>5. ASSUME NEW a \in Conns, ForwardAck(a), waiter[a] = c PROVE FALSE
    BY <2>1, <2>5 DEF ForwardAck, Go, Tracking, WaitersKnown, Waiting
  <2> QED
    BY <2>2, <2>3, <2>4, <2>5, EventSteps
<1>3. ASSUME ~Started(c)' PROVE forwarder'[c] = "off" /\ hand'[c] = <<>>
  <2>1. ~Started(c) /\ forwarder[c] = "off" /\ hand[c] = <<>>
    BY <1>1, <1>3, StartedKept
  <2>2. ~StartPumps(c)
    BY <1>1, <1>3 DEF StartPumps, Go, Started
  <2>3. ~ForwarderStep(c)
    BY <2>1 DEF ForwarderStep, ForwarderTakes, ForwarderPushes, ForwarderEnds
  <2> QED
    BY <2>1, <2>2, <2>3, HandSteps
<1>4. hand'[c] = <<>> \/ \E m \in Message : hand'[c] = <<m>>
  <2>1. CASE StartPumps(c) \/ ForwarderEnds(c)
    BY <1>1, <2>1 DEF StartPumps, ForwarderEnds
  <2>2. CASE ForwarderPushes(c)
    BY <1>1, <2>2 DEF ForwarderPushes
  <2>3. CASE ForwarderTakes(c)
    <3>1. subscriber[c].buf \in Seq(Message) /\ subscriber[c].buf # <<>>
      BY <2>3 DEF ForwarderTakes, Receive, ServiceTypeOK
    <3>2. Head(subscriber[c].buf) \in Message
      BY <3>1
    <3>3. hand'[c] = <<Head(subscriber[c].buf)>> \/ hand'[c] = <<>>
      BY <1>1, <2>3 DEF ForwarderTakes
    <3> QED
      BY <3>2, <3>3
  <2> QED
    BY <1>1, <2>1, <2>2, <2>3, HandSteps DEF ForwarderStep
<1> QED
  BY <1>2, <1>3, <1>4

\* The stream of a connection is its own, and open, until its handler cancels it.
LEMMA OwnStreamStep ==
    ASSUME ServiceTypeOK, Typed, OwnStream, [Next]_vars
    PROVE  OwnStream'
<1> SUFFICES ASSUME NEW c \in Conns, pc'[c] \notin {"new", "subscribe", "done"}
             PROVE  /\ c \in DOMAIN subscriber'
                    /\ subscriber'[c].user = UserOf(c)'
                    /\ subscriber'[c].device = DeviceOf(c)'
                    /\ subscriber'[c].open
  BY DEF OwnStream
<1>1. UserOf(c)' = UserOf(c) /\ DeviceOf(c)' = DeviceOf(c)
  BY OwnSteps DEF UserOf, DeviceOf
<1>2. ASSUME OpenStream(c)
      PROVE  /\ c \in DOMAIN subscriber'
             /\ subscriber'[c] = [user |-> UserOf(c), device |-> DeviceOf(c), open |-> TRUE,
                                  buf |-> <<>>]
  BY <1>2 DEF OpenStream, Subscribe
<1>3. CASE OpenStream(c)
  BY <1>1, <1>2, <1>3
<1>4. CASE ~OpenStream(c)
  <2>1. /\ c \in DOMAIN subscriber
        /\ subscriber[c].user = UserOf(c) /\ subscriber[c].device = DeviceOf(c)
        /\ subscriber[c].open
    <3>1. pc[c] \notin {"new", "subscribe", "done"}
      <4>1. pc'[c] \in {"list", "greet"} => pc[c] \in {"list", "greet"}
        BY <1>4, EarlySteps
      <4> QED
        BY <4>1, EarlySteps
    <3> QED
      BY <3>1 DEF OwnStream
  <2>2. ~CancelStream(c)
    BY EarlySteps
  <2>3. subscriber \in [DOMAIN subscriber -> Subscription]
    BY DEF ServiceTypeOK, Subscription
  <2>4. CASE c \in DOMAIN subscriber' /\ subscriber'[c] = subscriber[c]
    BY <1>1, <2>1, <2>4
  <2>5. CASE ForwarderTakes(c)
    BY <1>1, <2>1, <2>3, <2>5 DEF ForwarderTakes, Receive, Subscription
  <2>6. ASSUME NEW t \in Callers, FanOutDeliver(t, c)
        PROVE  /\ c \in DOMAIN subscriber'
               /\ subscriber'[c].user = UserOf(c)'
               /\ subscriber'[c].device = DeviceOf(c)'
               /\ subscriber'[c].open
    BY <1>1, <2>1, <2>3, <2>6 DEF FanOutDeliver, Subscription
  <2> QED
    BY <1>4, <2>1, <2>2, <2>4, <2>5, <2>6, StreamSteps
<1> QED
  BY <1>3, <1>4

\* The shape holds before anything has happened.
LEMMA ShapeInit == Init => Shape
<1> SUFFICES ASSUME Init PROVE Shape
  OBVIOUS
<1>1. \A c \in Conns : pc[c] = "new" /\ c \in Callers
  BY RelayAssumption DEF Init
<1> QED
  BY <1>1 DEF Init, Shape, Outboxes, NothingEarly, OwnStream, Started

\* Every step keeps the shape.
LEMMA ShapeStep ==
    ASSUME ServiceTypeOK, Typed, Tracking, Shape, [Next]_vars
    PROVE  Shape'
BY OutboxesStep, NothingEarlyStep, OwnStreamStep DEF Shape

\* It holds in every state.
LEMMA ShapeAlways == Spec => [](ServiceGood /\ Typed /\ Tracking /\ Shape)
<1>1. ServiceGood /\ Typed /\ Tracking /\ Shape /\ [Next]_vars => Shape'
  BY ShapeStep DEF ServiceGood
<1> QED
  BY <1>1, ShapeInit, TrackingAlways, ServiceGoodAlways, PTL DEF Spec

-----------------------------------------------------------------------------
(* Acknowledgements. *)

\* What an acknowledgement claims is so.
GoodAck(c, e) ==
    /\ e.id \in Stored
    /\ messageByID[e.id].sender = UserOf(c)
    /\ c \in scenario.authors
    /\ e.device # NoDevice => messageByID[e.id].device = e.device
    /\ e.status \in {"delivered", "read"} => messageByID[e.id].deliveredAt
    /\ e.status = "read" => messageByID[e.id].readAt

AcksGood ==
    \A c \in Conns : \A e \in Listed(Outgoing(c)) : e.kind = "ack" => GoodAck(c, e)

\* It stays so.
LEMMA GoodAckKept ==
    ASSUME ServiceTypeOK, Typed, FreshItems, [Next]_vars, NEW c \in Conns, NEW e, GoodAck(c, e)
    PROVE  GoodAck(c, e)'
<1>1. /\ e.id \in Stored' /\ e.id \in Stored
      /\ messageByID'[e.id].sender = messageByID[e.id].sender
      /\ messageByID[e.id].device # NoDevice
            => messageByID'[e.id].device = messageByID[e.id].device
      /\ messageByID[e.id].deliveredAt => messageByID'[e.id].deliveredAt
      /\ messageByID[e.id].readAt => messageByID'[e.id].readAt
  BY RecordsKept DEF GoodAck
<1>2. scenario' = scenario /\ UserOf(c)' = UserOf(c)
  BY OwnSteps DEF UserOf, DeviceOf
<1> QED
  BY <1>1, <1>2 DEF GoodAck

\* It is so when the acknowledgement is sent.
LEMMA IncomingGood ==
    ASSUME ServiceTypeOK, Typed, Tracking, NEW c \in Conns, NEW e, Incoming(c, e), e.kind = "ack"
    PROVE  GoodAck(c, e)
<1> Conns \subseteq Callers
  BY RelayAssumption
<1>1. CASE TrackPendingAck(c) /\ e = About("ack", [item[c] EXCEPT !.status = "accepted"])
  <2>1. pc[c] = "track" /\ item[c] \in Message
    BY <1>1 DEF TrackPendingAck, Go, Typed, Jobs
  <2>2. e.id = item[c].id /\ e.device = item[c].device /\ e.status = "accepted"
    BY <1>1, <2>1 DEF About, Message
  <2>3. Agrees(item[c]) /\ item[c].sender = UserOf(c) /\ c \in scenario.authors
    BY <2>1 DEF Tracking, ItemsAgree, Idle, SentBySelf, Sending
  <2> QED
    BY <2>2, <2>3 DEF GoodAck, Agrees
<1>2. ASSUME NEW a \in Conns, ForwardAck(a), waiter[a] = c, e = About("ack", item[a])
      PROVE  GoodAck(c, e)
  <2>1. pc[a] = "forward"
    BY <1>2 DEF ForwardAck, Go
  <2>2. e.id = item[a].id /\ e.device = item[a].device /\ e.status = item[a].status
    BY <1>2 DEF About
  <2>3. Agrees(item[a]) /\ Waiting(item[a].id, c)
    BY <1>2, <2>1 DEF Tracking, ItemsAgree, Idle, WaitersKnown
  <2>4. /\ item[a].status \in {"delivered", "read"} => item[a].deliveredAt
        /\ item[a].status = "read" => item[a].readAt
    BY <2>1 DEF Tracking, AckItems, Acking
  <2> QED
    BY <2>2, <2>3, <2>4 DEF GoodAck, Agrees, Waiting
<1>3. CASE ReadOther(c) /\ e = Plain("reply")
  BY <1>3 DEF Plain
<1>4. CASE ForwarderPushes(c) /\ e = About("deliver", hand[c][1])
  BY <1>4 DEF About
<1> QED
  BY <1>1, <1>2, <1>3, <1>4 DEF Incoming

\* The greeting: one event per item of the mailbox, then session.bound.
LEMMA GreetingList ==
    ASSUME ServiceTypeOK, Typed, NEW c \in Conns, ListMailbox(c)
    PROVE  /\ Mailbox(c) \in Seq(Message)
           /\ Greeting(c) \in Seq(EventType)
           /\ Len(Greeting(c)) = Len(Mailbox(c)) + 1
           /\ \A i \in 1..Len(Mailbox(c)) : Greeting(c)[i] = About("mailbox", Mailbox(c)[i])
           /\ Greeting(c)[Len(Mailbox(c)) + 1] = Plain("bound")
<1> DEFINE box == Mailbox(c)
           shown == [i \in DOMAIN box |-> About("mailbox", box[i])]
<1>1. c \in DOMAIN scenario.device /\ scenario \in Scenarios
  BY DEF ListMailbox, Go, Typed, RelayTypeOK, Jobs
<1>2. box \in Seq(Message)
  BY <1>1, Bindable, MailboxType DEF Mailbox
<1>3. Greeting(c) = Append(shown, Plain("bound"))
  BY DEF Greeting
<1> HIDE DEF box
<1>4. Len(box) \in Nat /\ DOMAIN box = 1..Len(box)
  BY <1>2
<1>5. \A i \in 1..Len(box) : About("mailbox", box[i]) \in EventType
  BY <1>2, <1>4, EventTypes
<1>6. shown \in Seq(EventType) /\ Len(shown) = Len(box)
      /\ \A i \in 1..Len(box) : shown[i] = About("mailbox", box[i])
  <2>1. [i \in 1..Len(box) |-> About("mailbox", box[i])] \in Seq(EventType)
    BY <1>4, <1>5, IsASeq
  <2>2. shown \in Seq(EventType) /\ DOMAIN shown = 1..Len(box)
    BY <1>4, <2>1
  <2> QED
    BY <1>4, <2>2
<1> HIDE DEF shown
<1>7. Plain("bound") \in EventType
  BY EventTypes
<1>8. /\ Append(shown, Plain("bound")) \in Seq(EventType)
      /\ Len(Append(shown, Plain("bound"))) = Len(box) + 1
      /\ \A i \in 1..Len(box) : Append(shown, Plain("bound"))[i] = About("mailbox", box[i])
      /\ Append(shown, Plain("bound"))[Len(box) + 1] = Plain("bound")
  BY <1>4, <1>6, <1>7
<1> QED
  BY <1>2, <1>3, <1>8 DEF box

\* The greeting holds no acknowledgement.
LEMMA GreetingKinds ==
    ASSUME ServiceTypeOK, Typed, NEW c \in Conns, ListMailbox(c)
    PROVE  \A e \in Listed(Greeting(c)) : e.kind \in {"mailbox", "bound"}
<1>1. /\ Mailbox(c) \in Seq(Message) /\ Greeting(c) \in Seq(EventType)
      /\ Len(Greeting(c)) = Len(Mailbox(c)) + 1
  BY GreetingList
<1>2. Len(Mailbox(c)) \in Nat /\ DOMAIN Greeting(c) = 1..(Len(Mailbox(c)) + 1)
  BY <1>1
<1>3. \A i \in 1..Len(Mailbox(c)) : Greeting(c)[i].kind = "mailbox"
  <2>1. \A m : About("mailbox", m).kind = "mailbox"
    BY DEF About
  <2>2. \A i \in 1..Len(Mailbox(c)) : Greeting(c)[i] = About("mailbox", Mailbox(c)[i])
    BY GreetingList
  <2> QED
    BY <2>1, <2>2
<1>4. Greeting(c)[Len(Mailbox(c)) + 1].kind = "bound"
  BY GreetingList DEF Plain
<1> QED
  BY <1>2, <1>3, <1>4 DEF Listed

\* Every step keeps the acknowledgements on their way truthful.
LEMMA AcksGoodStep ==
    ASSUME ServiceTypeOK, Typed, Tracking, Shape, AcksGood, [Next]_vars
    PROVE  AcksGood'
<1> SUFFICES ASSUME NEW c \in Conns, NEW e \in Listed(Outgoing(c)'), e.kind = "ack"
             PROVE  GoodAck(c, e)'
  BY DEF AcksGood
<1>1. CASE e \in Listed(Outgoing(c))
  BY <1>1, GoodAckKept DEF AcksGood, Tracking
<1>2. CASE Incoming(c, e)
  BY <1>2, IncomingGood, GoodAckKept DEF Tracking
<1>3. CASE Outgoing(c)' = Outgoing(c)
  BY <1>1, <1>3
<1>4. CASE \E x \in EventType :
              /\ Incoming(c, x)
              /\ Inserted(Outgoing(c), Len(wire[c] \o sendQ[c]) + 1, x, Outgoing(c)')
  <2>1. PICK x \in EventType :
           /\ Incoming(c, x)
           /\ Inserted(Outgoing(c), Len(wire[c] \o sendQ[c]) + 1, x, Outgoing(c)')
    BY <1>4
  <2>2. Listed(Outgoing(c)') = Listed(Outgoing(c)) \cup {x}
    BY <2>1, OutgoingListed
  <2>3. e \in Listed(Outgoing(c)) \/ e = x
    BY <2>2
  <2> QED
    BY <1>1, <1>2, <2>1, <2>3
<1>5. CASE \E k, x : Inserted(Outgoing(c)', k, x, Outgoing(c))
  <2>1. PICK k, x : Inserted(Outgoing(c)', k, x, Outgoing(c))
    BY <1>5
  <2>2. Listed(Outgoing(c)) = Listed(Outgoing(c)') \cup {x}
    BY <2>1, OutgoingListed
  <2> QED
    BY <1>1, <2>2
<1>6. CASE ListMailbox(c) /\ Outgoing(c)' = Greeting(c)
  BY <1>6, GreetingKinds
<1> QED
  BY <1>3, <1>4, <1>5, <1>6, OutgoingStep

\* They are truthful in every state.
LEMMA AcksGoodAlways == Spec => []AcksGood
<1>1. Init => AcksGood
  <2> SUFFICES ASSUME Init, NEW c \in Conns PROVE Listed(Outgoing(c)) = {}
    BY DEF AcksGood
  <2>1. wire[c] = <<>> /\ sendQ[c] = <<>> /\ outbox[c] = <<>>
    BY DEF Init
  <2> QED
    BY <2>1 DEF Outgoing, Listed
<1>2. /\ ServiceGood /\ Typed /\ Tracking /\ Shape /\ AcksGood
      /\ [Next]_vars
      => AcksGood'
  BY AcksGoodStep DEF ServiceGood
<1> QED
  BY <1>1, <1>2, ShapeAlways, PTL DEF Spec

\* All acknowledgements of a message name one device: whatever device a sender was
\* told, when it was accepted or when it was delivered, is the one the store has.
THEOREM AckDevices == Spec => []AcksNameOneDevice
<1>1. AcksGood => AcksNameOneDevice
  <2> SUFFICES ASSUME AcksGood, NEW c \in Conns, NEW i \in DOMAIN Outgoing(c),
                      NEW j \in DOMAIN Outgoing(c),
                      Outgoing(c)[i].kind = "ack", Outgoing(c)[j].kind = "ack",
                      Outgoing(c)[i].id = Outgoing(c)[j].id,
                      NoDevice \notin {Outgoing(c)[i].device, Outgoing(c)[j].device}
               PROVE  Outgoing(c)[i].device = Outgoing(c)[j].device
    BY DEF AcksNameOneDevice
  <2>1. GoodAck(c, Outgoing(c)[i]) /\ GoodAck(c, Outgoing(c)[j])
    BY DEF AcksGood, Listed
  <2> QED
    BY <2>1 DEF GoodAck
<1> QED
  BY <1>1, AcksGoodAlways, PTL

\* The clients of the code acknowledge that they received or read a message, and
\* nothing else (app_controller.dart:493, 565), though the server takes any status.
Honest == AckStatuses \subseteq {"delivered", "read"}

Acceptances(id) == {e \in EventType : Accepts(e, id)}

\* The sender waits for news of an accepted message or has it, and nobody is still
\* sending it.
AcceptedGood(c, id) ==
    /\ id \in Stored
    /\ pendingAck[id] = c \/ messageByID[id].readAt
    /\ \A p \in Callers : Sending(p) => item[p].id # id

Acceptance ==
    \A c \in Conns, id \in MessageIDs :
       /\ AtMostOne(Outgoing(c), Acceptances(id))
       /\ Listed(Outgoing(c)) \cap Acceptances(id) # {} => AcceptedGood(c, id)

\* Until the recipient read the message no step makes the hub forget who waits.
LEMMA AcceptedGoodKept ==
    ASSUME Honest, ServiceTypeOK, Typed, Tracking, [Next]_vars,
           NEW c \in Conns, NEW id \in MessageIDs, AcceptedGood(c, id)
    PROVE  AcceptedGood(c, id)'
<1> Conns \subseteq Callers
  BY RelayAssumption
<1>1. id \in Stored' /\ (messageByID[id].readAt => messageByID'[id].readAt)
  BY RecordsKept DEF AcceptedGood, Tracking
<1>2. pendingAck \in [MessageIDs -> Conns \cup {None}]
  BY DEF Typed, RelayTypeOK
<1>3. ASSUME NEW x \in Conns, TrackPendingAck(x) PROVE pendingAck'[id] = pendingAck[id]
  <2>1. pc[x] = "track" /\ pendingAck' = [pendingAck EXCEPT ![item[x].id] = x]
    BY <1>3 DEF TrackPendingAck, Go
  <2>2. item[x].id # id
    BY <2>1 DEF AcceptedGood, Sending
  <2> QED
    BY <1>2, <2>1, <2>2
<1>4. ASSUME NEW x \in Conns, ClearPending(x)
      PROVE  pendingAck'[id] = pendingAck[id] \/ messageByID[id].readAt
  <2>1. pc[x] = "clear" /\ pendingAck' = [pendingAck EXCEPT ![item[x].id] = None]
    BY <1>4 DEF ClearPending, Go
  <2>2. item[x].readAt /\ Agrees(item[x])
    <3>1. /\ item[x].status \in AckStatuses /\ Final(item[x])
          /\ item[x].status = "read" => item[x].readAt
      BY <2>1 DEF Tracking, AckItems, Acking
    <3>2. Agrees(item[x])
      BY <2>1 DEF Tracking, ItemsAgree, Idle
    <3> QED
      BY <3>1, <3>2 DEF Honest, Final
  <2>3. CASE item[x].id = id
    BY <2>2, <2>3 DEF Agrees
  <2>4. CASE item[x].id # id
    BY <1>2, <2>1, <2>4
  <2> QED
    BY <2>3, <2>4
<1>5. pendingAck'[id] = c \/ messageByID'[id].readAt
  BY <1>1, <1>3, <1>4, PendingSteps DEF AcceptedGood
<1>6. ASSUME NEW p \in Callers, Sending(p)' PROVE item'[p].id # id
  <2>1. CASE Sending(p) /\ item'[p] = item[p]
    BY <2>1 DEF AcceptedGood
  <2>2. CASE Routing(p)
    <3>1. PICK m \in NewItems : item' = [item EXCEPT ![p] = m] /\ m.id \notin Stored
      BY <2>2 DEF Routing
    <3>2. item'[p] = m
      BY <3>1 DEF Typed, RelayTypeOK
    <3> QED
      BY <3>1, <3>2 DEF AcceptedGood
  <2> QED
    BY <1>6, <2>1, <2>2, SendingSteps
<1> QED
  BY <1>1, <1>5, <1>6 DEF AcceptedGood, Sending

\* An acceptance is sent by the handler that stored the message, once it is done.
LEMMA IncomingAcceptance ==
    ASSUME Honest, ServiceTypeOK, Typed, Tracking, [Next]_vars,
           NEW c \in Conns, NEW id \in MessageIDs, NEW e, Incoming(c, e), Accepts(e, id)
    PROVE  /\ ~AcceptedGood(c, id)
           /\ AcceptedGood(c, id)'
<1> Conns \subseteq Callers
  BY RelayAssumption
<1>1. TrackPendingAck(c) /\ e = About("ack", [item[c] EXCEPT !.status = "accepted"])
  <2>1. ASSUME NEW a \in Conns, ForwardAck(a), e = About("ack", item[a]) PROVE FALSE
    <3>1. item[a].status \in AckStatuses
      BY <2>1 DEF ForwardAck, Go, Tracking, AckItems, Acking
    <3>2. item[a].status = "accepted"
      BY <2>1 DEF Accepts, About
    <3> QED
      BY <3>1, <3>2 DEF Honest
  <2>2. e # Plain("reply") /\ \A m : e # About("deliver", m)
    BY DEF Accepts, Plain, About
  <2> QED
    BY <2>1, <2>2 DEF Incoming
<1>2. /\ pc[c] = "track" /\ pc' = [pc EXCEPT ![c] = "reply"]
      /\ pendingAck' = [pendingAck EXCEPT ![item[c].id] = c]
      /\ item[c] \in Message
      /\ UNCHANGED storeVars
  BY <1>1 DEF TrackPendingAck, Go, Typed, Jobs, serviceVars
<1>3. item[c].id = id
  BY <1>1, <1>2 DEF Accepts, About, Message
<1>4. Agrees(item[c]) /\ Sending(c)
  BY <1>2 DEF Tracking, ItemsAgree, Idle, Sending
<1>5. id \in Stored' /\ pendingAck'[id] = c /\ ~(Sending(c)')
  BY <1>2, <1>3, <1>4 DEF Agrees, Stored, storeVars, Typed, RelayTypeOK, Sending
<1>6. ASSUME NEW p \in Callers, Sending(p)' PROVE item'[p].id # id
  <2>1. CASE Sending(p) /\ item'[p] = item[p]
    BY <1>3, <1>4, <1>5, <1>6, <2>1 DEF Tracking, FreshItems
  <2>2. CASE Routing(p)
    <3>1. PICK m \in NewItems : item' = [item EXCEPT ![p] = m] /\ m.id \notin Stored
      BY <2>2 DEF Routing
    <3>2. item'[p] = m
      BY <3>1 DEF Typed, RelayTypeOK
    <3> QED
      BY <1>3, <1>4, <3>1, <3>2 DEF Agrees
  <2> QED
    BY <1>6, <2>1, <2>2, SendingSteps
<1> QED
  BY <1>3, <1>4, <1>5, <1>6 DEF AcceptedGood, Sending

\* Each message is accepted once, and its sender waits for news of it from then on.
LEMMA AcceptanceStep ==
    ASSUME Honest, ServiceTypeOK, Typed, Tracking, Shape, Acceptance, [Next]_vars
    PROVE  Acceptance'
<1> SUFFICES ASSUME NEW c \in Conns, NEW id \in MessageIDs
             PROVE  /\ AtMostOne(Outgoing(c)', Acceptances(id))
                    /\ Listed(Outgoing(c)') \cap Acceptances(id) # {} => AcceptedGood(c, id)'
  BY DEF Acceptance, Acceptances
<1> DEFINE q == Outgoing(c)  r == Outgoing(c)'  A == Acceptances(id)
<1>1. q \in Seq(EventType) /\ r \in Seq(EventType)
  BY OutgoingTypes
<1>2. AtMostOne(q, A) /\ (Listed(q) \cap A # {} => AcceptedGood(c, id))
  BY DEF Acceptance
<1>3. AcceptedGood(c, id) => AcceptedGood(c, id)'
  BY AcceptedGoodKept
<1>4. CASE r = q
  BY <1>2, <1>3, <1>4
<1>5. ASSUME NEW x \in EventType, NEW k, Incoming(c, x), Inserted(q, k, x, r)
      PROVE  AtMostOne(r, A) /\ (Listed(r) \cap A # {} => AcceptedGood(c, id)')
  <2>1. x \in A => ~AcceptedGood(c, id) /\ AcceptedGood(c, id)'
    BY <1>5, IncomingAcceptance DEF Acceptances
  <2>2. x \in A => Listed(q) \cap A = {}
    BY <1>2, <2>1
  <2>3. Listed(r) = Listed(q) \cup {x}
    BY <1>5, OutgoingListed
  <2> HIDE DEF q, r, A
  <2>4. AtMostOne(r, A)
    BY <1>1, <1>2, <1>5, <2>2, InsertedOne
  <2> QED
    BY <1>2, <1>3, <2>1, <2>3, <2>4
<1>6. ASSUME NEW k, NEW x, Inserted(r, k, x, q)
      PROVE  AtMostOne(r, A) /\ (Listed(r) \cap A # {} => AcceptedGood(c, id)')
  <2>1. Listed(q) = Listed(r) \cup {x}
    BY <1>6, OutgoingListed
  <2> HIDE DEF q, r, A
  <2>2. AtMostOne(r, A)
    BY <1>1, <1>2, <1>6, RemovedOne
  <2> QED
    BY <1>2, <1>3, <2>1, <2>2
<1>7. ASSUME ListMailbox(c), r = Greeting(c)
      PROVE  AtMostOne(r, A) /\ (Listed(r) \cap A # {} => AcceptedGood(c, id)')
  <2>1. \A e \in Listed(r) : e.kind \in {"mailbox", "bound"}
    BY <1>7, GreetingKinds
  <2>2. Listed(r) \cap A = {}
    BY <2>1 DEF Acceptances, Accepts
  <2>3. AtMostOne(r, A)
    BY <2>2 DEF AtMostOne, Listed
  <2> QED
    BY <2>2, <2>3
<1> QED
  BY <1>4, <1>5, <1>6, <1>7, OutgoingStep

\* What is known of acceptances holds in every state, if clients report nothing but
\* deliveries and readings.
LEMMA AcceptanceAlways == Honest => (Spec => []Acceptance)
<1> SUFFICES ASSUME Honest PROVE Spec => []Acceptance
  OBVIOUS
<1>1. Init => Acceptance
  <2> SUFFICES ASSUME Init, NEW c \in Conns, NEW id \in MessageIDs
               PROVE  /\ AtMostOne(Outgoing(c), Acceptances(id))
                      /\ Listed(Outgoing(c)) = {}
    BY DEF Acceptance
  <2>1. wire[c] = <<>> /\ sendQ[c] = <<>> /\ outbox[c] = <<>>
    BY DEF Init
  <2>2. Outgoing(c) = <<>>
    BY <2>1 DEF Outgoing
  <2> QED
    BY <2>2 DEF Listed, AtMostOne
<1>2. /\ ServiceGood /\ Typed /\ Tracking /\ Shape /\ Acceptance
      /\ [Next]_vars
      => Acceptance'
  BY AcceptanceStep DEF ServiceGood
<1> QED
  BY <1>1, <1>2, ShapeAlways, PTL DEF Spec

\* While clients report only "delivered" and "read", the hub waits for news of an
\* accepted message, on behalf of the connection that sent it, until it is read.
THEOREM TrackedUntilRead == Honest => (Spec => []AcceptedIsTracked)
<1> SUFFICES ASSUME Honest PROVE Spec => []AcceptedIsTracked
  OBVIOUS
<1>1. ServiceTypeOK /\ Typed /\ AcksGood /\ Acceptance => AcceptedIsTracked
  <2> SUFFICES ASSUME ServiceTypeOK, Typed, AcksGood, Acceptance,
                      NEW c \in Conns, NEW i \in DOMAIN Outgoing(c),
                      Outgoing(c)[i].kind = "ack", Outgoing(c)[i].status = "accepted"
               PROVE  LET e == Outgoing(c)[i]
                      IN  pendingAck[e.id] = c \/ messageByID[e.id].readAt
    BY DEF AcceptedIsTracked
  <2> DEFINE e == Outgoing(c)[i]
  <2>1. e \in Listed(Outgoing(c)) /\ e \in EventType
    BY OutgoingType DEF Listed
  <2>2. e.id \in Stored /\ e.id \in MessageIDs
    BY <2>1 DEF AcksGood, GoodAck, ServiceTypeOK
  <2>3. e \in Acceptances(e.id)
    BY <2>1 DEF Acceptances, Accepts
  <2>4. AcceptedGood(c, e.id)
    BY <2>1, <2>2, <2>3 DEF Acceptance
  <2> QED
    BY <2>4 DEF AcceptedGood
<1> QED
  BY <1>1, AcceptanceAlways, AcksGoodAlways, TypedAlways, PTL

\* While clients report only "delivered" and "read", every acknowledgement goes to
\* the connection that sent the message, claims only what its recipient reported,
\* and a message is accepted once.
THEOREM TruthfulAcks == Honest => (Spec => []AcksTruthful)
<1> SUFFICES ASSUME Honest PROVE Spec => []AcksTruthful
  OBVIOUS
<1>1. ServiceTypeOK /\ Typed /\ AcksGood /\ Acceptance => AcksTruthful
  <2> SUFFICES ASSUME ServiceTypeOK, Typed, AcksGood, Acceptance,
                      NEW c \in Conns, NEW i \in DOMAIN Outgoing(c), Outgoing(c)[i].kind = "ack"
               PROVE  LET q == Outgoing(c)
                      IN  /\ q[i].id \in Stored
                          /\ messageByID[q[i].id].sender = UserOf(c)
                          /\ c \in scenario.authors
                          /\ q[i].status = "accepted" => \A j \in DOMAIN q : q[j] = q[i] => i = j
                          /\ q[i].status \in {"delivered", "read"} => messageByID[q[i].id].deliveredAt
                          /\ q[i].status = "read" => messageByID[q[i].id].readAt
    BY DEF AcksTruthful
  <2>1. GoodAck(c, Outgoing(c)[i]) /\ Outgoing(c)[i] \in EventType
    BY OutgoingType DEF AcksGood, Listed
  <2>2. ASSUME Outgoing(c)[i].status = "accepted", NEW j \in DOMAIN Outgoing(c),
               Outgoing(c)[j] = Outgoing(c)[i]
        PROVE  i = j
    <3>1. Outgoing(c)[i].id \in MessageIDs
      BY <2>1 DEF GoodAck, ServiceTypeOK
    <3>2. Outgoing(c)[i] \in Acceptances(Outgoing(c)[i].id)
      BY <2>1, <2>2 DEF Acceptances, Accepts
    <3>3. AtMostOne(Outgoing(c), Acceptances(Outgoing(c)[i].id))
      BY <3>1 DEF Acceptance
    <3> QED
      BY <2>2, <3>2, <3>3 DEF AtMostOne
  <2> QED
    BY <2>1, <2>2 DEF GoodAck
<1> QED
  BY <1>1, AcceptanceAlways, AcksGoodAlways, TypedAlways, PTL


-----------------------------------------------------------------------------
(* The greeting comes first. *)

\* A connection that is down stays down.
LEMMA SocketSteps ==
    ASSUME Typed, [Next]_vars, NEW c \in Conns, socket'[c] = "up"
    PROVE  socket[c] = "up"
<1> USE DEF netVars
<1>1. socket = [x \in Conns |-> socket[x]]
  BY DEF Typed, RelayTypeOK
<1>2. CASE socket' = socket
  BY <1>2
<1>3. CASE StillStep
  <2>1. ASSUME NEW p \in Callers, NEW s \in Conns, Offer(p, s) \/ OfferDropped(p, s)
        PROVE  socket' = socket
    BY <2>1 DEF Offer, OfferDropped
  <2>2. ASSUME NEW x \in Conns, ReadRefusedAck(x) \/ ForwarderStep(x) \/ WriterStep(x)
        PROVE  socket' = socket
    BY <2>2 DEF ReadRefusedAck, ForwarderStep, ForwarderTakes, ForwarderPushes, ForwarderEnds,
                WriterStep, WriterWrites, WriterLoses
  <2>3. ASSUME NEW x \in Conns, ClientDrops(x)
        PROVE  socket[c] = "up"
    BY <1>1, <2>3 DEF ClientDrops
  <2>4. CASE UNCHANGED vars
    BY <2>4 DEF vars
  <2> QED
    BY <1>2, <1>3, <2>1, <2>2, <2>3, <2>4 DEF StillStep
<1>4. ASSUME NEW p \in Callers, OwnStep(p)
      PROVE  socket[c] = "up"
  <2>1. CASE SendStep(p)
    BY <1>2, <2>1 DEF SendStep, StoreItem, SendReturned, OfferPanics
  <2>2. CASE p \in Requests /\ HttpSend(p)
    BY <1>2, <2>2 DEF HttpSend
  <2>3. ASSUME p \in Conns, CancelStream(p)
        PROVE  socket[c] = "up"
    BY <1>1, <2>3 DEF CancelStream
  <2>4. CASE p \in Conns /\ ConnStep(p) /\ ~CancelStream(p)
    BY <1>2, <2>4
       DEF ConnStep, Bind, OpenStream, ListMailbox, StartPumps, Push, ReadSend, TrackPendingAck,
           ReadAck, LookupPending, ForwardAck, ClearPending, ReadOther, ReadFails, Unbind
  <2> QED
    BY <1>4, <2>1, <2>2, <2>3, <2>4 DEF OwnStep
<1> QED
  BY <1>3, <1>4, StepKinds

\* List q begins with mailbox items, then session.bound at place b, then neither.
GreetedBy(q, b) ==
    /\ b \in DOMAIN q
    /\ q[b].kind = "bound"
    /\ \A i \in DOMAIN q : (q[i].kind = "bound" => i = b) /\ (i < b <=> q[i].kind = "mailbox")

\* A live event inserted behind the greeting leaves it in front.
LEMMA InsertedBehind ==
    ASSUME NEW S, NEW q \in Seq(S), NEW r \in Seq(S), NEW k, NEW x, Inserted(q, k, x, r),
           NEW b, GreetedBy(q, b), b < k, x.kind \notin {"mailbox", "bound"}
    PROVE  GreetedBy(r, b)
<1>1. /\ Len(q) \in Nat /\ DOMAIN q = 1..Len(q) /\ DOMAIN r = 1..(Len(q) + 1)
      /\ k \in 1..(Len(q) + 1)
      /\ \A i \in 1..(Len(q) + 1) :
            r[i] = IF i < k THEN q[i] ELSE IF i = k THEN x ELSE q[i - 1]
  BY DEF Inserted
<1>2. b \in 1..Len(q) /\ r[b] = q[b] /\ q[b].kind = "bound"
  BY <1>1 DEF GreetedBy
<1>3. ASSUME NEW i \in 1..(Len(q) + 1)
      PROVE  (r[i].kind = "bound" => i = b) /\ (i < b <=> r[i].kind = "mailbox")
  <2>1. CASE i < k
    BY <1>1, <1>2, <2>1 DEF GreetedBy
  <2>2. CASE i = k
    BY <1>1, <1>2, <2>2
  <2>3. CASE i > k
    <3>1. i - 1 \in 1..Len(q) /\ r[i] = q[i - 1] /\ i - 1 # b /\ ~(i - 1 < b) /\ ~(i < b)
      BY <1>1, <1>2, <2>3
    <3>2. r[i].kind # "bound" /\ r[i].kind # "mailbox"
      BY <1>1, <3>1 DEF GreetedBy
    <3> QED
      BY <3>1, <3>2
  <2> QED
    BY <1>1, <2>1, <2>2, <2>3
<1> QED
  BY <1>1, <1>2, <1>3 DEF GreetedBy

\* An event comes to a connection only when its handler has pushed the greeting.
LEMMA IncomingStarted ==
    ASSUME Typed, Tracking, Shape, NEW c \in Conns, NEW e, Incoming(c, e)
    PROVE  Started(c) /\ e.kind \notin {"mailbox", "bound"}
<1>1. CASE TrackPendingAck(c) /\ e = About("ack", [item[c] EXCEPT !.status = "accepted"])
  BY <1>1 DEF TrackPendingAck, Go, Started, About
<1>2. CASE ReadOther(c) /\ e = Plain("reply")
  BY <1>2 DEF ReadOther, Go, Started, Plain
<1>3. CASE ForwarderPushes(c) /\ e = About("deliver", hand[c][1])
  BY <1>3 DEF ForwarderPushes, Shape, NothingEarly, About
<1>4. ASSUME NEW a \in Conns, ForwardAck(a), waiter[a] = c, e = About("ack", item[a])
      PROVE  Started(c) /\ e.kind \notin {"mailbox", "bound"}
  BY <1>4 DEF ForwardAck, Go, Tracking, WaitersKnown, Waiting, About
<1> QED
  BY <1>1, <1>2, <1>3, <1>4 DEF Incoming

\* So session.bound is in the send channel or written by then.
LEMMA BoundIsOut ==
    ASSUME Typed, Shape, NEW c \in Conns, Started(c), NEW b, GreetedBy(Outgoing(c), b)
    PROVE  b < Len(wire[c] \o sendQ[c]) + 1
<1> DEFINE sent == wire[c] \o sendQ[c]
<1>1. sent \in Seq(EventType) /\ Outgoing(c) = sent \o outbox[c]
  BY OutgoingType DEF Outgoing
<1>2. outbox[c] = <<>> \/ \E e \in EventType : outbox[c] = <<e>> /\ e.kind \in {"ack", "reply"}
  BY DEF Shape, Outboxes, Started
<1> HIDE DEF sent
<1>3. ASSUME outbox[c] = <<>>
      PROVE  b < Len(sent) + 1
  <2>1. Outgoing(c) = sent /\ Len(sent) \in Nat /\ DOMAIN sent = 1..Len(sent)
    BY <1>1, <1>3
  <2>2. b \in 1..Len(sent)
    BY <2>1 DEF GreetedBy
  <2> QED
    BY <2>1, <2>2
<1>4. ASSUME NEW e \in EventType, outbox[c] = <<e>>, e.kind \in {"ack", "reply"}
      PROVE  b < Len(sent) + 1
  <2>1. /\ Outgoing(c) = sent \o <<e>> /\ Len(sent) \in Nat
        /\ DOMAIN (sent \o <<e>>) = 1..(Len(sent) + 1)
        /\ (sent \o <<e>>)[Len(sent) + 1] = e
    BY <1>1, <1>4
  <2>2. b \in 1..(Len(sent) + 1) /\ Outgoing(c)[b].kind = "bound"
    BY <2>1 DEF GreetedBy
  <2>3. b # Len(sent) + 1
    BY <1>4, <2>1, <2>2
  <2> QED
    BY <2>1, <2>2, <2>3
<1> QED
  BY <1>2, <1>3, <1>4 DEF sent

\* The greeting itself.
LEMMA GreetingGreets ==
    ASSUME ServiceTypeOK, Typed, NEW c \in Conns, ListMailbox(c)
    PROVE  GreetedBy(Greeting(c), Len(Mailbox(c)) + 1)
<1> DEFINE n == Len(Mailbox(c))
<1>1. n \in Nat /\ DOMAIN Greeting(c) = 1..(n + 1)
  BY GreetingList
<1>2. \A i \in 1..n : Greeting(c)[i].kind = "mailbox"
  <2>1. \A m : About("mailbox", m).kind = "mailbox"
    BY DEF About
  <2>2. \A i \in 1..n : Greeting(c)[i] = About("mailbox", Mailbox(c)[i])
    BY GreetingList
  <2> QED
    BY <2>1, <2>2
<1>3. Greeting(c)[n + 1].kind = "bound"
  BY GreetingList DEF Plain
<1> HIDE DEF n
<1>4. ASSUME NEW i \in 1..(n + 1)
      PROVE  /\ Greeting(c)[i].kind = "bound" => i = n + 1
             /\ i < n + 1 <=> Greeting(c)[i].kind = "mailbox"
  <2>1. CASE i \in 1..n
    <3>1. Greeting(c)[i].kind = "mailbox" /\ i < n + 1
      BY <1>1, <1>2, <2>1
    <3> QED
      BY <3>1
  <2>2. CASE i = n + 1
    <3>1. ~(i < n + 1)
      BY <1>1, <2>2
    <3> QED
      BY <1>3, <2>2, <3>1
  <2> QED
    BY <1>1, <2>1, <2>2
<1>5. GreetedBy(Greeting(c), n + 1)
  BY <1>1, <1>3, <1>4 DEF GreetedBy
<1> QED
  BY <1>5 DEF n

\* A connection that listed its mailbox.
WasGreeted(c) == pc[c] \notin {"new", "subscribe", "list"} /\ socket[c] = "up"

GreetedLists == \A c \in Conns : WasGreeted(c) => \E b : GreetedBy(Outgoing(c), b)

\* Every step keeps the greeting in front.
LEMMA GreetedStep ==
    ASSUME ServiceTypeOK, Typed, Tracking, Shape, GreetedLists, [Next]_vars
    PROVE  GreetedLists'
<1> SUFFICES ASSUME NEW c \in Conns, WasGreeted(c)'
             PROVE  \E b : GreetedBy(Outgoing(c)', b)
  BY DEF GreetedLists, GreetedBy
<1>1. socket[c] = "up" /\ socket'[c] = "up"
  BY SocketSteps DEF WasGreeted
<1>2. CASE ListMailbox(c) /\ Outgoing(c)' = Greeting(c)
  BY <1>2, GreetingGreets
<1>3. CASE ~ListMailbox(c)
  <2>1. WasGreeted(c)
    <3>1. pc'[c] \notin {"new", "subscribe", "list"}
      BY DEF WasGreeted
    <3>2. CASE pc'[c] = "greet"
      BY <1>1, <1>3, <3>2, EarlySteps DEF WasGreeted
    <3>3. CASE pc'[c] # "greet"
      BY <1>1, <3>1, <3>3, EarlySteps DEF WasGreeted
    <3> QED
      BY <3>2, <3>3
  <2>2. PICK b : GreetedBy(Outgoing(c), b)
    BY <2>1 DEF GreetedLists
  <2>3. CASE Outgoing(c)' = Outgoing(c)
    BY <2>2, <2>3
  <2>4. ASSUME NEW e \in EventType, Incoming(c, e),
               Inserted(Outgoing(c), Len(wire[c] \o sendQ[c]) + 1, e, Outgoing(c)')
        PROVE  GreetedBy(Outgoing(c)', b)
    <3>1. Started(c) /\ e.kind \notin {"mailbox", "bound"}
      BY <2>4, IncomingStarted
    <3>2. b < Len(wire[c] \o sendQ[c]) + 1
      BY <2>2, <3>1, BoundIsOut
    <3> DEFINE q == Outgoing(c)  r == Outgoing(c)'  k == Len(wire[c] \o sendQ[c]) + 1
    <3>3. q \in Seq(EventType) /\ r \in Seq(EventType)
      BY OutgoingTypes
    <3>4. Inserted(q, k, e, r) /\ GreetedBy(q, b) /\ b < k
      BY <2>2, <2>4, <3>2
    <3> HIDE DEF q, r, k
    <3>5. GreetedBy(r, b)
      BY <3>1, <3>3, <3>4, InsertedBehind
    <3> QED
      BY <3>5 DEF r
  <2> QED
    BY <1>1, <1>3, <2>2, <2>3, <2>4, OutgoingStep
<1>4. CASE ListMailbox(c)
  <2>1. ~Started(c)
    BY <1>4 DEF ListMailbox, Go, Started
  <2>2. \A e : ~Incoming(c, e)
    BY <2>1, IncomingStarted
  <2> QED
    BY <1>1, <1>2, <1>4, <2>2, OutgoingStep
<1> QED
  BY <1>3, <1>4

\* Mailbox items first, then session.bound, then what is live: nothing overtakes
\* the greeting.
THEOREM GreetingInFront == Spec => []GreetingFirst
<1>1. Init => GreetedLists
  <2> SUFFICES ASSUME Init, NEW c \in Conns PROVE ~WasGreeted(c)
    BY DEF GreetedLists
  <2>1. pc[c] = "new"
    BY RelayAssumption DEF Init
  <2> QED
    BY <2>1 DEF WasGreeted
<1>2. ServiceGood /\ Typed /\ Tracking /\ Shape /\ GreetedLists /\ [Next]_vars => GreetedLists'
  BY GreetedStep DEF ServiceGood
<1>3. GreetedLists => GreetingFirst
  <2> SUFFICES ASSUME GreetedLists, NEW c \in Conns, WasGreeted(c)
               PROVE  LET q == Outgoing(c)
                          bounds == {i \in DOMAIN q : q[i].kind = "bound"}
                      IN  \E b \in bounds :
                             /\ bounds = {b}
                             /\ \A i \in DOMAIN q : i < b <=> q[i].kind = "mailbox"
    BY DEF GreetingFirst, WasGreeted
  <2> DEFINE q == Outgoing(c)
             bounds == {i \in DOMAIN q : q[i].kind = "bound"}
  <2>1. PICK b : GreetedBy(q, b)
    BY DEF GreetedLists
  <2> HIDE DEF q
  <2>2. b \in bounds /\ bounds = {b} /\ \A i \in DOMAIN q : i < b <=> q[i].kind = "mailbox"
    BY <2>1 DEF GreetedBy
  <2>3. \E x \in bounds : bounds = {x} /\ \A i \in DOMAIN q : i < x <=> q[i].kind = "mailbox"
    BY <2>2
  <2> QED
    BY <2>3 DEF q
<1> QED
  BY <1>1, <1>2, <1>3, ShapeAlways, PTL DEF Spec


-----------------------------------------------------------------------------
(* A bound client misses no message. *)

\* What is in a list is its head or in its tail.
LEMMA ListedHeadTail ==
    ASSUME NEW S, NEW q \in Seq(S), q # <<>>
    PROVE  \A x \in Listed(q) : x = Head(q) \/ x \in Listed(Tail(q))
<1>1. /\ Len(q) \in Nat /\ DOMAIN q = 1..Len(q) /\ Head(q) = q[1]
      /\ Tail(q) \in Seq(S) /\ Len(Tail(q)) = Len(q) - 1
      /\ \A i \in 1..(Len(q) - 1) : Tail(q)[i] = q[i + 1]
  OBVIOUS
<1>2. ASSUME NEW i \in 1..Len(q), i # 1
      PROVE  q[i] \in Listed(Tail(q))
  <2>1. i - 1 \in 1..(Len(q) - 1) /\ Tail(q)[i - 1] = q[i] /\ DOMAIN Tail(q) = 1..(Len(q) - 1)
    BY <1>1, <1>2
  <2> QED
    BY <2>1 DEF Listed
<1> QED
  BY <1>1, <1>2 DEF Listed

\* What a full stream lost stays recorded.
LEMMA MissedSteps ==
    ASSUME Typed, [Next]_vars, NEW c \in Conns
    PROVE  /\ missed[c] \subseteq missed'[c]
           /\ \A p \in Callers : OfferDropped(p, c) => item[p].id \in missed'[c]
<1>1. missed = [x \in Conns |-> missed[x]]
  BY DEF Typed, RelayTypeOK
<1>2. ASSUME NEW p \in Callers, NEW s \in Conns, OfferDropped(p, s)
      PROVE  missed[c] \subseteq missed'[c] /\ (s = c => item[p].id \in missed'[c])
  BY <1>1, <1>2 DEF OfferDropped
<1>3. ASSUME missed' # missed
      PROVE  \E p \in Callers, s \in Conns : OfferDropped(p, s)
  <2> USE DEF restVars
  <2>1. ASSUME NEW p \in Callers, NEW s \in Conns
        PROVE  ~Offer(p, s)
    BY <1>3 DEF Offer
  <2>2. ASSUME NEW x \in Conns
        PROVE  ~(ReadRefusedAck(x) \/ ClientDrops(x) \/ ForwarderStep(x) \/ WriterStep(x))
    BY <1>3 DEF ReadRefusedAck, ClientDrops, ForwarderStep, ForwarderTakes, ForwarderPushes,
                ForwarderEnds, WriterStep, WriterWrites, WriterLoses
  <2>3. ~UNCHANGED vars
    BY <1>3 DEF vars
  <2>4. ASSUME NEW p \in Callers, OwnStep(p)
        PROVE  FALSE
    <3>1. CASE SendStep(p)
      BY <1>3, <3>1 DEF SendStep, StoreItem, SendReturned, OfferPanics
    <3>2. CASE p \in Requests /\ HttpSend(p)
      BY <1>3, <3>2 DEF HttpSend
    <3>3. CASE p \in Conns /\ ConnStep(p)
      BY <1>3, <3>3
         DEF ConnStep, Bind, OpenStream, ListMailbox, StartPumps, Push, ReadSend, TrackPendingAck,
             ReadAck, LookupPending, ForwardAck, ClearPending, ReadOther, ReadFails, Unbind,
             CancelStream
    <3> QED
      BY <2>4, <3>1, <3>2, <3>3 DEF OwnStep
  <2> QED
    BY <2>1, <2>2, <2>3, <2>4, StepKinds DEF StillStep
<1> QED
  BY <1>2, <1>3

\* The ways a message is with the client of c, or on its way there.
InHand(c, id) == \E m \in Listed(hand[c]) : m.id = id
InStream(c, id) == \E m \in Listed(subscriber[c].buf) : m.id = id
Offers(c, id) == \E p \in DOMAIN sends : sends[p].msg.id = id /\ c \in sends[p].todo

Reaches(c, id) ==
    id \in Shown(Outgoing(c)) \/ InHand(c, id) \/ InStream(c, id) \/ id \in missed[c] \/ Offers(c, id)

\* A message that is for the device of c.
IsFor(c, id) ==
    /\ messageByID[id].recipient = UserOf(c)
    /\ messageByID[id].device \in {NoDevice, DeviceOf(c)}

NoneMissed == \A c \in Conns : \A id \in Stored : Listening(c) /\ IsFor(c, id) => Reaches(c, id)

\* A client keeps what it was shown while its connection is up.
LEMMA ShownKept ==
    ASSUME ServiceTypeOK, Typed, Tracking, Shape, [Next]_vars, NEW c \in Conns,
           socket'[c] = "up", ~ListMailbox(c)
    PROVE  Shown(Outgoing(c)) \subseteq Shown(Outgoing(c)')
<1>1. socket[c] = "up"
  BY SocketSteps
<1>2. Listed(Outgoing(c)) \subseteq Listed(Outgoing(c)')
  <2>1. ASSUME NEW k, NEW e, Inserted(Outgoing(c), k, e, Outgoing(c)')
        PROVE  Listed(Outgoing(c)) \subseteq Listed(Outgoing(c)')
    BY <2>1, OutgoingListed
  <2> QED
    BY <1>1, <2>1, OutgoingStep
<1> QED
  BY <1>2 DEF Shown

\* What the forwarder pushes the client will be shown.
LEMMA PushedShown ==
    ASSUME ServiceTypeOK, Typed, Shape, [Next]_vars, NEW c \in Conns, ForwarderPushes(c)
    PROVE  /\ \E m \in Message : hand[c] = <<m>>
           /\ hand[c][1].id \in Shown(Outgoing(c)')
<1> DEFINE e == About("deliver", hand[c][1])
<1>1. \E m \in Message : hand[c] = <<m>>
  BY DEF ForwarderPushes, Shape, NothingEarly
<1>2. e \in EventType /\ e.kind = "deliver" /\ e.id = hand[c][1].id
  <2>1. hand[c][1] \in Message
    BY <1>1
  <2>2. e.kind = "deliver" /\ e.id = hand[c][1].id
    BY DEF About
  <2> QED
    BY <2>1, <2>2, EventTypes
<1>3. wire'[c] = wire[c] /\ sendQ'[c] = Append(sendQ[c], e) /\ outbox'[c] = outbox[c]
  BY DEF ForwarderPushes, netVars, Typed, RelayTypeOK
<1> HIDE DEF e
<1>4. Inserted(Outgoing(c), Len(wire[c] \o sendQ[c]) + 1, e, Outgoing(c)')
  BY <1>2, <1>3, QueuedInserted
<1>5. Listed(Outgoing(c)') = Listed(Outgoing(c)) \cup {e}
  BY <1>4, OutgoingListed
<1> QED
  BY <1>1, <1>2, <1>5 DEF Shown

\* What the forwarder holds it keeps until it pushes it.
LEMMA HandKept ==
    ASSUME ServiceTypeOK, Typed, Shape, [Next]_vars, NEW c \in Conns, NEW id, InHand(c, id)
    PROVE  InHand(c, id)' \/ id \in Shown(Outgoing(c)')
<1>1. CASE hand'[c] = hand[c]
  BY <1>1 DEF InHand
<1>2. CASE StartPumps(c) \/ ForwarderEnds(c)
  BY <1>1, <1>2 DEF StartPumps, ForwarderEnds
<1>3. ~ForwarderTakes(c)
  BY DEF InHand, ForwarderTakes, Listed
<1>4. CASE ForwarderPushes(c)
  <2>1. PICK m \in Message : hand[c] = <<m>>
    BY <1>4, PushedShown
  <2>2. hand[c][1].id = id
    BY <2>1 DEF InHand, Listed
  <2> QED
    BY <1>4, <2>2, PushedShown
<1> QED
  BY <1>1, <1>2, <1>3, <1>4, HandSteps DEF ForwarderStep

\* What a stream holds it keeps until the forwarder takes it, and the forwarder
\* takes it to push it: the stream has the device of its connection.
LEMMA StreamKept ==
    ASSUME ServiceTypeOK, StreamsAddressed, Typed, Shape, [Next]_vars, NEW c \in Conns, NEW id,
           Listening(c), Listening(c)', InStream(c, id)
    PROVE  InStream(c, id)' \/ InHand(c, id)'
<1>1. /\ c \in DOMAIN subscriber /\ subscriber[c].device = DeviceOf(c)
      /\ pc[c] \notin {"new", "subscribe", "done"}
  BY DEF Listening, Unbound, Shape, OwnStream
<1>2. subscriber[c].buf \in Seq(Message)
  BY <1>1 DEF ServiceTypeOK
<1>3. CASE subscriber'[c] = subscriber[c]
  BY <1>3 DEF InStream
<1>4. ~OpenStream(c)
  BY <1>1 DEF OpenStream, Go
<1>5. ~CancelStream(c)
  BY EarlySteps DEF Listening, Unbound
<1>6. ASSUME NEW t \in Callers, FanOutDeliver(t, c)
      PROVE  InStream(c, id)'
  <2>1. sends[t].msg \in Message
    BY <1>6 DEF FanOutDeliver, Deliverable, Offering, Running, ServiceTypeOK
  <2>2. subscriber'[c].buf = Append(subscriber[c].buf, sends[t].msg)
    BY <1>1, <1>6 DEF FanOutDeliver, Queued, ServiceTypeOK
  <2>3. Listed(subscriber[c].buf) \subseteq Listed(subscriber'[c].buf)
    BY <1>2, <2>1, <2>2, ListedAppend
  <2> QED
    BY <2>3 DEF InStream
<1>7. CASE ForwarderTakes(c)
  <2> DEFINE q == subscriber[c].buf
  <2>1. q # <<>> /\ subscriber'[c].buf = Tail(q)
    BY <1>1, <1>7 DEF ForwarderTakes, Receive, ServiceTypeOK
  <2>2. PICK m \in Listed(q) : m.id = id
    BY DEF InStream
  <2>3. CASE m \in Listed(Tail(q))
    BY <2>1, <2>2, <2>3 DEF InStream
  <2>4. CASE m = Head(q)
    <3>1. ShouldDeliver(m, DeviceOf(c))
      BY <1>1, <2>2 DEF StreamsAddressed, Listed
    <3>2. hand'[c] = <<m>>
      BY <1>7, <2>4, <3>1 DEF ForwarderTakes, Typed, RelayTypeOK
    <3>3. m \in Listed(hand'[c])
      BY <3>2 DEF Listed
    <3> QED
      BY <2>2, <3>3 DEF InHand
  <2> QED
    BY <1>2, <2>1, <2>2, <2>3, <2>4, ListedHeadTail
<1> QED
  BY <1>1, <1>3, <1>4, <1>5, <1>6, <1>7, StreamSteps

\* A stream that a call of Send has yet to offer a message for its device gets it,
\* or loses it because it is full.
LEMMA OfferKept ==
    ASSUME ServiceTypeOK, Typed, Tracking, Shape, [Next]_vars, NEW c \in Conns, NEW id \in Stored,
           Listening(c), IsFor(c, id), Offers(c, id)
    PROVE  Offers(c, id)' \/ InStream(c, id)' \/ id \in missed'[c]
<1>1. c \in DOMAIN subscriber /\ subscriber[c].device = DeviceOf(c)
  BY DEF Listening, Unbound, Shape, OwnStream
<1>2. PICK p \in DOMAIN sends : sends[p].msg.id = id /\ c \in sends[p].todo
  BY DEF Offers
<1>3. p \in Callers /\ sends[p].msg \in Message
  BY DEF ServiceTypeOK
<1>4. Wanted(p, c)
  <2>1. Agrees(sends[p].msg)
    BY DEF Tracking, SendsAgree
  <2>2. sends[p].msg.device \in {NoDevice, DeviceOf(c)}
    BY <1>2, <2>1 DEF Agrees, IsFor
  <2> QED
    BY <1>1, <2>2 DEF Wanted, ShouldDeliver
<1>5. CASE p \in DOMAIN sends' /\ c \in sends'[p].todo
  <2>1. sends'[p].msg.id = id
    <3>1. CASE p \in DOMAIN sends /\ sends'[p].msg = sends[p].msg
      BY <1>2, <3>1
    <3>2. ~StoreItem(p)
      BY DEF StoreItem, Store
    <3> QED
      BY <1>5, <3>1, <3>2, SendsSteps
  <2> QED
    BY <1>5, <2>1 DEF Offers
<1>6. CASE OfferDropped(p, c)
  <2>1. pc[p] = "fanout" /\ sends[p].msg = item[p]
    BY <1>6 DEF OfferDropped, Tracking, SendsAgree
  <2>2. item[p].id \in missed'[c]
    BY <1>3, <1>6, MissedSteps
  <2> QED
    BY <1>2, <2>1, <2>2
<1>7. CASE Offer(p, c)
  <2>1. FanOutDeliver(p, c)
    BY <1>4, <1>7 DEF Offer, FanOutSkip
  <2>2. subscriber[c].buf \in Seq(Message)
    BY <1>1 DEF ServiceTypeOK
  <2>3. subscriber'[c].buf = Append(subscriber[c].buf, sends[p].msg)
    BY <1>1, <2>1 DEF FanOutDeliver, Queued, ServiceTypeOK
  <2>4. sends[p].msg \in Listed(subscriber'[c].buf)
    BY <1>3, <2>2, <2>3, ListedAppend
  <2> QED
    BY <1>2, <2>4 DEF InStream
<1> QED
  BY <1>2, <1>5, <1>6, <1>7, SendsSteps

\* The greeting shows all that is stored for the device.
LEMMA GreetingShows ==
    ASSUME ServiceTypeOK, IndexesAgree, Typed, NEW c \in Conns, ListMailbox(c),
           NEW id \in Stored, IsFor(c, id)
    PROVE  id \in Shown(Greeting(c))
<1> DEFINE visible == {x \in Stored : ShouldDeliver(messageByID[x], DeviceOf(c))}
           ids == Selected(inboxIDs[UserOf(c)], visible)
<1>1. UserOf(c) \in Users
  BY Bindable DEF ListMailbox, Go, Typed, RelayTypeOK, Jobs
<1>2. ids \in Seq(MessageIDs) /\ Listed(ids) = Listed(inboxIDs[UserOf(c)]) \cap visible
  BY <1>1, SelectedList DEF ServiceTypeOK
<1>3. id \in Listed(ids)
  <2>1. id \in Listed(inboxIDs[UserOf(c)])
    BY DEF IndexesAgree, IsFor
  <2>2. id \in visible
    BY DEF IsFor, ShouldDeliver
  <2> QED
    BY <1>2, <2>1, <2>2
<1>4. Mailbox(c) = [i \in DOMAIN ids |-> messageByID[ids[i]]]
  BY DEF Mailbox, ListInbox
<1> HIDE DEF ids
<1>5. PICK i \in DOMAIN ids : ids[i] = id
  BY <1>3 DEF Listed
<1>6. i \in DOMAIN Mailbox(c) /\ Mailbox(c)[i].id = id
  BY <1>4, <1>5 DEF IndexesAgree
<1>7. Len(Mailbox(c)) \in Nat /\ DOMAIN Mailbox(c) = 1..Len(Mailbox(c))
      /\ DOMAIN Greeting(c) = 1..(Len(Mailbox(c)) + 1)
  BY GreetingList
<1>8. i \in DOMAIN Greeting(c) /\ Greeting(c)[i] = About("mailbox", Mailbox(c)[i])
  BY <1>6, <1>7, GreetingList
<1>9. Greeting(c)[i].kind = "mailbox" /\ Greeting(c)[i].id = id
  BY <1>6, <1>8 DEF About
<1> QED
  BY <1>8, <1>9 DEF Shown, Listed

\* A connection begins to listen by listing its mailbox.
LEMMA ListeningSteps ==
    ASSUME ServiceTypeOK, Typed, [Next]_vars, NEW c \in Conns, Listening(c)', ~ListMailbox(c)
    PROVE  Listening(c)
<1>1. socket[c] = "up"
  BY SocketSteps DEF Listening
<1>2. pc'[c] \notin {"new", "cancel", "done", "subscribe", "list", "unbind"}
  BY DEF Listening, Unbound
<1>3. pc[c] \notin {"cancel", "done", "unbind"}
  BY <1>2, EarlySteps
<1>4. pc[c] \notin {"new", "subscribe", "list"}
  <2>1. CASE pc'[c] = "greet"
    BY <2>1, EarlySteps
  <2>2. CASE pc'[c] # "greet"
    BY <1>2, <2>2, EarlySteps
  <2> QED
    BY <2>1, <2>2
<1> QED
  BY <1>1, <1>3, <1>4 DEF Listening, Unbound

\* A message is stored for all streams of its recipient.
LEMMA StoredOffered ==
    ASSUME ServiceTypeOK, SubscriptionsAgree, Typed, Tracking, Shape, NEW c \in Conns,
           Listening(c), NEW p \in Callers, StoreItem(p), item[p].recipient = UserOf(c),
           NEW id, id = item[p].id
    PROVE  Offers(c, id)'
<1>1. /\ c \in DOMAIN subscriber /\ subscriber[c].user = UserOf(c) /\ subscriber[c].open
  BY DEF Listening, Unbound, Shape, OwnStream
<1>2. item[p] \in Message /\ Store(p, item[p])
  BY StoreItemEffect
<1>3. item[p].recipient \in Users
  BY <1>2 DEF Message
<1>4. c \in subscribersByUser[item[p].recipient]
  BY <1>1, <1>3 DEF SubscriptionsAgree
<1>5. p \in DOMAIN sends' /\ sends'[p].msg = item[p]
      /\ sends'[p].todo = subscribersByUser[item[p].recipient]
  BY <1>2 DEF Store
<1> QED
  BY <1>4, <1>5 DEF Offers

\* Every step keeps every message with its client or on its way.
LEMMA NoneMissedStep ==
    ASSUME ServiceGood, Typed, Tracking, Shape, NoneMissed, [Next]_vars
    PROVE  NoneMissed'
<1> SUFFICES ASSUME NEW c \in Conns, NEW id \in Stored', Listening(c)', IsFor(c, id)'
             PROVE  Reaches(c, id)'
  BY DEF NoneMissed
<1> USE DEF ServiceGood
<1>1. UserOf(c)' = UserOf(c) /\ DeviceOf(c)' = DeviceOf(c)
  BY OwnSteps DEF UserOf, DeviceOf
<1>2. id \in Stored => IsFor(c, id)
  <2> SUFFICES ASSUME id \in Stored PROVE IsFor(c, id)
    OBVIOUS
  <2>1. /\ messageByID'[id].recipient = messageByID[id].recipient
        /\ messageByID[id].device # NoDevice => messageByID'[id].device = messageByID[id].device
    BY RecordsKept DEF Tracking
  <2>2. messageByID'[id].recipient = UserOf(c) /\ messageByID'[id].device \in {NoDevice, DeviceOf(c)}
    BY <1>1 DEF IsFor
  <2> QED
    BY <2>1, <2>2 DEF IsFor
<1>3. CASE ListMailbox(c)
  <2>1. id \in Stored
    BY <1>3 DEF ListMailbox, serviceVars, storeVars, Stored
  <2>2. id \in Shown(Greeting(c))
    BY <1>2, <1>3, <2>1, GreetingShows
  <2>3. pc[c] = "list" /\ socket'[c] = "up" /\ ~Started(c)
    BY <1>3 DEF ListMailbox, Go, Listening, Started
  <2>4. \A e : ~Incoming(c, e)
    BY <2>3, IncomingStarted
  <2>5. Outgoing(c)' = Greeting(c)
    BY <1>3, <2>3, <2>4, OutgoingStep
  <2> QED
    BY <2>2, <2>5 DEF Reaches
<1>4. CASE ~ListMailbox(c) /\ id \in Stored
  <2>1. Listening(c) /\ IsFor(c, id) /\ Reaches(c, id) /\ socket'[c] = "up"
    BY <1>2, <1>4, ListeningSteps DEF NoneMissed, Listening
  <2>2. CASE id \in Shown(Outgoing(c))
    BY <1>4, <2>1, <2>2, ShownKept DEF Reaches
  <2>3. CASE InHand(c, id)
    BY <2>3, HandKept DEF Reaches
  <2>4. CASE InStream(c, id)
    BY <2>1, <2>4, StreamKept DEF Reaches
  <2>5. CASE id \in missed[c]
    BY <2>5, MissedSteps DEF Reaches
  <2>6. CASE Offers(c, id)
    BY <1>4, <2>1, <2>6, OfferKept DEF Reaches
  <2> QED
    BY <2>1, <2>2, <2>3, <2>4, <2>5, <2>6 DEF Reaches
<1>5. CASE ~ListMailbox(c) /\ id \notin Stored
  <2>1. ~UNCHANGED storeVars
    BY <1>5 DEF storeVars, Stored
  <2>2. ASSUME NEW a \in Conns, ReadAck(a)
        PROVE  FALSE
    BY <1>5, <2>2, ReadAckEffect, AcknowledgeEffect, ServiceAssumption
  <2>3. PICK p \in Callers : StoreItem(p)
    BY <2>1, <2>2, StoreSteps
  <2>4. id = item[p].id /\ messageByID'[id] = item[p]
    BY <1>5, <2>3, StoreItemEffect
  <2>5. item[p].recipient = UserOf(c)
    BY <1>1, <2>4 DEF IsFor
  <2>6. Listening(c)
    BY <1>5, ListeningSteps
  <2>7. Offers(c, id)'
    BY <2>3, <2>4, <2>5, <2>6, StoredOffered
  <2> QED
    BY <2>7 DEF Reaches
<1> QED
  BY <1>3, <1>4, <1>5

\* A bound client misses no message for its device: from the mailbox or live it has
\* it or will, unless its stream was full, or the Send that had the message died at
\* another connection of the same user that ended meanwhile.
THEOREM MailboxThenLive == Spec => []MailboxOrLive
<1>1. Init => NoneMissed
  BY DEF Init, ServiceInit, NoneMissed, Stored
<1>2. ServiceGood /\ Typed /\ Tracking /\ Shape /\ NoneMissed /\ [Next]_vars => NoneMissed'
  BY NoneMissedStep
<1>3. NoneMissed /\ PanickedAtCancelled => MailboxOrLive
  <2> SUFFICES ASSUME NoneMissed, PanickedAtCancelled,
                      NEW c \in Conns, NEW id \in Stored, Listening(c), IsFor(c, id)
               PROVE  \/ id \in Shown(Outgoing(c))
                      \/ \E m \in Listed(hand[c]) \cup Listed(subscriber[c].buf) : m.id = id
                      \/ id \in missed[c]
                      \/ \E p \in DOMAIN sends : /\ sends[p].msg.id = id
                                                 /\ Offering(p, c) \/ CutShort(p, c)
    BY DEF MailboxOrLive, IsFor
  <2>1. Reaches(c, id)
    BY DEF NoneMissed
  <2>2. ASSUME NEW p \in DOMAIN sends, c \in sends[p].todo
        PROVE  Offering(p, c) \/ CutShort(p, c)
    BY <2>2 DEF Offering, Running, CutShort, PanickedAtCancelled
  <2> QED
    BY <2>1, <2>2 DEF Reaches, InHand, InStream, Offers
<1>4. Spec => []PanickedAtCancelled
  BY RelayUsesService, PanicNeedsCancel, PTL
<1> QED
  BY <1>1, <1>2, <1>3, <1>4, ShapeAlways, PTL DEF Spec

-----------------------------------------------------------------------------
(* What a client is shown is its own. *)

\* Handlers store no id twice, so inboxes list their user's messages, each once.
LEMMA RelayInboxStep ==
    ASSUME ServiceTypeOK, IndexesAgree, Typed, FreshItems, InboxAddressed, [Next]_vars
    PROVE  InboxAddressed'
<1>1. ASSUME NEW p \in Callers, StoreItem(p) PROVE InboxAddressed'
  <2>1. item[p] \in Message /\ Store(p, item[p]) /\ item[p].id \notin Stored
    BY <1>1, StoreItemEffect DEF FreshItems
  <2> QED
    BY <2>1, InboxStored
<1>2. ASSUME NEW c \in Conns, ReadAck(c) PROVE InboxAddressed'
  BY <1>2, ReadAckEffect, InboxAcked, ServiceAssumption
<1>3. CASE UNCHANGED storeVars
  BY <1>3 DEF storeVars, InboxAddressed
<1> QED
  BY <1>1, <1>2, <1>3, StoreSteps

\* A copy of a message for the device of c.
Mine(c, m) ==
    /\ Agrees(m)
    /\ m.recipient = UserOf(c)
    /\ m.device \in {NoDevice, DeviceOf(c)}

StreamsMine ==
    \A c \in Conns : c \in DOMAIN subscriber =>
       /\ DeviceOf(c) \in Devices
       /\ subscriber[c].user = UserOf(c)
       /\ subscriber[c].device = DeviceOf(c)
       /\ \A m \in Listed(subscriber[c].buf) : Mine(c, m)

HandsMine == \A c \in Conns : \A m \in Listed(hand[c]) : Mine(c, m)

\* It stays one.
LEMMA MineKept ==
    ASSUME ServiceTypeOK, Typed, FreshItems, [Next]_vars, NEW c \in Conns, NEW m, Mine(c, m)
    PROVE  Mine(c, m)'
<1>1. Agrees(m)'
  BY AgreesKept DEF Mine
<1>2. UserOf(c)' = UserOf(c) /\ DeviceOf(c)' = DeviceOf(c)
  BY OwnSteps DEF UserOf, DeviceOf
<1> QED
  BY <1>1, <1>2 DEF Mine

\* A stream is filled with messages for the device of its connection.
LEMMA StreamsMineStep ==
    ASSUME ServiceTypeOK, StreamsAddressed, Typed, Tracking, StreamsMine, [Next]_vars
    PROVE  StreamsMine'
<1> SUFFICES ASSUME NEW c \in Conns, c \in DOMAIN subscriber'
             PROVE  /\ DeviceOf(c)' \in Devices
                    /\ subscriber'[c].user = UserOf(c)'
                    /\ subscriber'[c].device = DeviceOf(c)'
                    /\ \A m \in Listed(subscriber'[c].buf) : Mine(c, m)'
  BY DEF StreamsMine, Mine
<1>1. UserOf(c)' = UserOf(c) /\ DeviceOf(c)' = DeviceOf(c)
  BY OwnSteps DEF UserOf, DeviceOf
<1>2. \A m : Mine(c, m) => Mine(c, m)'
  BY MineKept DEF Tracking
<1>3. CASE OpenStream(c)
  <2>1. subscriber'[c] = [user |-> UserOf(c), device |-> DeviceOf(c), open |-> TRUE, buf |-> <<>>]
    BY <1>3 DEF OpenStream, Subscribe
  <2>2. DeviceOf(c) \in Devices
    BY <1>3, Bindable DEF OpenStream, Go, Typed, RelayTypeOK, Jobs
  <2> QED
    BY <1>1, <2>1, <2>2 DEF Listed
<1>4. ASSUME c \in DOMAIN subscriber
      PROVE  /\ DeviceOf(c) \in Devices /\ subscriber[c] \in Subscription
             /\ subscriber[c].user = UserOf(c) /\ subscriber[c].device = DeviceOf(c)
             /\ \A m \in Listed(subscriber[c].buf) : Mine(c, m)
  BY <1>4 DEF StreamsMine, ServiceTypeOK, Subscription
<1>5. ASSUME c \in DOMAIN subscriber, subscriber'[c].user = subscriber[c].user,
             subscriber'[c].device = subscriber[c].device,
             \A m \in Listed(subscriber'[c].buf) : Mine(c, m)
      PROVE  /\ DeviceOf(c)' \in Devices
             /\ subscriber'[c].user = UserOf(c)'
             /\ subscriber'[c].device = DeviceOf(c)'
             /\ \A m \in Listed(subscriber'[c].buf) : Mine(c, m)'
  BY <1>1, <1>2, <1>4, <1>5
<1>6. CASE c \in DOMAIN subscriber /\ subscriber'[c] = subscriber[c]
  BY <1>4, <1>5, <1>6
<1>7. CASE CancelStream(c)
  <2>1. c \in DOMAIN subscriber /\ subscriber' = [subscriber EXCEPT ![c].open = FALSE]
    BY <1>7 DEF CancelStream, Cancel
  <2>2. /\ subscriber'[c].user = subscriber[c].user
        /\ subscriber'[c].device = subscriber[c].device
        /\ subscriber'[c].buf = subscriber[c].buf
    BY <1>4, <2>1 DEF Subscription
  <2> QED
    BY <1>4, <1>5, <2>1, <2>2
<1>8. CASE ForwarderTakes(c)
  <2> DEFINE q == subscriber[c].buf
  <2>1. /\ c \in DOMAIN subscriber /\ q # <<>>
        /\ subscriber' = [subscriber EXCEPT ![c].buf = Tail(q)]
    BY <1>8 DEF ForwarderTakes, Receive
  <2>2. /\ subscriber'[c].user = subscriber[c].user
        /\ subscriber'[c].device = subscriber[c].device
        /\ subscriber'[c].buf = Tail(q)
        /\ q \in Seq(Message)
    BY <1>4, <2>1 DEF Subscription
  <2>3. Listed(Tail(q)) \subseteq Listed(q)
    <3> HIDE DEF q
    <3>1. \A i \in DOMAIN Tail(q) : Tail(q)[i] = q[i + 1] /\ i + 1 \in DOMAIN q
      BY <2>1, <2>2
    <3> QED
      BY <3>1 DEF Listed
  <2> QED
    BY <1>4, <1>5, <2>1, <2>2, <2>3
<1>9. ASSUME NEW t \in Callers, FanOutDeliver(t, c)
      PROVE  /\ DeviceOf(c)' \in Devices
             /\ subscriber'[c].user = UserOf(c)'
             /\ subscriber'[c].device = DeviceOf(c)'
             /\ \A m \in Listed(subscriber'[c].buf) : Mine(c, m)'
  <2> DEFINE x == sends[t].msg
             q == subscriber[c].buf
  <2>1. /\ t \in DOMAIN sends /\ c \in sends[t].todo /\ ShouldDeliver(x, subscriber[c].device)
        /\ subscriber' = [subscriber EXCEPT ![c].buf = Append(q, x)]
    BY <1>9 DEF FanOutDeliver, Deliverable, Offering, Running, Wanted, Queued
  <2>2. c \in DOMAIN subscriber /\ subscriber[c].user = x.recipient
    BY <2>1 DEF StreamsAddressed
  <2>3. Mine(c, x)
    <3>1. Agrees(x)
      BY <2>1 DEF Tracking, SendsAgree
    <3>2. x.device \in {NoDevice, DeviceOf(c)}
      BY <1>4, <2>1, <2>2, ServiceAssumption DEF ShouldDeliver
    <3> QED
      BY <1>4, <2>2, <3>1, <3>2 DEF Mine
  <2>4. /\ subscriber'[c].user = subscriber[c].user
        /\ subscriber'[c].device = subscriber[c].device
        /\ subscriber'[c].buf = Append(q, x)
        /\ q \in Seq(Message) /\ x \in Message
    BY <1>4, <2>1, <2>2 DEF Subscription, ServiceTypeOK
  <2>5. Listed(Append(q, x)) = Listed(q) \cup {x}
    <3> HIDE DEF q, x
    <3> QED
      BY <2>4, ListedAppend
  <2>6. \A m \in Listed(subscriber'[c].buf) : Mine(c, m)
    BY <1>4, <2>2, <2>3, <2>4, <2>5
  <2> QED
    BY <1>5, <2>2, <2>4, <2>6
<1> QED
  BY <1>3, <1>6, <1>7, <1>8, <1>9, StreamSteps

\* The forwarder takes what it holds from the stream of its connection.
LEMMA HandsMineStep ==
    ASSUME ServiceTypeOK, Typed, FreshItems, StreamsMine, HandsMine, [Next]_vars
    PROVE  HandsMine'
<1> SUFFICES ASSUME NEW c \in Conns, NEW m \in Listed(hand'[c]) PROVE Mine(c, m)'
  BY DEF HandsMine, Mine
<1>1. hand = [x \in Conns |-> hand[x]]
  BY DEF Typed, RelayTypeOK
<1>2. CASE m \in Listed(hand[c])
  BY <1>2, MineKept DEF HandsMine
<1>3. CASE StartPumps(c) \/ ForwarderEnds(c)
  BY <1>2, <1>3 DEF StartPumps, ForwarderEnds
<1>4. ~ForwarderPushes(c)
  BY <1>1 DEF ForwarderPushes, Listed
<1>5. CASE ForwarderTakes(c)
  <2> DEFINE q == subscriber[c].buf
  <2>1. c \in DOMAIN subscriber /\ q \in Seq(Message) /\ q # <<>>
    BY <1>5 DEF ForwarderTakes, Receive, ServiceTypeOK
  <2>2. hand'[c] = <<Head(q)>> \/ hand'[c] = <<>>
    BY <1>1, <1>5 DEF ForwarderTakes
  <2>3. m = Head(q)
    BY <2>2 DEF Listed
  <2>4. m \in Listed(q)
    <3> HIDE DEF q
    <3>1. Head(q) = q[1] /\ 1 \in DOMAIN q
      BY <2>1
    <3> QED
      BY <2>3, <3>1 DEF Listed
  <2> QED
    BY <2>1, <2>4, MineKept DEF StreamsMine
<1> QED
  BY <1>2, <1>3, <1>4, <1>5, HandSteps DEF ForwarderStep

\* What a mailbox item or a live delivery says of its message.
GoodShown(c, e) ==
    /\ e.id \in Stored
    /\ messageByID[e.id].recipient = UserOf(c)
    /\ e.device \in {NoDevice, DeviceOf(c)}
    /\ e.device # NoDevice => messageByID[e.id].device = e.device

ShownGood ==
    \A c \in Conns : \A e \in Listed(Outgoing(c)) : e.kind \in {"mailbox", "deliver"} => GoodShown(c, e)

\* It stays so.
LEMMA GoodShownKept ==
    ASSUME ServiceTypeOK, Typed, FreshItems, [Next]_vars, NEW c \in Conns, NEW e, GoodShown(c, e)
    PROVE  GoodShown(c, e)'
<1>1. /\ e.id \in Stored' /\ e.id \in Stored
      /\ messageByID'[e.id].recipient = messageByID[e.id].recipient
      /\ messageByID[e.id].device # NoDevice
            => messageByID'[e.id].device = messageByID[e.id].device
  BY RecordsKept DEF GoodShown
<1>2. UserOf(c)' = UserOf(c) /\ DeviceOf(c)' = DeviceOf(c)
  BY OwnSteps DEF UserOf, DeviceOf
<1> QED
  BY <1>1, <1>2 DEF GoodShown

\* What the forwarder pushes is for the device.
LEMMA DeliveredGood ==
    ASSUME Typed, Shape, HandsMine, NEW c \in Conns, NEW e, Incoming(c, e), e.kind = "deliver"
    PROVE  /\ ForwarderPushes(c) /\ e = About("deliver", hand[c][1])
           /\ e.id = hand[c][1].id /\ hand[c][1] \in Listed(hand[c])
           /\ GoodShown(c, e)
<1>1. ForwarderPushes(c) /\ e = About("deliver", hand[c][1])
  BY DEF Incoming, About, Plain
<1>2. hand[c][1] \in Listed(hand[c])
  BY <1>1 DEF ForwarderPushes, Shape, NothingEarly, Listed
<1>3. Mine(c, hand[c][1])
  BY <1>2 DEF HandsMine
<1>4. e.id = hand[c][1].id /\ e.device = hand[c][1].device
  BY <1>1 DEF About
<1> QED
  BY <1>1, <1>2, <1>3, <1>4 DEF Mine, Agrees, GoodShown

\* The mailbox lists the stored messages for the device, each once.
LEMMA MailboxItems ==
    ASSUME ServiceTypeOK, IndexesAgree, InboxAddressed, Typed, NEW c \in Conns, ListMailbox(c)
    PROVE  /\ \A i \in DOMAIN Mailbox(c) :
                 LET m == Mailbox(c)[i]
                 IN  /\ m.id \in Stored /\ messageByID[m.id] = m
                     /\ m.recipient = UserOf(c)
                     /\ m.device \in {NoDevice, DeviceOf(c)}
           /\ \A i, j \in DOMAIN Mailbox(c) : Mailbox(c)[i].id = Mailbox(c)[j].id => i = j
<1> DEFINE visible == {x \in Stored : ShouldDeliver(messageByID[x], DeviceOf(c))}
           box == inboxIDs[UserOf(c)]
           ids == Selected(box, visible)
<1>1. UserOf(c) \in Users /\ DeviceOf(c) \in Devices
  BY Bindable DEF ListMailbox, Go, Typed, RelayTypeOK, Jobs
<1>2. Mailbox(c) = [i \in DOMAIN ids |-> messageByID[ids[i]]]
  BY DEF Mailbox, ListInbox
<1>3. box \in Seq(MessageIDs) /\ \A i, j \in DOMAIN box : box[i] = box[j] => i = j
  BY <1>1 DEF ServiceTypeOK, InboxAddressed
<1> HIDE DEF box, visible
<1>4. Listed(ids) = Listed(box) \cap visible
  BY <1>3, SelectedList
<1>5. \A i, j \in DOMAIN ids : ids[i] = ids[j] => i = j
  BY <1>3, SelectedOnce
<1> HIDE DEF ids
<1>6. ASSUME NEW i \in DOMAIN ids
      PROVE  /\ ids[i] \in Stored
             /\ messageByID[ids[i]].id = ids[i]
             /\ messageByID[ids[i]].recipient = UserOf(c)
             /\ messageByID[ids[i]].device \in {NoDevice, DeviceOf(c)}
  <2>1. ids[i] \in Listed(box) /\ ids[i] \in visible
    BY <1>4 DEF Listed
  <2>2. PICK k \in DOMAIN box : ids[i] = box[k]
    BY <2>1 DEF Listed
  <2>3. messageByID[box[k]].recipient = UserOf(c)
    BY <1>1, <2>2 DEF InboxAddressed, box
  <2>4. ids[i] \in Stored /\ messageByID[ids[i]].device \in {NoDevice, DeviceOf(c)}
    BY <1>1, <2>1, ServiceAssumption DEF visible, ShouldDeliver
  <2> QED
    BY <2>2, <2>3, <2>4 DEF IndexesAgree
<1> QED
  BY <1>2, <1>5, <1>6

\* The greeting shows messages for the device.
LEMMA GreetingGood ==
    ASSUME ServiceTypeOK, IndexesAgree, InboxAddressed, Typed, NEW c \in Conns, ListMailbox(c),
           NEW e \in Listed(Greeting(c)), e.kind \in {"mailbox", "deliver"}
    PROVE  GoodShown(c, e)
<1>1. /\ Mailbox(c) \in Seq(Message) /\ Greeting(c) \in Seq(EventType)
      /\ Len(Greeting(c)) = Len(Mailbox(c)) + 1
      /\ Greeting(c)[Len(Mailbox(c)) + 1] = Plain("bound")
  BY GreetingList
<1>2. /\ Len(Mailbox(c)) \in Nat /\ DOMAIN Greeting(c) = 1..(Len(Mailbox(c)) + 1)
      /\ DOMAIN Mailbox(c) = 1..Len(Mailbox(c))
  BY <1>1
<1>3. PICK i \in 1..(Len(Mailbox(c)) + 1) : e = Greeting(c)[i]
  BY <1>2 DEF Listed
<1>4. i # Len(Mailbox(c)) + 1
  BY <1>1, <1>3 DEF Plain
<1>5. i \in 1..Len(Mailbox(c))
  BY <1>2, <1>4
<1>6. e = About("mailbox", Mailbox(c)[i])
  BY <1>3, <1>5, GreetingList
<1>7. e.id = Mailbox(c)[i].id /\ e.device = Mailbox(c)[i].device
  BY <1>6 DEF About
<1> QED
  BY <1>2, <1>5, <1>7, MailboxItems DEF GoodShown

\* Every step keeps what clients are shown their own.
LEMMA ShownGoodStep ==
    ASSUME ServiceTypeOK, IndexesAgree, InboxAddressed, Typed, Tracking, Shape, HandsMine,
           ShownGood, [Next]_vars
    PROVE  ShownGood'
<1> SUFFICES ASSUME NEW c \in Conns, NEW e \in Listed(Outgoing(c)'), e.kind \in {"mailbox", "deliver"}
             PROVE  GoodShown(c, e)'
  BY DEF ShownGood
<1>1. CASE e \in Listed(Outgoing(c))
  BY <1>1, GoodShownKept DEF ShownGood, Tracking
<1>2. CASE Incoming(c, e)
  <2>1. e.kind = "deliver"
    BY <1>2, IncomingStarted
  <2> QED
    BY <1>2, <2>1, DeliveredGood, GoodShownKept DEF Tracking
<1>3. CASE Outgoing(c)' = Outgoing(c)
  BY <1>1, <1>3
<1>4. ASSUME NEW x \in EventType, NEW k, Incoming(c, x), Inserted(Outgoing(c), k, x, Outgoing(c)')
      PROVE  GoodShown(c, e)'
  <2>1. Listed(Outgoing(c)') = Listed(Outgoing(c)) \cup {x}
    BY <1>4, OutgoingListed
  <2>2. e \in Listed(Outgoing(c)) \/ e = x
    BY <2>1
  <2> QED
    BY <1>1, <1>2, <1>4, <2>2
<1>5. ASSUME NEW k, NEW x, Inserted(Outgoing(c)', k, x, Outgoing(c))
      PROVE  GoodShown(c, e)'
  <2>1. Listed(Outgoing(c)) = Listed(Outgoing(c)') \cup {x}
    BY <1>5, OutgoingListed
  <2> QED
    BY <1>1, <2>1
<1>6. CASE ListMailbox(c) /\ Outgoing(c)' = Greeting(c)
  BY <1>6, GreetingGood, GoodShownKept DEF Tracking
<1> QED
  BY <1>3, <1>4, <1>5, <1>6, OutgoingStep

-----------------------------------------------------------------------------
(* What a client is shown reaches it once each way. *)

\* Events of one kind about one message.
OfKind(kind, id) == {e \in EventType : e.kind = kind /\ e.id = id}

MailboxOnce == \A c \in Conns, id \in MessageIDs : AtMostOne(Outgoing(c), OfKind("mailbox", id))

\* The greeting shows a message once.
LEMMA GreetingOnce ==
    ASSUME ServiceTypeOK, IndexesAgree, InboxAddressed, Typed, NEW c \in Conns, ListMailbox(c),
           NEW id
    PROVE  AtMostOne(Greeting(c), OfKind("mailbox", id))
<1>1. /\ Mailbox(c) \in Seq(Message) /\ Greeting(c) \in Seq(EventType)
      /\ Len(Greeting(c)) = Len(Mailbox(c)) + 1
      /\ Greeting(c)[Len(Mailbox(c)) + 1] = Plain("bound")
  BY GreetingList
<1>2. /\ Len(Mailbox(c)) \in Nat /\ DOMAIN Greeting(c) = 1..(Len(Mailbox(c)) + 1)
      /\ DOMAIN Mailbox(c) = 1..Len(Mailbox(c))
  BY <1>1
<1>3. ASSUME NEW i \in DOMAIN Greeting(c), Greeting(c)[i].kind = "mailbox"
      PROVE  i \in DOMAIN Mailbox(c) /\ Greeting(c)[i].id = Mailbox(c)[i].id
  <2>1. i # Len(Mailbox(c)) + 1
    BY <1>1, <1>3 DEF Plain
  <2>2. i \in 1..Len(Mailbox(c))
    BY <1>2, <2>1
  <2>3. Greeting(c)[i] = About("mailbox", Mailbox(c)[i])
    BY <2>2, GreetingList
  <2> QED
    BY <1>2, <2>2, <2>3 DEF About
<1>4. \A i, j \in DOMAIN Mailbox(c) : Mailbox(c)[i].id = Mailbox(c)[j].id => i = j
  BY MailboxItems
<1> QED
  BY <1>3, <1>4 DEF AtMostOne, OfKind

\* The mailbox is shown once, in the greeting.
LEMMA MailboxOnceStep ==
    ASSUME ServiceTypeOK, IndexesAgree, InboxAddressed, Typed, Tracking, Shape, MailboxOnce,
           [Next]_vars
    PROVE  MailboxOnce'
<1> SUFFICES ASSUME NEW c \in Conns, NEW id \in MessageIDs
             PROVE  AtMostOne(Outgoing(c)', OfKind("mailbox", id))
  BY DEF MailboxOnce, OfKind
<1> DEFINE q == Outgoing(c)  r == Outgoing(c)'  A == OfKind("mailbox", id)
<1>1. q \in Seq(EventType) /\ r \in Seq(EventType)
  BY OutgoingTypes
<1>2. AtMostOne(q, A)
  BY DEF MailboxOnce
<1>3. ASSUME NEW x \in EventType, NEW k, Incoming(c, x), Inserted(q, k, x, r)
      PROVE  AtMostOne(r, A)
  <2>1. x \notin A
    BY <1>3, IncomingStarted DEF OfKind
  <2> HIDE DEF q, r, A
  <2> QED
    BY <1>1, <1>2, <1>3, <2>1, InsertedOne
<1>4. ASSUME NEW k, NEW x, Inserted(r, k, x, q)
      PROVE  AtMostOne(r, A)
  <2> HIDE DEF q, r, A
  <2> QED
    BY <1>1, <1>2, <1>4, RemovedOne
<1>5. ASSUME ListMailbox(c), r = Greeting(c)
      PROVE  AtMostOne(r, A)
  BY <1>5, GreetingOnce
<1> QED
  BY <1>2, <1>3, <1>4, <1>5, OutgoingStep

\* Calls of Send that run at the same time send different messages.
SendsDistinct == \A p, q \in DOMAIN sends : sends[p].msg.id = sends[q].msg.id => p = q

LEMMA SendsDistinctStep ==
    ASSUME ServiceTypeOK, Typed, Tracking, SendsDistinct, [Next]_vars
    PROVE  SendsDistinct'
<1>1. ASSUME NEW t \in DOMAIN sends'
      PROVE  \/ t \in DOMAIN sends /\ sends'[t].msg = sends[t].msg
             \/ /\ StoreItem(t) /\ sends'[t].msg = item[t] /\ item[t].id \notin Stored
                /\ sends' = [x \in DOMAIN sends \cup {t} |->
                               IF x = t
                               THEN [msg |-> item[t], todo |-> subscribersByUser[item[t].recipient]]
                               ELSE sends[x]]
  <2>1. CASE t \in DOMAIN sends /\ sends'[t].msg = sends[t].msg
    BY <2>1
  <2>2. CASE StoreItem(t) /\ sends'[t].msg = item[t]
    <3>1. Store(t, item[t]) /\ t \in DOMAIN sends'
      BY <2>2 DEF StoreItem
    <3>2. t \in Callers
      BY <3>1, TypeStep, RelayServiceStep DEF ServiceTypeOK
    <3>3. item[t].id \notin Stored
      BY <2>2, <3>2 DEF Tracking, FreshItems, StoreItem, Go
    <3> QED
      BY <2>2, <3>1, <3>3 DEF Store
  <2> QED
    BY <2>1, <2>2, SendsSteps
<1>2. \A t \in DOMAIN sends : sends[t].msg.id \in Stored
  BY DEF Tracking, SendsAgree, Agrees
<1>3. ASSUME NEW t \in DOMAIN sends', NEW x \in DOMAIN sends', x # t,
             StoreItem(t), item[t].id \notin Stored, sends'[t].msg = item[t],
             sends' = [y \in DOMAIN sends \cup {t} |->
                         IF y = t
                         THEN [msg |-> item[t], todo |-> subscribersByUser[item[t].recipient]]
                         ELSE sends[y]]
      PROVE  sends'[x].msg.id # sends'[t].msg.id
  <2>1. x \in DOMAIN sends /\ sends'[x] = sends[x]
    BY <1>3
  <2> QED
    BY <1>2, <1>3, <2>1
<1> QED
  BY <1>1, <1>3 DEF SendsDistinct

\* What the stream of c holds; nothing before it is opened.
Buffer(c) == IF c \in DOMAIN subscriber THEN subscriber[c].buf ELSE <<>>

Carriers(id) == {m \in Message : m.id = id}

Shows(c, id) == Listed(Outgoing(c)) \cap OfKind("deliver", id) # {}
Streams(c, id) == Listed(Buffer(c)) \cap Carriers(id) # {}

\* A live message is in one place on its way to the client, there once.
OneWay(c, id) ==
    /\ AtMostOne(Outgoing(c), OfKind("deliver", id))
    /\ AtMostOne(Buffer(c), Carriers(id))
    /\ Shows(c, id) => ~InHand(c, id) /\ ~Streams(c, id) /\ ~Offers(c, id)
    /\ InHand(c, id) => ~Streams(c, id) /\ ~Offers(c, id)
    /\ Streams(c, id) => ~Offers(c, id)

OnceLive == SendsDistinct /\ \A c \in Conns, id \in MessageIDs : OneWay(c, id)

\* The steps that move it on: the forwarder pushes it or takes it, a call of Send
\* puts it into the stream, a call of Send begins.
PushesIt(c, id) == ForwarderPushes(c) /\ hand[c][1].id = id
TakesIt(c, id) == ForwarderTakes(c) /\ Head(subscriber[c].buf).id = id
StreamsIt(c, id) == \E t \in Callers : FanOutDeliver(t, c) /\ sends[t].msg.id = id
StoresIt(id) == \E t \in Callers : StoreItem(t) /\ item[t].id = id

\* Pushing it takes it out of the forwarder's hand.
LEMMA PushMoves ==
    ASSUME Typed, Shape, NEW c \in Conns, NEW id, PushesIt(c, id)
    PROVE  InHand(c, id) /\ ~InHand(c, id)'
<1>1. hand[c][1] \in Listed(hand[c]) /\ hand[c][1].id = id
  BY DEF PushesIt, ForwarderPushes, Shape, NothingEarly, Listed
<1>2. hand'[c] = <<>>
  BY DEF PushesIt, ForwarderPushes, Typed, RelayTypeOK
<1> QED
  BY <1>1, <1>2 DEF InHand, Listed

\* The client is shown live what the forwarder pushes, once if it was not shown it.
LEMMA ShowsStep ==
    ASSUME ServiceTypeOK, Typed, Tracking, Shape, HandsMine, [Next]_vars,
           NEW c \in Conns, NEW id, AtMostOne(Outgoing(c), OfKind("deliver", id)),
           Shows(c, id) => ~InHand(c, id)
    PROVE  /\ AtMostOne(Outgoing(c)', OfKind("deliver", id))
           /\ Shows(c, id)' => Shows(c, id) \/ PushesIt(c, id)
<1> DEFINE q == Outgoing(c)  r == Outgoing(c)'  A == OfKind("deliver", id)
           Goal == AtMostOne(r, A) /\ (Listed(r) \cap A # {} => Listed(q) \cap A # {} \/ PushesIt(c, id))
<1>1. q \in Seq(EventType) /\ r \in Seq(EventType)
  BY OutgoingTypes
<1>2. ASSUME r = q PROVE Goal
  <2>1. AtMostOne(q, A)
    OBVIOUS
  <2> HIDE DEF q, r, A
  <2> QED
    BY <1>2, <2>1
<1>3. ASSUME NEW x \in EventType, NEW k, Incoming(c, x), Inserted(q, k, x, r)
      PROVE  Goal
  <2>1. x \in A => PushesIt(c, id)
    BY <1>3, DeliveredGood DEF OfKind, PushesIt
  <2>2. x \in A => Listed(q) \cap A = {}
    BY <2>1, PushMoves DEF Shows
  <2>3. Listed(r) = Listed(q) \cup {x}
    BY <1>3, OutgoingListed
  <2> HIDE DEF q, r, A
  <2>4. AtMostOne(r, A)
    BY <1>1, <1>3, <2>2, InsertedOne DEF q, A
  <2> QED
    BY <2>1, <2>3, <2>4
<1>4. ASSUME NEW k, NEW x, Inserted(r, k, x, q)
      PROVE  Goal
  <2>1. Listed(q) = Listed(r) \cup {x}
    BY <1>4, OutgoingListed
  <2>2. AtMostOne(q, A)
    OBVIOUS
  <2> HIDE DEF q, r, A
  <2>3. AtMostOne(r, A)
    BY <1>1, <1>4, <2>2, RemovedOne
  <2> QED
    BY <2>1, <2>3
<1>5. ASSUME ListMailbox(c), r = Greeting(c)
      PROVE  Goal
  <2>1. \A e \in Listed(r) : e.kind \in {"mailbox", "bound"}
    BY <1>5, GreetingKinds
  <2>2. Listed(r) \cap A = {}
    BY <2>1 DEF OfKind
  <2>3. AtMostOne(r, A)
    BY <2>2 DEF AtMostOne, Listed
  <2> QED
    BY <2>2, <2>3
<1>6. Goal
  BY <1>2, <1>3, <1>4, <1>5, OutgoingStep
<1> QED
  BY <1>6 DEF Shows, OfKind

\* The forwarder holds what it took from the stream.
LEMMA InHandStep ==
    ASSUME Typed, [Next]_vars, NEW c \in Conns, NEW id, InHand(c, id)'
    PROVE  InHand(c, id) \/ TakesIt(c, id)
<1>1. hand = [x \in Conns |-> hand[x]]
  BY DEF Typed, RelayTypeOK
<1>2. CASE hand'[c] = hand[c]
  BY <1>2 DEF InHand
<1>3. CASE StartPumps(c) \/ ForwarderEnds(c)
  BY <1>2, <1>3 DEF StartPumps, ForwarderEnds
<1>4. ~ForwarderPushes(c)
  BY <1>1 DEF ForwarderPushes, InHand, Listed
<1>5. CASE ForwarderTakes(c)
  <2>1. hand'[c] = <<Head(subscriber[c].buf)>> \/ hand'[c] = <<>>
    BY <1>1, <1>5 DEF ForwarderTakes
  <2>2. Head(subscriber[c].buf).id = id
    BY <2>1 DEF InHand, Listed
  <2> QED
    BY <1>5, <2>2 DEF TakesIt
<1> QED
  BY <1>2, <1>3, <1>4, <1>5, HandSteps DEF ForwarderStep

\* What the head of a list is, the rest is not, when the list has at most one of it.
LEMMA TailOne ==
    ASSUME NEW S, NEW q \in Seq(S), q # <<>>, NEW A, AtMostOne(q, A)
    PROVE  /\ AtMostOne(Tail(q), A)
           /\ Listed(Tail(q)) \subseteq Listed(q) /\ Head(q) \in Listed(q)
           /\ Head(q) \in A => Listed(Tail(q)) \cap A = {}
<1>1. /\ Len(q) \in Nat \ {0} /\ DOMAIN q = 1..Len(q) /\ Head(q) = q[1]
      /\ DOMAIN Tail(q) = 1..(Len(q) - 1)
      /\ \A i \in 1..(Len(q) - 1) : Tail(q)[i] = q[i + 1]
  OBVIOUS
<1>2. \A i \in DOMAIN Tail(q) : i \in Nat \ {0} /\ i + 1 \in DOMAIN q /\ Tail(q)[i] = q[i + 1]
  BY <1>1
<1>3. 1 \in DOMAIN q
  BY <1>1
<1>4. AtMostOne(Tail(q), A)
  <2> SUFFICES ASSUME NEW i \in DOMAIN Tail(q), NEW j \in DOMAIN Tail(q),
                      Tail(q)[i] \in A, Tail(q)[j] \in A
               PROVE  i = j
    BY DEF AtMostOne
  <2>1. i + 1 = j + 1
    BY <1>2 DEF AtMostOne
  <2> QED
    BY <1>2, <2>1
<1>5. ASSUME NEW i \in DOMAIN Tail(q), Head(q) \in A, Tail(q)[i] \in A PROVE FALSE
  <2>1. i + 1 = 1
    BY <1>1, <1>2, <1>3, <1>5 DEF AtMostOne
  <2> QED
    BY <1>2, <2>1
<1> QED
  BY <1>1, <1>2, <1>3, <1>4, <1>5 DEF Listed

\* A list has at most one of A after a second would have been appended.
LEMMA AppendedOne ==
    ASSUME NEW S, NEW q \in Seq(S), NEW x \in S, NEW A, AtMostOne(q, A),
           x \in A => Listed(q) \cap A = {}
    PROVE  AtMostOne(Append(q, x), A)
<1>1. /\ Len(q) \in Nat /\ DOMAIN q = 1..Len(q) /\ DOMAIN Append(q, x) = 1..(Len(q) + 1)
      /\ \A i \in 1..Len(q) : Append(q, x)[i] = q[i]
      /\ Append(q, x)[Len(q) + 1] = x
  OBVIOUS
<1>2. ASSUME NEW i \in DOMAIN Append(q, x), Append(q, x)[i] \in A
      PROVE  i = Len(q) + 1 \/ (i \in DOMAIN q /\ q[i] \in A /\ x \notin A)
  <2>1. CASE i \in 1..Len(q)
    BY <1>1, <1>2, <2>1 DEF Listed
  <2> QED
    BY <1>1, <2>1
<1>3. \A i, j \in DOMAIN q : q[i] \in A /\ q[j] \in A => i = j
  BY DEF AtMostOne
<1> QED
  BY <1>1, <1>2, <1>3 DEF AtMostOne

\* A stream holds a message once, from when a call of Send puts it there until the
\* forwarder takes it.
LEMMA StreamsStep ==
    ASSUME ServiceTypeOK, StreamsAddressed, Typed, [Next]_vars, NEW c \in Conns, NEW id,
           AtMostOne(Buffer(c), Carriers(id)), StreamsIt(c, id) => ~Streams(c, id)
    PROVE  /\ AtMostOne(Buffer(c)', Carriers(id))
           /\ Streams(c, id)' => Streams(c, id) \/ StreamsIt(c, id)
           /\ TakesIt(c, id) => Streams(c, id) /\ ~Streams(c, id)'
<1> DEFINE q == Buffer(c)  r == Buffer(c)'  A == Carriers(id)
           Goal == /\ AtMostOne(r, A)
                   /\ Listed(r) \cap A # {} => Listed(q) \cap A # {} \/ StreamsIt(c, id)
                   /\ TakesIt(c, id) => Listed(q) \cap A # {} /\ Listed(r) \cap A = {}
<1>1. q \in Seq(Message)
  BY DEF Buffer, ServiceTypeOK
<1>2. AtMostOne(q, A) /\ (StreamsIt(c, id) => Listed(q) \cap A = {})
  BY DEF Streams
<1>3. ASSUME ForwarderTakes(c) PROVE Goal
  <2>1. c \in DOMAIN subscriber /\ q = subscriber[c].buf /\ q # <<>>
        /\ subscriber' = [subscriber EXCEPT ![c].buf = Tail(q)]
    BY <1>3 DEF ForwarderTakes, Receive, Buffer
  <2>2. subscriber'[c].buf = Tail(q) /\ c \in DOMAIN subscriber'
    BY <2>1 DEF ServiceTypeOK
  <2>3. r = Tail(q)
    BY <2>2 DEF Buffer
  <2>4. TakesIt(c, id) => Head(q).id = id
    BY <2>1 DEF TakesIt
  <2>5. Head(q) \in Message
    <3> HIDE DEF q
    <3> QED
      BY <1>1, <2>1
  <2>6. TakesIt(c, id) => Head(q) \in A
    BY <2>4, <2>5 DEF Carriers
  <2> HIDE DEF q, r, A
  <2>7. /\ AtMostOne(Tail(q), A) /\ Listed(Tail(q)) \subseteq Listed(q) /\ Head(q) \in Listed(q)
        /\ Head(q) \in A => Listed(Tail(q)) \cap A = {}
    BY <1>1, <1>2, <2>1, TailOne
  <2> QED
    BY <2>3, <2>6, <2>7
<1>4. ASSUME NEW t \in Callers, FanOutDeliver(t, c)
      PROVE  Goal
  <2> DEFINE x == sends[t].msg
  <2>1. /\ t \in DOMAIN sends /\ c \in sends[t].todo /\ c \in DOMAIN subscriber /\ Offered(t, c)
        /\ subscriber' = [subscriber EXCEPT ![c].buf = Append(q, x)]
    BY <1>4 DEF FanOutDeliver, Deliverable, Offering, Running, Queued, StreamsAddressed, Buffer
  <2>2. subscriber'[c].buf = Append(q, x) /\ c \in DOMAIN subscriber'
    BY <2>1 DEF ServiceTypeOK
  <2>3. r = Append(q, x) /\ x \in Message
    BY <2>1, <2>2 DEF Buffer, ServiceTypeOK
  <2>4. ~TakesIt(c, id)
    <3>1. sends'[t].todo = sends[t].todo \ {c}
      BY <2>1, OfferedTodo
    <3> QED
      BY <2>1, <3>1 DEF TakesIt, ForwarderTakes, Receive, callVars
  <2>5. x \in A => StreamsIt(c, id)
    BY <1>4 DEF Carriers, StreamsIt
  <2> HIDE DEF q, r, A, x
  <2>6. AtMostOne(Append(q, x), A) /\ Listed(Append(q, x)) = Listed(q) \cup {x}
    BY <1>1, <1>2, <2>3, <2>5, AppendedOne, ListedAppend
  <2> QED
    BY <2>3, <2>4, <2>5, <2>6
<1>5. ASSUME r = q, ~ForwarderTakes(c) PROVE Goal
  <2> HIDE DEF q, r, A
  <2> QED
    BY <1>2, <1>5 DEF TakesIt
<1>6. ASSUME r = <<>>, ~ForwarderTakes(c) PROVE Goal
  <2>1. Listed(r) = {} /\ AtMostOne(r, A)
    BY <1>6 DEF Listed, AtMostOne
  <2> HIDE DEF q, r, A
  <2> QED
    BY <1>6, <2>1 DEF TakesIt
<1>7. ASSUME OpenStream(c) PROVE Goal
  <2>1. c \in DOMAIN subscriber' /\ subscriber'[c].buf = <<>> /\ c \notin DOMAIN subscriber
    BY <1>7 DEF OpenStream, Subscribe
  <2>2. ~ForwarderTakes(c)
    BY <2>1 DEF ForwarderTakes, Receive
  <2> QED
    BY <1>6, <2>1, <2>2 DEF Buffer
<1>8. ASSUME CancelStream(c) PROVE Goal
  <2>1. c \in DOMAIN subscriber /\ subscriber' = [subscriber EXCEPT ![c].open = FALSE]
    BY <1>8 DEF CancelStream, Cancel
  <2>2. c \in DOMAIN subscriber' /\ subscriber'[c].buf = subscriber[c].buf
    BY <2>1 DEF ServiceTypeOK
  <2> QED
    BY <1>3, <1>5, <2>1, <2>2 DEF Buffer
<1>9. ASSUME c \in DOMAIN subscriber' <=> c \in DOMAIN subscriber,
             c \in DOMAIN subscriber => subscriber'[c] = subscriber[c]
      PROVE  Goal
  BY <1>3, <1>5, <1>9 DEF Buffer
<1>10. Goal
  BY <1>3, <1>4, <1>7, <1>8, <1>9, StreamSteps
<1> QED
  BY <1>10 DEF Streams, Carriers

\* A call of Send offers a message to a stream once.
LEMMA OffersStep ==
    ASSUME ServiceTypeOK, Typed, SendsDistinct, [Next]_vars, NEW c \in Conns, NEW id
    PROVE  /\ Offers(c, id)' => Offers(c, id) \/ StoresIt(id)
           /\ StreamsIt(c, id) => Offers(c, id) /\ ~Offers(c, id)'
<1>1. ASSUME NEW p \in DOMAIN sends', sends'[p].msg.id = id, c \in sends'[p].todo
      PROVE  Offers(c, id) \/ StoresIt(id)
  <2>1. p \in Callers
    BY TypeStep, RelayServiceStep DEF ServiceTypeOK
  <2>2. CASE p \in DOMAIN sends /\ sends'[p].msg = sends[p].msg /\ sends'[p].todo \subseteq sends[p].todo
    BY <1>1, <2>2 DEF Offers
  <2>3. CASE StoreItem(p) /\ sends'[p].msg = item[p]
    BY <1>1, <2>1, <2>3 DEF StoresIt
  <2> QED
    BY <2>2, <2>3, SendsSteps
<1>2. ASSUME NEW t \in Callers, FanOutDeliver(t, c), sends[t].msg.id = id
      PROVE  Offers(c, id) /\ ~Offers(c, id)'
  <2>1. t \in DOMAIN sends /\ c \in sends[t].todo /\ Offered(t, c)
    BY <1>2 DEF FanOutDeliver, Deliverable, Offering, Running
  <2>2. /\ DOMAIN sends' = DOMAIN sends
        /\ \A x \in DOMAIN sends :
              /\ sends'[x].msg = sends[x].msg
              /\ sends'[x].todo = IF x = t THEN sends[x].todo \ {c} ELSE sends[x].todo
    BY <2>1, OfferedTodo
  <2>3. \A x \in DOMAIN sends : sends[x].msg.id = id => x = t
    BY <1>2, <2>1 DEF SendsDistinct
  <2>4. ~Offers(c, id)'
    BY <2>2, <2>3 DEF Offers
  <2> QED
    BY <1>2, <2>1, <2>4 DEF Offers
<1> QED
  BY <1>1, <1>2 DEF Offers, StreamsIt

\* A message that is being stored is nowhere yet.
LEMMA StoredNew ==
    ASSUME ServiceTypeOK, Typed, Tracking, StreamsMine, HandsMine, ShownGood,
           NEW c \in Conns, NEW id, StoresIt(id)
    PROVE  ~Shows(c, id) /\ ~InHand(c, id) /\ ~Streams(c, id) /\ ~Offers(c, id)
<1>1. id \notin Stored
  BY DEF StoresIt, StoreItem, Go, Tracking, FreshItems
<1>2. ~Shows(c, id)
  BY <1>1 DEF Shows, OfKind, ShownGood, GoodShown
<1>3. ~InHand(c, id)
  BY <1>1 DEF InHand, HandsMine, Mine, Agrees
<1>4. ~Streams(c, id)
  BY <1>1 DEF Streams, Carriers, Buffer, StreamsMine, Mine, Agrees, Listed
<1>5. ~Offers(c, id)
  BY <1>1 DEF Offers, Tracking, SendsAgree, Agrees
<1> QED
  BY <1>2, <1>3, <1>4, <1>5

\* Every step keeps a live message in one place, once.
LEMMA OnceLiveStep ==
    ASSUME ServiceTypeOK, StreamsAddressed, Typed, Tracking, Shape, StreamsMine, HandsMine,
           ShownGood, OnceLive, [Next]_vars
    PROVE  OnceLive'
<1>1. SendsDistinct'
  BY SendsDistinctStep DEF OnceLive
<1>2. ASSUME NEW c \in Conns, NEW id \in MessageIDs
      PROVE  OneWay(c, id)'
  <2>1. OneWay(c, id) /\ SendsDistinct
    BY DEF OnceLive
  <2>2. PushesIt(c, id) => InHand(c, id) /\ ~InHand(c, id)'
    BY PushMoves
  <2>3. /\ AtMostOne(Outgoing(c)', OfKind("deliver", id))
        /\ Shows(c, id)' => Shows(c, id) \/ PushesIt(c, id)
    BY <2>1, ShowsStep DEF OneWay
  <2>4. InHand(c, id)' => InHand(c, id) \/ TakesIt(c, id)
    BY InHandStep
  <2>5. /\ Offers(c, id)' => Offers(c, id) \/ StoresIt(id)
        /\ StreamsIt(c, id) => Offers(c, id) /\ ~Offers(c, id)'
    BY <2>1, OffersStep
  <2>6. /\ AtMostOne(Buffer(c)', Carriers(id))
        /\ Streams(c, id)' => Streams(c, id) \/ StreamsIt(c, id)
        /\ TakesIt(c, id) => Streams(c, id) /\ ~Streams(c, id)'
    <3>1. StreamsIt(c, id) => ~Streams(c, id)
      BY <2>1, <2>5 DEF OneWay
    <3> QED
      BY <2>1, <3>1, StreamsStep DEF OneWay
  <2>7. StoresIt(id) => ~Shows(c, id) /\ ~InHand(c, id) /\ ~Streams(c, id) /\ ~Offers(c, id)
    BY StoredNew
  <2>8. /\ Shows(c, id) => ~InHand(c, id) /\ ~Streams(c, id) /\ ~Offers(c, id)
        /\ InHand(c, id) => ~Streams(c, id) /\ ~Offers(c, id)
        /\ Streams(c, id) => ~Offers(c, id)
    BY <2>1 DEF OneWay
  <2>9. /\ Shows(c, id)' => ~InHand(c, id)' /\ ~Streams(c, id)' /\ ~Offers(c, id)'
        /\ InHand(c, id)' => ~Streams(c, id)' /\ ~Offers(c, id)'
        /\ Streams(c, id)' => ~Offers(c, id)'
    BY <2>2, <2>3, <2>4, <2>5, <2>6, <2>7, <2>8
  <2> QED
    BY <2>3, <2>6, <2>9 DEF OneWay, OfKind, Carriers
<1> QED
  BY <1>1, <1>2 DEF OnceLive

\* What is known of what clients are shown.
Showing ==
    InboxAddressed /\ StreamsMine /\ HandsMine /\ ShownGood /\ MailboxOnce /\ OnceLive

LEMMA ShowingInit == Init => Showing
<1> SUFFICES ASSUME Init PROVE Showing
  OBVIOUS
<1>1. /\ DOMAIN subscriber = {} /\ DOMAIN sends = {} /\ \A u \in Users : inboxIDs[u] = <<>>
      /\ \A c \in Conns : hand[c] = <<>> /\ wire[c] = <<>> /\ sendQ[c] = <<>> /\ outbox[c] = <<>>
  BY DEF Init, ServiceInit
<1>2. \A c \in Conns : Outgoing(c) = <<>> /\ Buffer(c) = <<>>
  BY <1>1 DEF Outgoing, Buffer
<1>3. Listed(<<>>) = {} /\ \A A : AtMostOne(<<>>, A)
  BY DEF Listed, AtMostOne
<1>4. InboxAddressed /\ StreamsMine /\ HandsMine
  BY <1>1, <1>3 DEF InboxAddressed, StreamsMine, HandsMine
<1>5. ShownGood /\ MailboxOnce
  BY <1>2, <1>3 DEF ShownGood, MailboxOnce
<1>6. OnceLive
  BY <1>1, <1>2, <1>3 DEF OnceLive, SendsDistinct, OneWay, Shows, InHand, Streams, Offers
<1> QED
  BY <1>4, <1>5, <1>6 DEF Showing

LEMMA ShowingStep ==
    ASSUME ServiceGood, Typed, Tracking, Shape, Showing, [Next]_vars
    PROVE  Showing'
<1>1. InboxAddressed' /\ StreamsMine' /\ HandsMine'
  BY RelayInboxStep, StreamsMineStep, HandsMineStep DEF ServiceGood, Tracking, Showing
<1>2. ShownGood' /\ MailboxOnce'
  BY ShownGoodStep, MailboxOnceStep DEF ServiceGood, Showing
<1>3. OnceLive'
  BY OnceLiveStep DEF ServiceGood, Showing
<1> QED
  BY <1>1, <1>2, <1>3 DEF Showing

\* A mailbox item or a live delivery is of a stored message for the client's own
\* device, and none comes twice the same way.
THEOREM ShownSafety == Spec => []ShownRight
<1>1. ServiceGood /\ Typed /\ Tracking /\ Shape /\ Showing /\ [Next]_vars => Showing'
  BY ShowingStep
<1>2. ServiceTypeOK /\ Typed /\ Showing => ShownRight
  <2> SUFFICES ASSUME ServiceTypeOK, Typed, Showing, NEW c \in Conns,
                      NEW i \in DOMAIN Outgoing(c),
                      Outgoing(c)[i].kind \in {"mailbox", "deliver"}
               PROVE  LET q == Outgoing(c)
                      IN  /\ GoodShown(c, q[i])
                          /\ \A j \in DOMAIN q : q[j].kind = q[i].kind /\ q[j].id = q[i].id => i = j
    BY DEF ShownRight, GoodShown
  <2> DEFINE q == Outgoing(c)
  <2>1. q \in Seq(EventType)
    BY OutgoingType
  <2>2. GoodShown(c, q[i])
    BY DEF Showing, ShownGood, Listed
  <2>3. q[i].id \in MessageIDs
    BY <2>2 DEF GoodShown, ServiceTypeOK
  <2>4. AtMostOne(q, OfKind(q[i].kind, q[i].id))
    BY <2>3 DEF Showing, MailboxOnce, OnceLive, OneWay
  <2>5. \A k \in DOMAIN q : q[k] \in EventType
    <3> HIDE DEF q
    <3> QED
      BY <2>1
  <2>6. \A j \in DOMAIN q : q[j].kind = q[i].kind /\ q[j].id = q[i].id => i = j
    BY <2>4, <2>5 DEF AtMostOne, OfKind
  <2> QED
    BY <2>2, <2>6
<1> QED
  BY <1>1, <1>2, ShowingInit, ShapeAlways, PTL DEF Spec, ServiceGood

-----------------------------------------------------------------------------
(* When a handler waits to greet its client. *)

\* A greeting, with what of it is in the send channel, is no longer than the inbox
\* of the user and session.bound.
GreetingFits ==
    \A c \in Conns : pc[c] = "greet" =>
        Len(sendQ[c]) + Len(outbox[c]) <= Len(inboxIDs[UserOf(c)]) + 1

\* A handler waits at its own full channel before it greeted the client only when
\* the inbox of its user has at least as many messages as the channel has room for.
GreetingWaitsOnlyWhenFull ==
    \A c \in Conns : pc[c] = "greet" /\ outbox[c] # <<>> /\ ~Room(c)
                        => Len(inboxIDs[UserOf(c)]) >= SendCap

\* Inboxes only grow.
LEMMA InboxesGrow ==
    ASSUME ServiceTypeOK, Typed, [Next]_vars, NEW u \in Users
    PROVE  Len(inboxIDs[u]) \in Nat /\ Len(inboxIDs'[u]) \in Nat
           /\ Len(inboxIDs[u]) <= Len(inboxIDs'[u])
<1>1. inboxIDs[u] \in Seq(MessageIDs)
  BY DEF ServiceTypeOK
<1>2. inboxIDs'[u] = inboxIDs[u] \/ \E id \in MessageIDs : inboxIDs'[u] = Append(inboxIDs[u], id)
  <2>1. ASSUME NEW p \in Callers, StoreItem(p)
        PROVE  inboxIDs'[u] = inboxIDs[u] \/ \E id \in MessageIDs : inboxIDs'[u] = Append(inboxIDs[u], id)
    <3>1. item[p] \in Message /\ Store(p, item[p])
      BY <2>1, StoreItemEffect
    <3>2. inboxIDs'[u] = IF u \in Inboxes(item[p]) THEN Append(inboxIDs[u], item[p].id)
                                                   ELSE inboxIDs[u]
      BY <3>1 DEF Store, Indexed
    <3> QED
      BY <3>1, <3>2 DEF Message
  <2>2. ASSUME NEW c \in Conns, ReadAck(c) PROVE inboxIDs' = inboxIDs
    BY <2>2 DEF ReadAck, Acknowledge
  <2>3. CASE UNCHANGED storeVars
    BY <2>3 DEF storeVars
  <2> QED
    BY <2>1, <2>2, <2>3, StoreSteps
<1> DEFINE q == inboxIDs[u]  r == inboxIDs'[u]
<1> HIDE DEF q, r
<1>3. q \in Seq(MessageIDs) /\ (r = q \/ \E id \in MessageIDs : r = Append(q, id))
  BY <1>1, <1>2 DEF q, r
<1>4. Len(q) \in Nat /\ Len(r) \in Nat /\ Len(q) <= Len(r)
  BY <1>3
<1> QED
  BY <1>4 DEF q, r

\* The mailbox has no more messages than the inbox it is read from.
LEMMA MailboxLength ==
    ASSUME ServiceTypeOK, Typed, NEW c \in Conns, ListMailbox(c)
    PROVE  UserOf(c) \in Users /\ Len(Mailbox(c)) <= Len(inboxIDs[UserOf(c)])
<1> DEFINE visible == {x \in Stored : ShouldDeliver(messageByID[x], DeviceOf(c))}
           box == inboxIDs[UserOf(c)]
           ids == Selected(box, visible)
<1>1. UserOf(c) \in Users
  BY Bindable DEF ListMailbox, Go, Typed, RelayTypeOK, Jobs
<1>2. box \in Seq(MessageIDs)
  BY <1>1 DEF ServiceTypeOK
<1>3. Mailbox(c) = [i \in DOMAIN ids |-> messageByID[ids[i]]] /\ Mailbox(c) \in Seq(Message)
  BY GreetingList DEF Mailbox, ListInbox
<1> HIDE DEF box, visible
<1>4. ids \in Seq(MessageIDs) /\ Len(ids) <= Len(box)
  BY <1>2, SelectedList, SelectedLength
<1> HIDE DEF ids
<1>5. Len(Mailbox(c)) = Len(ids)
  <2>1. DOMAIN Mailbox(c) = DOMAIN ids
    BY <1>3
  <2>2. /\ DOMAIN Mailbox(c) = 1..Len(Mailbox(c)) /\ Len(Mailbox(c)) \in Nat
        /\ DOMAIN ids = 1..Len(ids) /\ Len(ids) \in Nat
    BY <1>3, <1>4
  <2>3. ASSUME NEW m \in Nat, NEW n \in Nat, 1..m = 1..n PROVE m = n
    <3>1. (m \in 1..m \/ m = 0) /\ (n \in 1..n \/ n = 0)
      OBVIOUS
    <3> QED
      BY <2>3, <3>1
  <2> QED
    BY <2>1, <2>2, <2>3
<1> QED
  BY <1>1, <1>4, <1>5 DEF box

\* Until the greeting is out nothing but the greeting goes into the send channel.
LEMMA GreetingFitsStep ==
    ASSUME ServiceTypeOK, Typed, Tracking, Shape, GreetingFits, [Next]_vars
    PROVE  GreetingFits'
<1> SUFFICES ASSUME NEW c \in Conns, pc'[c] = "greet"
             PROVE  Len(sendQ'[c]) + Len(outbox'[c]) <= Len(inboxIDs'[UserOf(c)]) + 1
  BY OwnSteps DEF GreetingFits, UserOf, DeviceOf
<1> DEFINE w == sendQ[c]  o == outbox[c]
<1>1. w \in Seq(EventType) /\ o \in Seq(EventType)
  BY DEF Typed, RelayTypeOK
<1>2. sendQ = [x \in Conns |-> sendQ[x]] /\ outbox = [x \in Conns |-> outbox[x]]
  BY DEF Typed, RelayTypeOK
<1>3. CASE ListMailbox(c) /\ pc[c] = "list"
  <2>1. sendQ'[c] = <<>> /\ outbox'[c] = Greeting(c)
    BY <1>2, <1>3 DEF ListMailbox, Greeting, Shape, NothingEarly
  <2>2. Len(Greeting(c)) = Len(Mailbox(c)) + 1 /\ Mailbox(c) \in Seq(Message)
    BY <1>3, GreetingList
  <2>3. UserOf(c) \in Users /\ Len(Mailbox(c)) <= Len(inboxIDs[UserOf(c)])
    BY <1>3, MailboxLength
  <2>4. /\ Len(inboxIDs[UserOf(c)]) \in Nat /\ Len(inboxIDs'[UserOf(c)]) \in Nat
        /\ Len(inboxIDs[UserOf(c)]) <= Len(inboxIDs'[UserOf(c)])
    BY <2>3, InboxesGrow
  <2>5. Len(Mailbox(c)) \in Nat /\ Len(<<>>) = 0
    BY <2>2
  <2> QED
    BY <2>1, <2>2, <2>3, <2>4, <2>5
<1>4. CASE pc[c] = "greet"
  <2>1. /\ Len(inboxIDs[UserOf(c)]) \in Nat /\ Len(inboxIDs'[UserOf(c)]) \in Nat
        /\ Len(inboxIDs[UserOf(c)]) <= Len(inboxIDs'[UserOf(c)])
    <3>1. UserOf(c) \in Users
      BY <1>4, Bindable DEF Typed, RelayTypeOK, Jobs
    <3> QED
      BY <3>1, InboxesGrow
  <2>2. Len(w) + Len(o) <= Len(inboxIDs[UserOf(c)]) + 1
    BY <1>4 DEF GreetingFits
  <2>3. /\ Len(w) \in Nat /\ Len(o) \in Nat
        /\ w # <<>> => Len(Tail(w)) = Len(w) - 1
        /\ o # <<>> => /\ Len(Tail(o)) = Len(o) - 1
                       /\ \A e \in EventType : Len(Append(w, e)) = Len(w) + 1
                       /\ Head(o) \in EventType
    <3> HIDE DEF w, o
    <3> QED
      BY <1>1
  <2>4. \/ sendQ'[c] = w /\ outbox'[c] = o
        \/ o # <<>> /\ sendQ'[c] = Append(w, Head(o)) /\ outbox'[c] = Tail(o)
        \/ w # <<>> /\ sendQ'[c] = Tail(w) /\ outbox'[c] = o
    <3>1. CASE Push(c)
      BY <1>2, <3>1 DEF Push
    <3>2. CASE WriterWrites(c) \/ WriterLoses(c)
      BY <1>2, <3>2 DEF WriterWrites, WriterLoses, Writes
    <3>3. ~ListMailbox(c) /\ ~TrackPendingAck(c) /\ ~ReadOther(c)
      BY <1>4 DEF ListMailbox, TrackPendingAck, ReadOther, Go
    <3>4. \A e : ~Incoming(c, e)
      BY <1>4, IncomingStarted DEF Started
    <3>5. ~ForwarderPushes(c) /\ \A a \in Conns : ~(ForwardAck(a) /\ waiter[a] = c)
      BY <3>4 DEF Incoming
    <3> QED
      BY <3>1, <3>2, <3>3, <3>5, EventSteps
  <2> DEFINE n == Len(inboxIDs[UserOf(c)])  m == Len(inboxIDs'[UserOf(c)])
             sum == Len(sendQ'[c]) + Len(outbox'[c])
  <2>5. n \in Nat /\ m \in Nat /\ n <= m /\ Len(w) + Len(o) <= n + 1
    BY <2>1, <2>2
  <2> HIDE DEF w, o, n, m
  <2>6. \/ sum = Len(w) + Len(o)
        \/ sum = (Len(w) + 1) + (Len(o) - 1)
        \/ sum = (Len(w) - 1) + Len(o)
    BY <2>3, <2>4
  <2> HIDE DEF sum
  <2>7. sum <= m + 1
    BY <2>3, <2>5, <2>6
  <2> QED
    BY <2>7 DEF sum, m
<1> QED
  BY <1>3, <1>4, EarlySteps

\* So while the inbox of its user is shorter than the send channel, a handler gets its
\* greeting out, whatever its client and its writer do.
THEOREM GreetingNeverWaits == Spec => []GreetingWaitsOnlyWhenFull
<1>1. Init => GreetingFits
  <2> SUFFICES ASSUME Init, NEW c \in Conns PROVE pc[c] # "greet"
    BY DEF GreetingFits
  <2> QED
    BY RelayAssumption DEF Init
<1>2. ServiceGood /\ Typed /\ Tracking /\ Shape /\ GreetingFits /\ [Next]_vars => GreetingFits'
  BY GreetingFitsStep DEF ServiceGood
<1>3. ServiceTypeOK /\ Typed /\ GreetingFits => GreetingWaitsOnlyWhenFull
  <2> SUFFICES ASSUME ServiceTypeOK, Typed, GreetingFits, NEW c \in Conns,
                      pc[c] = "greet", outbox[c] # <<>>, ~Room(c)
               PROVE  Len(inboxIDs[UserOf(c)]) >= SendCap
    BY DEF GreetingWaitsOnlyWhenFull
  <2>1. UserOf(c) \in Users
    BY Bindable DEF Typed, RelayTypeOK, Jobs
  <2>2. inboxIDs[UserOf(c)] \in Seq(MessageIDs)
    BY <2>1 DEF ServiceTypeOK
  <2>3. Len(inboxIDs[UserOf(c)]) \in Nat
    BY <2>2
  <2>4. /\ outbox[c] \in Seq(EventType) /\ sendQ[c] \in Seq(EventType)
    BY DEF Typed, RelayTypeOK
  <2>5. Len(outbox[c]) \in Nat \ {0} /\ Len(sendQ[c]) \in Nat
    BY <2>4
  <2>6. Len(sendQ[c]) + Len(outbox[c]) <= Len(inboxIDs[UserOf(c)]) + 1
    BY DEF GreetingFits
  <2>7. Len(sendQ[c]) >= SendCap /\ SendCap \in Nat
    BY <2>5, RelayAssumption DEF Room
  <2> DEFINE n == Len(inboxIDs[UserOf(c)])  a == Len(sendQ[c])  b == Len(outbox[c])
  <2> HIDE DEF n, a, b
  <2>8. n \in Nat /\ a \in Nat /\ b \in Nat \ {0} /\ a + b <= n + 1 /\ a >= SendCap
    <3>1. n \in Nat
      BY <2>3 DEF n
    <3>2. a \in Nat /\ b \in Nat \ {0}
      BY <2>5 DEF a, b
    <3>3. a + b <= n + 1
      BY <2>6 DEF a, b, n
    <3>4. a >= SendCap
      BY <2>7 DEF a
    <3> QED
      BY <3>1, <3>2, <3>3, <3>4
  <2>9. n >= SendCap
    BY <2>7, <2>8
  <2> QED
    BY <2>9 DEF n
<1> QED
  BY <1>1, <1>2, <1>3, ShapeAlways, PTL DEF Spec, ServiceGood

-----------------------------------------------------------------------------
(* What a sender hears of its message, from its acceptance to the end. *)

\* No handler is still sending message id.
Settled(id) == \A p \in Callers : Sending(p) => item[p].id # id

\* The client of c has, or will have, the acceptance of message id, and the last news
\* of it.
ToldAccepted(c, id) == \E e \in Listed(Outgoing(c)) : Accepts(e, id)
ToldEnd(c, id) == \E e \in Listed(Outgoing(c)) : e.kind = "ack" /\ e.id = id /\ Final(e)

\* Connection c is the one that hears of id: the hub waits on its behalf, or no more
\* because it was told the end; all this while its socket is up.
Accounted(c, id) ==
    /\ id \in Stored
    /\ Settled(id)
    /\ pendingAck[id] \in {c, None}
    /\ socket[c] = "up" => /\ ToldAccepted(c, id)
                           /\ pendingAck[id] = None => ToldEnd(c, id)

\* The hub forgets who waits only when that connection was told the end.
ClearsTold ==
    \A a \in Conns : pc[a] = "clear" =>
        /\ Settled(item[a].id)
        /\ \A c \in Conns :
              pendingAck[item[a].id] = c /\ socket[c] = "up" => ToldEnd(c, item[a].id)

Accounting ==
    /\ \A c \in Conns, id \in MessageIDs : pendingAck[id] = c => Accounted(c, id)
    /\ \A a \in Conns : pc[a] = "forward" => Accounted(waiter[a], item[a].id)
    /\ \A c \in Conns : \A e \in Listed(Outgoing(c)) : e.kind = "ack" => Accounted(c, e.id)
    /\ ClearsTold

\* While its socket is up a client keeps all it received or will receive.
LEMMA OutgoingKept ==
    ASSUME ServiceTypeOK, Typed, Shape, [Next]_vars, NEW c \in Conns, socket'[c] = "up"
    PROVE  Listed(Outgoing(c)) \subseteq Listed(Outgoing(c)')
<1>1. socket[c] = "up"
  BY SocketSteps
<1>2. ASSUME NEW k, NEW e, Inserted(Outgoing(c), k, e, Outgoing(c)')
      PROVE  Listed(Outgoing(c)) \subseteq Listed(Outgoing(c)')
  BY <1>2, OutgoingListed
<1>3. Outgoing(c) = <<>> => Listed(Outgoing(c)) = {}
  BY DEF Listed
<1> QED
  BY <1>1, <1>2, <1>3, OutgoingStep

\* So what it was told it goes on knowing.
LEMMA ToldKept ==
    ASSUME ServiceTypeOK, Typed, Shape, [Next]_vars, NEW c \in Conns, socket'[c] = "up", NEW id
    PROVE  /\ ToldAccepted(c, id) => ToldAccepted(c, id)'
           /\ ToldEnd(c, id) => ToldEnd(c, id)'
BY OutgoingKept DEF ToldAccepted, ToldEnd, Accepts, Final

\* A handler passes news on to the connection it read from the hub.
LEMMA ForwardSteps ==
    ASSUME ServiceTypeOK, Typed, [Next]_vars, NEW a \in Conns, pc'[a] = "forward"
    PROVE  /\ item'[a] = item[a] /\ waiter'[a] \in Conns
           /\ \/ pc[a] = "forward" /\ waiter'[a] = waiter[a]
              \/ pc[a] = "lookup" /\ waiter'[a] = pendingAck[item[a].id]
<1> Conns \subseteq Callers /\ None \notin Conns
  BY RelayAssumption
<1>1. CASE pc[a] = "forward" /\ item'[a] = item[a] /\ waiter'[a] = waiter[a]
  BY <1>1 DEF Typed, Jobs
<1>2. CASE /\ pc[a] = "lookup" /\ item'[a] = item[a]
           /\ waiter'[a] = pendingAck[item[a].id] /\ waiter'[a] # None
  <2>1. item[a].id \in MessageIDs
    BY <1>2 DEF Typed, Jobs, Acking, Message
  <2> QED
    BY <1>2, <2>1 DEF Typed, RelayTypeOK
<1>3. CASE OwnStep(a)
  <2>1. ~Routing(a)
    BY DEF Routing, Typed, RelayTypeOK
  <2> QED
    BY <1>2, <1>3, <2>1, OwnMove DEF Idle
<1> QED
  BY <1>1, <1>3, OwnSteps

\* It ends with the hub when the news was the last.
LEMMA ClearSteps ==
    ASSUME ServiceTypeOK, Typed, [Next]_vars, NEW a \in Conns, pc'[a] = "clear"
    PROVE  /\ item'[a] = item[a]
           /\ \/ pc[a] = "clear"
              \/ pc[a] = "forward" /\ ForwardAck(a) /\ Final(item[a])
<1> Conns \subseteq Callers
  BY RelayAssumption
<1>1. CASE OwnStep(a)
  <2>1. ~Routing(a)
    BY DEF Routing, Typed, RelayTypeOK
  <2>2. pc[a] = "forward" /\ item'[a] = item[a] /\ Final(item[a])
    BY <1>1, <2>1, OwnMove DEF Idle
  <2>3. ForwardAck(a)
    BY <1>1, <2>2
       DEF OwnStep, SendStep, StoreItem, SendReturned, OfferPanics, HttpSend, ConnStep, Bind,
           OpenStream, ListMailbox, StartPumps, Push, ReadSend, TrackPendingAck, ReadAck,
           LookupPending, ClearPending, ReadOther, ReadFails, Unbind, CancelStream, Go
  <2> QED
    BY <2>2, <2>3
<1> QED
  BY <1>1, OwnSteps

\* A connection hears of a message when its own handler stored it, and when another
\* handler passes on the news.
LEMMA AckSources ==
    ASSUME ServiceTypeOK, Typed, Shape, [Next]_vars, NEW c \in Conns,
           NEW e \in Listed(Outgoing(c)'), e.kind = "ack"
    PROVE  \/ e \in Listed(Outgoing(c))
           \/ TrackPendingAck(c) /\ e = About("ack", [item[c] EXCEPT !.status = "accepted"])
           \/ \E a \in Conns : ForwardAck(a) /\ waiter[a] = c /\ e = About("ack", item[a])
<1>1. CASE Incoming(c, e)
  BY <1>1 DEF Incoming, Plain, About
<1>2. ASSUME NEW x, NEW k, Incoming(c, x), Inserted(Outgoing(c), k, x, Outgoing(c)')
      PROVE  e \in Listed(Outgoing(c)) \/ Incoming(c, e)
  BY <1>2, OutgoingListed
<1>3. ASSUME NEW x, NEW k, Inserted(Outgoing(c)', k, x, Outgoing(c))
      PROVE  e \in Listed(Outgoing(c))
  BY <1>3, OutgoingListed
<1>4. ~(ListMailbox(c) /\ Outgoing(c)' = Greeting(c))
  BY GreetingKinds
<1> QED
  BY <1>1, <1>2, <1>3, <1>4, OutgoingStep

\* Its own handler's answer is the acceptance; from then on the hub knows who waits,
\* and nobody sends the message any more.
LEMMA TrackAccounts ==
    ASSUME ServiceTypeOK, Typed, Tracking, Shape, [Next]_vars, NEW c \in Conns, TrackPendingAck(c),
           NEW id, id = item[c].id
    PROVE  /\ pendingAck' = [pendingAck EXCEPT ![id] = c]
           /\ id \in MessageIDs
           /\ Accounted(c, id)'
<1> Conns \subseteq Callers /\ None \notin Conns
  BY RelayAssumption
<1> DEFINE e == About("ack", [item[c] EXCEPT !.status = "accepted"])
<1>1. /\ pc[c] = "track" /\ pc' = [pc EXCEPT ![c] = "reply"]
      /\ pendingAck' = [pendingAck EXCEPT ![id] = c]
      /\ item[c] \in Message
      /\ UNCHANGED storeVars
  BY DEF TrackPendingAck, Go, Typed, Jobs, serviceVars
<1>2. id \in MessageIDs /\ Agrees(item[c]) /\ Sending(c)
  BY <1>1 DEF Message, Tracking, ItemsAgree, Idle, Sending
<1>3. id \in Stored' /\ pendingAck'[id] = c /\ ~(Sending(c)')
  BY <1>1, <1>2 DEF Agrees, Stored, storeVars, Typed, RelayTypeOK, Sending
<1>4. ASSUME NEW p \in Callers, Sending(p)' PROVE item'[p].id # id
  <2>1. CASE Sending(p) /\ item'[p] = item[p]
    BY <1>2, <1>3, <1>4, <2>1 DEF Tracking, FreshItems
  <2>2. CASE Routing(p)
    <3>1. PICK m \in NewItems : item' = [item EXCEPT ![p] = m] /\ m.id \notin Stored
      BY <2>2 DEF Routing
    <3>2. item'[p] = m
      BY <3>1 DEF Typed, RelayTypeOK
    <3> QED
      BY <1>2, <3>1, <3>2 DEF Agrees
  <2> QED
    BY <1>4, <2>1, <2>2, SendingSteps
<1>5. e \in EventType /\ Accepts(e, id)
  <2>1. [item[c] EXCEPT !.status = "accepted"] \in Message
    BY <1>1 DEF Message, Statuses
  <2>2. Accepts(e, id)
    BY <1>1 DEF Accepts, About, Message
  <2> QED
    BY <2>1, <2>2, EventTypes
<1>6. /\ wire'[c] = wire[c] /\ sendQ'[c] = sendQ[c]
      /\ outbox[c] = <<>> /\ outbox'[c] = <<e>>
  BY <1>1 DEF TrackPendingAck, Answer, netVars, Typed, RelayTypeOK, Shape, Outboxes
<1> HIDE DEF e
<1>7. e \in Listed(Outgoing(c)')
  <2>1. Inserted(Outgoing(c), Len(wire[c] \o sendQ[c]) + 1, e, Outgoing(c)')
    BY <1>5, <1>6, AnswerInserted
  <2>2. Listed(Outgoing(c)') = Listed(Outgoing(c)) \cup {e}
    BY <2>1, OutgoingListed
  <2> QED
    BY <2>2
<1>8. ToldAccepted(c, id)'
  <2>1. PICK x : x = e
    OBVIOUS
  <2>2. x \in Listed(Outgoing(c)') /\ Accepts(x, id)
    BY <1>5, <1>7, <2>1
  <2> QED
    BY <2>2 DEF ToldAccepted, Accepts
<1>9. Settled(id)'
  BY <1>4 DEF Settled, Sending
<1>10. Accounted(c, id)'
  BY <1>3, <1>8, <1>9 DEF Accounted
<1> QED
  BY <1>1, <1>2, <1>10

\* A stored message that nobody sends is not sent again.
LEMMA SettledKept ==
    ASSUME ServiceTypeOK, Typed, FreshItems, [Next]_vars, NEW id \in Stored, Settled(id)
    PROVE  id \in Stored' /\ Settled(id)'
<1>1. ASSUME NEW p \in Callers, Sending(p)' PROVE item'[p].id # id
  <2>1. CASE Sending(p) /\ item'[p] = item[p]
    BY <2>1 DEF Settled
  <2>2. CASE Routing(p)
    <3>1. PICK m \in NewItems : item' = [item EXCEPT ![p] = m] /\ m.id \notin Stored
      BY <2>2 DEF Routing
    <3>2. item'[p] = m
      BY <3>1 DEF Typed, RelayTypeOK
    <3> QED
      BY <3>1, <3>2
  <2> QED
    BY <1>1, <2>1, <2>2, SendingSteps
<1>2. Settled(id)'
  BY <1>1 DEF Settled, Sending
<1> QED
  BY <1>2, RecordsKept

\* For such a message the hub can only forget who waits.
LEMMA SettledPending ==
    ASSUME ServiceTypeOK, Typed, [Next]_vars, NEW id \in MessageIDs, Settled(id)
    PROVE  \/ pendingAck'[id] = pendingAck[id]
           \/ /\ pendingAck'[id] = None
              /\ \E a \in Conns : pc[a] = "clear" /\ item[a].id = id
<1> Conns \subseteq Callers
  BY RelayAssumption
<1>1. pendingAck = [i \in MessageIDs |-> pendingAck[i]]
  BY DEF Typed, RelayTypeOK
<1>2. ASSUME NEW x \in Conns, TrackPendingAck(x) PROVE pendingAck'[id] = pendingAck[id]
  <2>1. pc[x] = "track" /\ pendingAck' = [pendingAck EXCEPT ![item[x].id] = x]
    BY <1>2 DEF TrackPendingAck, Go
  <2>2. item[x].id # id
    BY <2>1 DEF Settled, Sending
  <2> QED
    BY <1>1, <2>1, <2>2
<1>3. ASSUME NEW x \in Conns, ClearPending(x)
      PROVE  \/ pendingAck'[id] = pendingAck[id]
             \/ pendingAck'[id] = None /\ pc[x] = "clear" /\ item[x].id = id
  BY <1>1, <1>3 DEF ClearPending, Go
<1> QED
  BY <1>2, <1>3, PendingSteps

\* Who hears of a message goes on being the one who does.
LEMMA AccountedKept ==
    ASSUME ServiceTypeOK, Typed, Tracking, Shape, ClearsTold, [Next]_vars,
           NEW c \in Conns, NEW id, Accounted(c, id)
    PROVE  Accounted(c, id)'
<1>1. id \in Stored /\ Settled(id) /\ pendingAck[id] \in {c, None}
  BY DEF Accounted
<1>2. id \in Stored' /\ Settled(id)'
  BY <1>1, SettledKept DEF Tracking
<1>3. id \in MessageIDs
  BY <1>1 DEF Stored, ServiceTypeOK
<1>4. pendingAck'[id] \in {c, None}
  BY <1>1, <1>3, SettledPending
<1>5. ASSUME socket'[c] = "up"
      PROVE  ToldAccepted(c, id)' /\ (pendingAck'[id] = None => ToldEnd(c, id)')
  <2>1. socket[c] = "up"
    BY <1>5, SocketSteps
  <2>2. ToldAccepted(c, id) /\ (pendingAck[id] = None => ToldEnd(c, id))
    BY <2>1 DEF Accounted
  <2>3. ASSUME pendingAck'[id] = None PROVE ToldEnd(c, id)
    <3>1. CASE pendingAck[id] = None
      BY <2>2, <3>1
    <3>2. ASSUME NEW a \in Conns, pc[a] = "clear", item[a].id = id, pendingAck[id] = c
          PROVE  ToldEnd(c, id)
      BY <2>1, <3>2 DEF ClearsTold
    <3> QED
      BY <1>1, <1>3, <2>3, <3>1, <3>2, SettledPending
  <2> QED
    BY <1>5, <2>2, <2>3, ToldKept
<1> QED
  BY <1>2, <1>4, <1>5 DEF Accounted

\* A handler that passes on the last news tells the one who waits the end.
LEMMA ForwardTells ==
    ASSUME ServiceTypeOK, Typed, [Next]_vars, NEW a \in Conns, ForwardAck(a), Final(item[a]),
           NEW c \in Conns, c = waiter[a], NEW id, id = item[a].id
    PROVE  ToldEnd(c, id)' /\ pendingAck' = pendingAck
<1> Conns \subseteq Callers
  BY RelayAssumption
<1>1. PICK e : e = About("ack", item[a])
  OBVIOUS
<1>2. item[a] \in Message
  BY DEF ForwardAck, Go, Typed, Jobs, Acking
<1>3. e \in EventType
  BY <1>1, <1>2, EventTypes
<1>4. e.kind = "ack" /\ e.id = id /\ Final(e)
  BY <1>1 DEF About, Final
<1>5. /\ wire'[c] = wire[c] /\ sendQ'[c] = Append(sendQ[c], e) /\ outbox'[c] = outbox[c]
      /\ pendingAck' = pendingAck
  BY <1>1 DEF ForwardAck, Told, netVars, hubVars, Typed, RelayTypeOK
<1>6. Inserted(Outgoing(c), Len(wire[c] \o sendQ[c]) + 1, e, Outgoing(c)')
  BY <1>3, <1>5, QueuedInserted
<1>7. Listed(Outgoing(c)') = Listed(Outgoing(c)) \cup {e}
  BY <1>6, OutgoingListed
<1>8. e \in Listed(Outgoing(c)')
  BY <1>7
<1>9. ToldEnd(c, id)'
  BY <1>4, <1>8 DEF ToldEnd, Final
<1> QED
  BY <1>5, <1>9

\* The hub waits only on behalf of connections that were told of the acceptance.
LEMMA PendingAccounted ==
    ASSUME ServiceTypeOK, Typed, Tracking, Shape, Accounting, [Next]_vars,
           NEW c \in Conns, NEW id \in MessageIDs, pendingAck'[id] = c
    PROVE  Accounted(c, id)'
<1> None \notin Conns
  BY RelayAssumption
<1>1. pendingAck = [i \in MessageIDs |-> pendingAck[i]]
  BY DEF Typed, RelayTypeOK
<1>2. CASE pendingAck'[id] = pendingAck[id]
  BY <1>2, AccountedKept DEF Accounting
<1>3. ASSUME NEW x \in Conns, TrackPendingAck(x), pendingAck'[id] # pendingAck[id]
      PROVE  Accounted(c, id)'
  <2>1. PICK i : i = item[x].id
    OBVIOUS
  <2>2. pendingAck' = [pendingAck EXCEPT ![i] = x] /\ Accounted(x, i)'
    BY <1>3, <2>1, TrackAccounts
  <2>3. id = i /\ c = x
    BY <1>1, <1>3, <2>2
  <2> QED
    BY <2>2, <2>3
<1>4. ASSUME NEW x \in Conns, ClearPending(x)
      PROVE  pendingAck'[id] = pendingAck[id]
  <2>1. pendingAck' = [pendingAck EXCEPT ![item[x].id] = None]
    BY <1>4 DEF ClearPending
  <2> QED
    BY <1>1, <2>1
<1> QED
  BY <1>2, <1>3, <1>4, PendingSteps

\* So do the handlers that pass on news.
LEMMA ForwardAccounted ==
    ASSUME ServiceTypeOK, Typed, Tracking, Shape, Accounting, [Next]_vars,
           NEW a \in Conns, pc'[a] = "forward",
           NEW c, c = waiter'[a], NEW id, id = item'[a].id
    PROVE  Accounted(c, id)'
<1> Conns \subseteq Callers
  BY RelayAssumption
<1>1. c \in Conns /\ id = item[a].id
  BY ForwardSteps
<1>2. CASE pc[a] = "forward" /\ waiter'[a] = waiter[a]
  <2>1. Accounted(c, id)
    BY <1>1, <1>2 DEF Accounting
  <2> QED
    BY <1>1, <2>1, AccountedKept DEF Accounting
<1>3. CASE pc[a] = "lookup" /\ waiter'[a] = pendingAck[item[a].id]
  <2>1. id \in MessageIDs
    BY <1>1, <1>3 DEF Typed, Jobs, Acking, Message
  <2>2. Accounted(c, id)
    BY <1>1, <1>3, <2>1 DEF Accounting
  <2> QED
    BY <1>1, <2>2, AccountedKept DEF Accounting
<1> QED
  BY <1>2, <1>3, ForwardSteps

\* All that a client hears of a message comes to the connection that sent it.
LEMMA AcksAccounted ==
    ASSUME ServiceTypeOK, Typed, Tracking, Shape, Accounting, [Next]_vars,
           NEW c \in Conns, NEW e \in Listed(Outgoing(c)'), e.kind = "ack"
    PROVE  Accounted(c, e.id)'
<1> Conns \subseteq Callers
  BY RelayAssumption
<1>1. CASE e \in Listed(Outgoing(c))
  <2>1. Accounted(c, e.id)
    BY <1>1 DEF Accounting
  <2> QED
    BY <2>1, AccountedKept DEF Accounting
<1>2. CASE TrackPendingAck(c) /\ e = About("ack", [item[c] EXCEPT !.status = "accepted"])
  <2>1. item[c] \in Message
    BY <1>2 DEF TrackPendingAck, Go, Typed, Jobs
  <2>2. e.id = item[c].id
    BY <1>2, <2>1 DEF About, Message
  <2> QED
    BY <1>2, <2>2, TrackAccounts
<1>3. ASSUME NEW a \in Conns, ForwardAck(a), waiter[a] = c, e = About("ack", item[a])
      PROVE  Accounted(c, e.id)'
  <2>1. pc[a] = "forward" /\ e.id = item[a].id
    BY <1>3 DEF ForwardAck, Go, About
  <2>2. Accounted(c, e.id)
    BY <1>3, <2>1 DEF Accounting
  <2> QED
    BY <2>2, AccountedKept DEF Accounting
<1> QED
  BY <1>1, <1>2, <1>3, AckSources

\* A handler that is about to end the wait has told the end.
LEMMA ClearAccounted ==
    ASSUME ServiceTypeOK, Typed, Tracking, Shape, Accounting, [Next]_vars,
           NEW a \in Conns, pc'[a] = "clear", NEW id, id = item'[a].id
    PROVE  /\ Settled(id)'
           /\ \A c \in Conns : pendingAck'[id] = c /\ socket'[c] = "up" => ToldEnd(c, id)'
<1> Conns \subseteq Callers /\ None \notin Conns
  BY RelayAssumption
<1>1. id = item[a].id
  BY ClearSteps
<1>2. CASE pc[a] = "clear"
  <2>1. id \in Stored /\ Settled(id)
    BY <1>1, <1>2 DEF Tracking, ItemsAgree, Agrees, Idle, Accounting, ClearsTold
  <2>2. id \in MessageIDs
    BY <2>1 DEF ServiceTypeOK
  <2>3. ASSUME NEW c \in Conns, pendingAck'[id] = c, socket'[c] = "up"
        PROVE  ToldEnd(c, id)'
    <3>1. pendingAck[id] = c /\ socket[c] = "up"
      BY <2>1, <2>2, <2>3, SettledPending, SocketSteps
    <3>2. ToldEnd(c, id)
      BY <1>1, <1>2, <3>1 DEF Accounting, ClearsTold
    <3> QED
      BY <2>3, <3>2, ToldKept
  <2> QED
    BY <2>1, <2>3, SettledKept DEF Tracking
<1>3. CASE pc[a] = "forward" /\ ForwardAck(a) /\ Final(item[a])
  <2>1. PICK w \in Conns : w = waiter[a]
    BY <1>3 DEF Tracking, WaitersKnown, Typed, RelayTypeOK
  <2>2. Accounted(w, id)
    BY <1>1, <1>3, <2>1 DEF Accounting
  <2>3. Settled(id)'
    BY <2>2, SettledKept DEF Accounted, Tracking
  <2>4. ToldEnd(w, id)' /\ pendingAck' = pendingAck
    BY <1>1, <1>3, <2>1, ForwardTells
  <2>5. ASSUME NEW c \in Conns, pendingAck'[id] = c PROVE c = w
    BY <2>2, <2>4, <2>5 DEF Accounted
  <2> QED
    BY <2>3, <2>4, <2>5
<1> QED
  BY <1>2, <1>3, ClearSteps

LEMMA AccountingInit == Init => Accounting
<1> SUFFICES ASSUME Init PROVE Accounting
  OBVIOUS
<1> USE DEF Init
<1> None \notin Conns /\ Conns \subseteq Callers
  BY RelayAssumption
<1>1. \A c \in Conns, id \in MessageIDs : pendingAck[id] # c
  OBVIOUS
<1>2. \A a \in Conns : pc[a] = "new"
  OBVIOUS
<1>3. \A c \in Conns : Listed(Outgoing(c)) = {}
  BY DEF Listed, Outgoing
<1>4. ClearsTold
  BY <1>2 DEF ClearsTold
<1> QED
  BY <1>1, <1>2, <1>3, <1>4 DEF Accounting

LEMMA AccountingStep ==
    ASSUME ServiceTypeOK, Typed, Tracking, Shape, Accounting, [Next]_vars
    PROVE  Accounting'
<1>1. ASSUME NEW c \in Conns, NEW id \in MessageIDs, pendingAck'[id] = c
      PROVE  Accounted(c, id)'
  BY <1>1, PendingAccounted
<1>2. ASSUME NEW a \in Conns, pc'[a] = "forward"
      PROVE  Accounted(waiter[a], item[a].id)'
  <2>1. PICK c, id : c = waiter'[a] /\ id = item'[a].id
    OBVIOUS
  <2>2. Accounted(c, id)'
    BY <1>2, <2>1, ForwardAccounted
  <2> QED
    BY <2>1, <2>2 DEF Accounted, Settled, ToldAccepted, ToldEnd, Accepts, Outgoing
<1>3. ASSUME NEW c \in Conns, NEW e \in Listed(Outgoing(c)'), e.kind = "ack"
      PROVE  Accounted(c, e.id)'
  BY <1>3, AcksAccounted
<1>4. ASSUME NEW a \in Conns, pc'[a] = "clear"
      PROVE  /\ Settled(item[a].id)'
             /\ \A c \in Conns : (pendingAck[item[a].id] = c /\ socket[c] = "up"
                                     => ToldEnd(c, item[a].id))'
  <2>1. PICK id : id = item'[a].id
    OBVIOUS
  <2>2. /\ Settled(id)'
        /\ \A c \in Conns : pendingAck'[id] = c /\ socket'[c] = "up" => ToldEnd(c, id)'
    BY <1>4, <2>1, ClearAccounted
  <2> QED
    BY <2>1, <2>2 DEF Settled, ToldEnd, Outgoing
<1>5. ClearsTold'
  BY <1>4 DEF ClearsTold
<1> QED
  BY <1>1, <1>2, <1>3, <1>5 DEF Accounting

LEMMA AccountingAlways == Spec => []Accounting
<1>1. ServiceGood /\ Typed /\ Tracking /\ Shape /\ Accounting /\ [Next]_vars => Accounting'
  BY AccountingStep DEF ServiceGood
<1> QED
  BY <1>1, AccountingInit, ShapeAlways, PTL DEF Spec

\* A client that hears of a message has, or is going to get, its acceptance: news can
\* overtake the acceptance, which the run of AcceptedFirst shows, but never replaces it.
NewsComesWithAcceptance ==
    \A c \in Conns : socket[c] = "up" =>
        \A e \in Listed(Outgoing(c)) : e.kind = "ack" => ToldAccepted(c, e.id)

\* No acceptance is lost or forgotten: TrackPendingAck answers in the step that makes
\* the connection the one others pass news to, and nothing takes back an answer.
THEOREM AcceptanceNotLost == Spec => []NewsComesWithAcceptance
<1>1. Accounting => NewsComesWithAcceptance
  BY DEF Accounting, Accounted, NewsComesWithAcceptance
<1> QED
  BY <1>1, AccountingAlways, PTL

\* The hub forgets that a client waits for news of its message only after it was told
\* the end of it: "read" or "failed".
WaitEndsWithTheEnd ==
    \A c \in Conns : socket[c] = "up" =>
        \A e \in Listed(Outgoing(c)) : e.kind = "ack" =>
            pendingAck[e.id] = c \/ ToldEnd(c, e.id)

\* ForwardAck and ClearPending are two steps: whatever other handlers, of the same
\* message too, do in between, the entry that ClearPending removes is one whose
\* connection has the last news, and no other connection takes the entry over.
THEOREM ForgottenOnlyAtEnd == Spec => []WaitEndsWithTheEnd
<1>1. Accounting => WaitEndsWithTheEnd
  BY DEF Accounting, Accounted, WaitEndsWithTheEnd
<1> QED
  BY <1>1, AccountingAlways, PTL

\* Connection c hears of message id, or is going to.
Hears(c, id) ==
    \/ pendingAck[id] = c
    \/ \E a \in Conns : pc[a] = "forward" /\ item[a].id = id /\ waiter[a] = c
    \/ \E e \in Listed(Outgoing(c)) : e.kind = "ack" /\ e.id = id

OneHearer ==
    \A id \in MessageIDs, c, d \in Conns : Hears(c, id) /\ Hears(d, id) => c = d

\* Only the handler that sends a message makes its connection hear of it.
LEMMA HearsSteps ==
    ASSUME ServiceTypeOK, Typed, Shape, [Next]_vars,
           NEW c \in Conns, NEW id \in MessageIDs, Hears(c, id)'
    PROVE  Hears(c, id) \/ (TrackPendingAck(c) /\ id = item[c].id)
<1> Conns \subseteq Callers /\ None \notin Conns
  BY RelayAssumption
<1>1. CASE pendingAck'[id] = c
  <2>1. pendingAck = [i \in MessageIDs |-> pendingAck[i]]
    BY DEF Typed, RelayTypeOK
  <2>2. CASE pendingAck'[id] = pendingAck[id]
    BY <1>1, <2>2 DEF Hears
  <2>3. ASSUME NEW x \in Conns, TrackPendingAck(x), pendingAck'[id] # pendingAck[id]
        PROVE  TrackPendingAck(c) /\ id = item[c].id
    <3>1. pendingAck' = [pendingAck EXCEPT ![item[x].id] = x]
      BY <2>3 DEF TrackPendingAck
    <3> QED
      BY <1>1, <2>1, <2>3, <3>1
  <2>4. ASSUME NEW x \in Conns, ClearPending(x)
        PROVE  pendingAck'[id] = pendingAck[id]
    <3>1. pendingAck' = [pendingAck EXCEPT ![item[x].id] = None]
      BY <2>4 DEF ClearPending
    <3> QED
      BY <1>1, <2>1, <3>1
  <2> QED
    BY <2>2, <2>3, <2>4, PendingSteps
<1>2. ASSUME NEW a \in Conns, pc'[a] = "forward", item'[a].id = id, waiter'[a] = c
      PROVE  Hears(c, id)
  BY <1>2, ForwardSteps DEF Hears
<1>3. ASSUME NEW e \in Listed(Outgoing(c)'), e.kind = "ack", e.id = id
      PROVE  Hears(c, id) \/ (TrackPendingAck(c) /\ id = item[c].id)
  <2>1. CASE e \in Listed(Outgoing(c))
    BY <1>3, <2>1 DEF Hears
  <2>2. CASE TrackPendingAck(c) /\ e = About("ack", [item[c] EXCEPT !.status = "accepted"])
    <3>1. item[c] \in Message
      BY <2>2 DEF TrackPendingAck, Go, Typed, Jobs
    <3> QED
      BY <1>3, <2>2, <3>1 DEF About, Message
  <2>3. ASSUME NEW a \in Conns, ForwardAck(a), waiter[a] = c, e = About("ack", item[a])
        PROVE  Hears(c, id)
    BY <1>3, <2>3 DEF ForwardAck, Go, About, Hears
  <2> QED
    BY <1>3, <2>1, <2>2, <2>3, AckSources
<1> QED
  BY <1>1, <1>2, <1>3 DEF Hears

\* When it does, nobody hears of the message yet.
LEMMA OneHearerStep ==
    ASSUME ServiceTypeOK, Typed, Shape, Accounting, OneHearer, [Next]_vars
    PROVE  OneHearer'
<1> SUFFICES ASSUME NEW id \in MessageIDs, NEW c \in Conns, NEW d \in Conns,
                    Hears(c, id)', Hears(d, id)'
             PROVE  c = d
  BY DEF OneHearer
<1> Conns \subseteq Callers
  BY RelayAssumption
<1>1. ASSUME NEW x \in Conns, Hears(x, id) PROVE Settled(id)
  BY <1>1 DEF Hears, Accounting, Accounted
<1>2. ASSUME NEW x \in Conns, TrackPendingAck(x), id = item[x].id PROVE ~Settled(id)
  BY <1>2 DEF TrackPendingAck, Go, Settled, Sending
<1>3. ASSUME TrackPendingAck(c), TrackPendingAck(d) PROVE c = d
  BY <1>3 DEF TrackPendingAck, Go, Typed, RelayTypeOK
<1>4. Hears(c, id) \/ (TrackPendingAck(c) /\ id = item[c].id)
  BY HearsSteps
<1>5. Hears(d, id) \/ (TrackPendingAck(d) /\ id = item[d].id)
  BY HearsSteps
<1> QED
  BY <1>1, <1>2, <1>3, <1>4, <1>5 DEF OneHearer

\* News of a message, its acceptance included, goes to one connection and no other.
NewsToOneConnection ==
    \A c, d \in Conns : \A e \in Listed(Outgoing(c)), f \in Listed(Outgoing(d)) :
        e.kind = "ack" /\ f.kind = "ack" /\ e.id = f.id => c = d

\* Whoever races to acknowledge it, and however often its user connects: the entry that
\* TrackPendingAck makes is the only one the message ever has.
THEOREM HeardByOne == Spec => []NewsToOneConnection
<1>1. Init => OneHearer
  <2> SUFFICES ASSUME Init PROVE OneHearer
    OBVIOUS
  <2> None \notin Conns /\ Conns \subseteq Callers
    BY RelayAssumption
  <2>1. \A c \in Conns : Outgoing(c) = <<>>
    BY DEF Init, Outgoing
  <2> QED
    BY <2>1 DEF Init, OneHearer, Hears, Listed
<1>2. ServiceTypeOK /\ Typed /\ Shape /\ Accounting /\ OneHearer /\ [Next]_vars => OneHearer'
  BY OneHearerStep
<1>3. ServiceTypeOK /\ Accounting /\ OneHearer => NewsToOneConnection
  <2> SUFFICES ASSUME ServiceTypeOK, Accounting, OneHearer, NEW c \in Conns, NEW d \in Conns,
                      NEW e \in Listed(Outgoing(c)), NEW f \in Listed(Outgoing(d)),
                      e.kind = "ack", f.kind = "ack", e.id = f.id
               PROVE  c = d
    BY DEF NewsToOneConnection
  <2>1. e.id \in MessageIDs
    BY DEF Accounting, Accounted, ServiceTypeOK
  <2> QED
    BY <2>1 DEF OneHearer, Hears
<1> QED
  BY <1>1, <1>2, <1>3, ShapeAlways, AccountingAlways, PTL DEF Spec, ServiceGood

-----------------------------------------------------------------------------
(* Why a handler panics. *)

\* A stream is the one its connection opened, for its own user and device.
StreamsOwned ==
    \A c \in Conns : c \in DOMAIN subscriber =>
        /\ pc[c] \notin {"new", "subscribe"}
        /\ subscriber[c].user = UserOf(c)
        /\ subscriber[c].device = DeviceOf(c)

LEMMA StreamsOwnedStep ==
    ASSUME ServiceTypeOK, Typed, StreamsOwned, [Next]_vars
    PROVE  StreamsOwned'
<1> SUFFICES ASSUME NEW c \in Conns, c \in DOMAIN subscriber'
             PROVE  /\ pc'[c] \notin {"new", "subscribe"}
                    /\ subscriber'[c].user = UserOf(c)'
                    /\ subscriber'[c].device = DeviceOf(c)'
  BY DEF StreamsOwned
<1> c \in Callers
  BY RelayAssumption
<1>1. UserOf(c)' = UserOf(c) /\ DeviceOf(c)' = DeviceOf(c)
  BY OwnSteps DEF UserOf, DeviceOf
<1>2. CASE OpenStream(c)
  <2>1. pc'[c] = "list"
    BY <1>2 DEF OpenStream, Go, Typed, RelayTypeOK
  <2>2. subscriber'[c] = [user |-> UserOf(c), device |-> DeviceOf(c), open |-> TRUE, buf |-> <<>>]
    BY <1>2 DEF OpenStream, Subscribe
  <2> QED
    BY <1>1, <2>1, <2>2
<1>3. CASE ~OpenStream(c)
  <2>1. subscriber \in [DOMAIN subscriber -> Subscription]
    BY DEF ServiceTypeOK, Subscription
  <2>2. /\ c \in DOMAIN subscriber
        /\ subscriber'[c].user = subscriber[c].user
        /\ subscriber'[c].device = subscriber[c].device
    <3>1. CASE CancelStream(c)
      BY <2>1, <3>1 DEF CancelStream, Cancel, Subscription
    <3>2. CASE ForwarderTakes(c)
      BY <2>1, <3>2 DEF ForwarderTakes, Receive, Subscription
    <3>3. ASSUME NEW t \in Callers, FanOutDeliver(t, c)
          PROVE  /\ c \in DOMAIN subscriber
                 /\ subscriber'[c].user = subscriber[c].user
                 /\ subscriber'[c].device = subscriber[c].device
      BY <2>1, <3>3 DEF FanOutDeliver, Subscription
    <3>4. CASE subscriber'[c] = subscriber[c] /\ c \in DOMAIN subscriber
      BY <3>4
    <3> QED
      BY <1>3, <3>1, <3>2, <3>3, <3>4, StreamSteps
  <2>3. pc[c] \notin {"new", "subscribe"}
    BY <2>2 DEF StreamsOwned
  <2>4. pc'[c] \notin {"new", "subscribe"}
    BY <2>3, EarlySteps
  <2> QED
    BY <1>1, <2>2, <2>4 DEF StreamsOwned
<1> QED
  BY <1>2, <1>3

LEMMA StreamsOwnedAlways == Spec => []StreamsOwned
<1>1. Init => StreamsOwned
  BY DEF Init, ServiceInit, StreamsOwned
<1>2. ServiceTypeOK /\ Typed /\ StreamsOwned /\ [Next]_vars => StreamsOwned'
  BY StreamsOwnedStep
<1> QED
  BY <1>1, <1>2, TypedAlways, PTL DEF Spec

\* A handler or request whose Send panicked met a connection of the recipient that has
\* come to its end.
PanicMeetsLeaver ==
    \A p \in panicked : \E c \in sends[p].todo :
        /\ c \in Conns /\ pc[c] = "done"
        /\ UserOf(c) = sends[p].msg.recipient
        /\ ShouldDeliver(sends[p].msg, DeviceOf(c))

\* While no connection of the recipient ends, no Send to it panics: neither a full
\* stream, nor a session that replaces or unbinds another, makes one.
THEOREM PanicOnlyByLeaver == Spec => []PanicMeetsLeaver
<1>1. /\ ServiceTypeOK /\ StreamsAddressed /\ Shape /\ StreamsOwned /\ PanickedAtCancelled
      => PanicMeetsLeaver
  <2> SUFFICES ASSUME ServiceTypeOK, StreamsAddressed, Shape, StreamsOwned, PanickedAtCancelled,
                      NEW p \in panicked
               PROVE  \E c \in sends[p].todo :
                         /\ c \in Conns /\ pc[c] = "done"
                         /\ UserOf(c) = sends[p].msg.recipient
                         /\ ShouldDeliver(sends[p].msg, DeviceOf(c))
    BY DEF PanicMeetsLeaver
  <2>1. PICK c \in sends[p].todo :
           c \in DOMAIN subscriber /\ Wanted(p, c) /\ ~subscriber[c].open
    BY DEF PanickedAtCancelled
  <2>2. c \in Conns /\ p \in DOMAIN sends
    BY <2>1 DEF ServiceTypeOK, Conns
  <2>3. pc[c] = "done"
    BY <2>1, <2>2 DEF Shape, OwnStream, StreamsOwned
  <2>4. UserOf(c) = sends[p].msg.recipient /\ ShouldDeliver(sends[p].msg, DeviceOf(c))
    BY <2>1, <2>2 DEF StreamsAddressed, StreamsOwned, Wanted
  <2> QED
    BY <2>2, <2>3, <2>4
<1>2. Spec => []PanickedAtCancelled
  BY RelayUsesService, PanicNeedsCancel, PTL
<1> QED
  BY <1>1, <1>2, ShapeAlways, StreamsOwnedAlways, PTL DEF ServiceGood

=============================================================================
