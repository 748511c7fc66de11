---------------------------- MODULE WsRelayProofs ----------------------------
(***************************************************************************)
(* The relay keeps its types, uses the message service only by its         *)
(* methods, and its hub names bound connections, for every set of users,   *)
(* devices, ids and connections, every scenario and all capacities.        *)
(***************************************************************************)
EXTENDS WsRelay, MessageServiceProofs

\* The handler of p works on a message it sends, or on one that was acknowledged.
Sending(p) == pc[p] \in {"store", "fanout", "track"}
Acking(c) == pc[c] \in {"lookup", "forward", "clear"}

NewItems == {NewMessage(id, from, to, d, online) :
                id \in MessageIDs, from \in Users, to \in Users,
                d \in DeviceRefs, online \in BOOLEAN}

\* A connection that came binds a device, and a handler has in hand what it works on.
Jobs ==
    /\ \A c \in Conns : pc[c] # "new" => c \in DOMAIN scenario.device
    /\ \A p \in Callers : pc[p] = "store" => item[p] \in NewItems
    /\ \A p \in Callers : pc[p] \in {"fanout", "track"} => item[p] \in Message
    /\ \A c \in Conns : Acking(c) => item[c] \in Message
    /\ \A c \in Conns : pc[c] = "forward" => waiter[c] \in Conns

-----------------------------------------------------------------------------
(* Types. *)

\* A connection that binds is one of a device of a user.
LEMMA Bindable ==
    ASSUME scenario \in Scenarios, NEW c \in Conns, c \in DOMAIN scenario.device
    PROVE  DeviceOf(c) \in Devices /\ DeviceOf(c) \in DeviceRefs /\ UserOf(c) \in Users
<1>1. scenario \in Scenario
  BY RelayAssumption
<1>2. PICK C \in SUBSET Conns : scenario.device \in [C -> Devices]
  BY <1>1 DEF Scenario
<1>3. scenario.device[c] \in Devices
  BY <1>2
<1> QED
  BY <1>3, RelayAssumption DEF DeviceOf, UserOf, DeviceRefs

\* Events have their type.
LEMMA EventTypes ==
    /\ \A m \in Message, kind \in {"mailbox", "deliver", "ack"} : About(kind, m) \in EventType
    /\ \A kind \in {"bound", "reply"} : Plain(kind) \in EventType
BY DEF About, Plain, EventType, Message, DeviceRefs

\* A new message is a message.
LEMMA NewItemType == NewItems \subseteq Message
BY NewMessageType DEF NewItems

\* The items of a mailbox are messages.
LEMMA MailboxType ==
    ASSUME ServiceTypeOK, NEW u \in Users, NEW d \in DeviceRefs
    PROVE  ListInbox(u, d) \in Seq(Message)
<1> DEFINE visible == {id \in Stored : ShouldDeliver(messageByID[id], d)}
           ids == Selected(inboxIDs[u], visible)
<1>1. ids \in Seq(MessageIDs) /\ Listed(ids) = Listed(inboxIDs[u]) \cap visible
  BY SelectedList DEF ServiceTypeOK
<1>2. ListInbox(u, d) = [i \in DOMAIN ids |-> messageByID[ids[i]]]
  BY DEF ListInbox
<1> HIDE DEF ids
<1>3. Len(ids) \in Nat /\ DOMAIN ids = 1..Len(ids)
  BY <1>1
<1>4. \A i \in 1..Len(ids) : messageByID[ids[i]] \in Message
  BY <1>1, <1>3 DEF Listed, ServiceTypeOK
<1>5. [i \in 1..Len(ids) |-> messageByID[ids[i]]] \in Seq(Message)
  BY <1>3, <1>4, IsASeq
<1> QED
  BY <1>2, <1>3, <1>5

\* What Route picks is a new message.
LEMMA RouteType ==
    ASSUME ServiceTypeOK, RelayTypeOK, NEW p \in Callers, NEW u \in Users, Route(p, u)
    PROVE  /\ p \in scenario.authors
           /\ \E m \in NewItems :
                 /\ item' = [item EXCEPT ![p] = m]
                 /\ m.sender = u
                 /\ m.id \notin Stored
                 /\ \A q \in Callers : item[q] # None => item[q].id # m.id
<1>1. scenario.to \subseteq Users \X DeviceRefs
  BY RelayAssumption DEF RelayTypeOK, Scenario
<1>2. PICK id \in MessageIDs, a \in scenario.to : \E r \in Routes(a[1], a[2]) :
         /\ id \notin Stored
         /\ \A q \in Callers : item[q] # None => item[q].id # id
         /\ item' = [item EXCEPT ![p] = NewMessage(id, u, a[1], r[1], r[2])]
  BY DEF Route
<1>3. PICK r \in Routes(a[1], a[2]) :
         /\ id \notin Stored
         /\ \A q \in Callers : item[q] # None => item[q].id # id
         /\ item' = [item EXCEPT ![p] = NewMessage(id, u, a[1], r[1], r[2])]
  BY <1>2
<1>4. a[1] \in Users /\ a[2] \in DeviceRefs
  BY <1>1
<1>5. r[1] \in DeviceRefs /\ r[2] \in BOOLEAN
  <2> DEFINE online == OnlineDevices(a[1])
  <2>1. online \subseteq DeviceRefs
    BY DEF OnlineDevices, DeviceRefs
  <2>2. r \in IF a[2] # NoDevice THEN {<<a[2], a[2] \in online>>}
              ELSE IF online = {} THEN {<<NoDevice, FALSE>>} ELSE online \X {TRUE}
    BY <1>3 DEF Routes
  <2> HIDE DEF online
  <2>3. CASE r = <<a[2], a[2] \in online>>
    <3>1. r[1] = a[2] /\ r[2] = (a[2] \in online)
      BY <2>3
    <3>2. (a[2] \in online) \in BOOLEAN
      OBVIOUS
    <3> QED
      BY <1>4, <3>1, <3>2
  <2>4. CASE r = <<NoDevice, FALSE>>
    BY <2>4 DEF DeviceRefs
  <2>5. CASE r \in online \X {TRUE}
    BY <2>1, <2>5
  <2> QED
    BY <2>2, <2>3, <2>4, <2>5
<1> DEFINE m == NewMessage(id, u, a[1], r[1], r[2])
<1>6. m \in NewItems
  BY <1>4, <1>5 DEF NewItems
<1>7. m.id = id /\ m.sender = u
  BY DEF NewMessage
<1>8. item' = [item EXCEPT ![p] = m]
  BY <1>3
<1>9. p \in scenario.authors
  BY DEF Route
<1> HIDE DEF m
<1> QED
  BY <1>3, <1>6, <1>7, <1>8, <1>9

Typed == RelayTypeOK /\ Jobs

\* Binding a session keeps the types.
LEMMA BindingTypes ==
    ASSUME ServiceTypeOK, Typed, NEW c \in Conns
    PROVE  /\ Bind(c) => Typed'
           /\ OpenStream(c) => Typed'
           /\ ListMailbox(c) => Typed'
           /\ StartPumps(c) => Typed'
           /\ Push(c) => Typed'
<1> USE DEF Typed, RelayTypeOK, Jobs, Go, Sending, Acking, hubVars, jobVars, pumpVars, netVars, restVars
<1> c \in Callers /\ Conns \subseteq Callers
  BY RelayAssumption
<1>1. ASSUME Bind(c) PROVE Typed'
  <2>1. DeviceOf(c) \in Devices
    BY <1>1, Bindable DEF Bind
  <2> QED
    BY <1>1, <2>1 DEF Bind
<1>2. ASSUME OpenStream(c) PROVE Typed'
  BY <1>2 DEF OpenStream
<1>3. ASSUME ListMailbox(c) PROVE Typed'
  <2> DEFINE shown == [i \in DOMAIN Mailbox(c) |-> About("mailbox", Mailbox(c)[i])]
  <2>1. c \in DOMAIN scenario.device /\ scenario \in Scenarios
    BY <1>3 DEF ListMailbox
  <2>2. Mailbox(c) \in Seq(Message)
    BY <2>1, Bindable, MailboxType DEF Mailbox
  <2>3. shown \in Seq(EventType)
    <3>1. Len(Mailbox(c)) \in Nat /\ DOMAIN Mailbox(c) = 1..Len(Mailbox(c))
      BY <2>2
    <3>2. \A i \in 1..Len(Mailbox(c)) : About("mailbox", Mailbox(c)[i]) \in EventType
      BY <2>2, <3>1, EventTypes
    <3>3. [i \in 1..Len(Mailbox(c)) |-> About("mailbox", Mailbox(c)[i])] \in Seq(EventType)
      BY <3>1, <3>2, IsASeq
    <3> QED
      BY <3>1, <3>3
  <2>4. Append(shown, Plain("bound")) \in Seq(EventType)
    BY <2>3, EventTypes
  <2>5. outbox' = [outbox EXCEPT ![c] = Append(shown, Plain("bound"))]
    BY <1>3 DEF ListMailbox
  <2> HIDE DEF shown
  <2>6. outbox' \in [Conns -> Seq(EventType)]
    BY <2>4, <2>5
  <2> QED
    BY <1>3, <2>6 DEF ListMailbox
<1>4. ASSUME StartPumps(c) PROVE Typed'
  BY <1>4 DEF StartPumps
<1>5. ASSUME Push(c) PROVE Typed'
  <2>1. /\ sendQ[c] \in Seq(EventType) /\ outbox[c] \in Seq(EventType) /\ outbox[c] # <<>>
        /\ Len(sendQ[c]) < SendCap
    BY <1>5 DEF Push, Room
  <2>2. /\ Head(outbox[c]) \in EventType /\ Tail(outbox[c]) \in Seq(EventType)
        /\ Append(sendQ[c], Head(outbox[c])) \in Seq(EventType)
        /\ Len(Append(sendQ[c], Head(outbox[c]))) = Len(sendQ[c]) + 1
        /\ Len(sendQ[c]) \in Nat
    BY <2>1
  <2>3. Len(Append(sendQ[c], Head(outbox[c]))) <= SendCap
    BY <2>1, <2>2, RelayAssumption
  <2>4. /\ sendQ' = [sendQ EXCEPT ![c] = Append(sendQ[c], Head(outbox[c]))]
        /\ outbox' = [outbox EXCEPT ![c] = Tail(outbox[c])]
        /\ pc' = [pc EXCEPT ![c] = IF pc[c] = "reply" THEN "loop" ELSE pc[c]]
        /\ pc[c] \in {"greet", "reply"}
        /\ UNCHANGED <<hubVars, jobVars, pumpVars, netVars, events, restVars>>
    BY <1>5 DEF Push
  <2>5. \A x \in Conns : Len(sendQ'[x]) <= SendCap
    BY <2>3, <2>4
  <2>6. sendQ' \in [Conns -> Seq(EventType)] /\ outbox' \in [Conns -> Seq(EventType)]
    BY <2>2, <2>4
  <2> HIDE DEF RelayTypeOK, Jobs
  <2>7. RelayTypeOK'
    BY <2>4, <2>5, <2>6 DEF RelayTypeOK, hubVars
  <2>8. Jobs'
    BY <2>4 DEF RelayTypeOK, Jobs
  <2> QED
    BY <2>7, <2>8
<1> QED
  BY <1>1, <1>2, <1>3, <1>4, <1>5

\* So does sending a message.
LEMMA SendingTypes ==
    ASSUME ServiceTypeOK, Typed, NEW p \in Callers
    PROVE  /\ p \in Conns /\ ReadSend(p) => Typed'
           /\ p \in Requests /\ HttpSend(p) => Typed'
           /\ StoreItem(p) => Typed'
           /\ \A s \in Conns : Offer(p, s) \/ OfferDropped(p, s) \/ OfferPanics(p, s) => Typed'
           /\ SendReturned(p) => Typed'
           /\ p \in Conns /\ TrackPendingAck(p) => Typed'
<1> USE DEF Typed, RelayTypeOK, Jobs, Go, Sending, Acking, hubVars, jobVars, pumpVars, netVars,
            restVars
<1> Conns \subseteq Callers
  BY RelayAssumption
<1>1. ASSUME p \in Conns, ReadSend(p) PROVE Typed'
  <2>1. scenario \in Scenarios /\ p \in DOMAIN scenario.device
    BY <1>1 DEF ReadSend
  <2>2. UserOf(p) \in Users
    BY <1>1, <2>1, Bindable
  <2>3. PICK m \in NewItems : item' = [item EXCEPT ![p] = m]
    BY <1>1, <2>2, RouteType DEF ReadSend
  <2>4. m \in Message
    BY NewItemType
  <2>5. /\ events[p] < scenario.events[p]
        /\ events' = [events EXCEPT ![p] = events[p] + 1]
    BY <1>1 DEF ReadSend, Reads
  <2>6. scenario.events[p] \in Nat
    BY <1>1, <2>1, RelayAssumption DEF Scenario
  <2>7. \A c \in Conns : events'[c] \in 0..scenario.events[c]
    BY <2>5, <2>6
  <2>8. pc[p] = "loop" /\ pc' = [pc EXCEPT ![p] = "store"]
        /\ UNCHANGED <<hubVars, waiter, outbox, sendQ, pumpVars, netVars, restVars>>
    BY <1>1 DEF ReadSend
  <2> QED
    BY <2>3, <2>4, <2>7, <2>8
<1>2. ASSUME p \in Requests, HttpSend(p) PROVE Typed'
  <2>1. PICK u \in Users : Route(p, u)
    BY <1>2 DEF HttpSend
  <2>2. PICK m \in NewItems : item' = [item EXCEPT ![p] = m]
    BY <2>1, RouteType
  <2>3. m \in Message
    BY NewItemType
  <2>4. pc[p] = "new" /\ pc' = [pc EXCEPT ![p] = "store"]
        /\ UNCHANGED <<hubVars, waiter, outbox, sendQ, pumpVars, netVars, events, restVars>>
    BY <1>2 DEF HttpSend
  <2> QED
    BY <1>2, <2>2, <2>3, <2>4 DEF Requests
<1>3. ASSUME StoreItem(p) PROVE Typed'
  <2>1. item[p] \in Message
    BY <1>3, NewItemType DEF StoreItem
  <2> QED
    BY <1>3, <2>1 DEF StoreItem
<1>4. ASSUME NEW s \in Conns, Offer(p, s) PROVE Typed'
  BY <1>4 DEF Offer
<1>5. ASSUME NEW s \in Conns, OfferDropped(p, s) PROVE Typed'
  <2>1. item[p].id \in MessageIDs
    BY <1>5 DEF OfferDropped, Message
  <2> QED
    BY <1>5, <2>1 DEF OfferDropped
<1>6. ASSUME NEW s \in Conns, OfferPanics(p, s) PROVE Typed'
  BY <1>6 DEF OfferPanics
<1>7. ASSUME SendReturned(p) PROVE Typed'
  BY <1>7 DEF SendReturned
<1>8. ASSUME p \in Conns, TrackPendingAck(p) PROVE Typed'
  <2>1. item[p] \in Message
    BY <1>8 DEF TrackPendingAck
  <2>2. item[p].id \in MessageIDs /\ [item[p] EXCEPT !.status = "accepted"] \in Message
    BY <2>1 DEF Message, Statuses
  <2>3. Answer(item[p]) \in Seq(EventType)
    BY <2>2, EventTypes DEF Answer
  <2>4. /\ pc[p] = "track" /\ pc' = [pc EXCEPT ![p] = "reply"]
        /\ pendingAck' = [pendingAck EXCEPT ![item[p].id] = p]
        /\ outbox' = [outbox EXCEPT ![p] = Answer(item[p])]
        /\ item' = [item EXCEPT ![p] = None]
        /\ UNCHANGED <<session, waiter, sendQ, pumpVars, netVars, events, restVars>>
    BY <1>8 DEF TrackPendingAck
  <2> QED
    BY <1>8, <2>2, <2>3, <2>4
<1> QED
  BY <1>1, <1>2, <1>3, <1>4, <1>5, <1>6, <1>7, <1>8

\* An acknowledgement a client sends is one of a stored message.
LEMMA ReadAckEffect ==
    ASSUME ServiceTypeOK, Typed, NEW c \in Conns, ReadAck(c)
    PROVE  \E id \in MessageIDs, st \in AckStatuses :
              /\ UserOf(c) \in Users /\ DeviceOf(c) \in DeviceRefs
              /\ Acknowledge(id, UserOf(c), DeviceOf(c), st)
              /\ id \in Stored /\ messageByID[id] \in Message
              /\ messageByID'[id] = Acked(messageByID[id], DeviceOf(c), st)
              /\ messageByID'[id] \in Message
              /\ item' = [item EXCEPT ![c] = messageByID'[id]]
<1>1. scenario \in Scenarios /\ c \in DOMAIN scenario.device
  BY DEF ReadAck, Reads, Typed, RelayTypeOK, Jobs
<1>2. UserOf(c) \in Users /\ DeviceOf(c) \in DeviceRefs
  BY <1>1, Bindable
<1>3. PICK id \in Shown(wire[c]), st \in AckStatuses :
         /\ Acknowledge(id, UserOf(c), DeviceOf(c), st)
         /\ item' = [item EXCEPT ![c] = messageByID'[id]]
  BY DEF ReadAck
<1>4. id \in Stored /\ messageByID[id] \in Message /\ id \in MessageIDs
  BY <1>3 DEF Acknowledge, CanAcknowledge, ServiceTypeOK
<1>5. messageByID'[id] = Acked(messageByID[id], DeviceOf(c), st)
  BY <1>3, <1>4 DEF Acknowledge, Stored
<1>6. Acked(messageByID[id], DeviceOf(c), st) \in Message
  BY <1>2, <1>4, AckedType, ServiceAssumption
<1> QED
  BY <1>2, <1>3, <1>4, <1>5, <1>6

\* So do acknowledgements and the other client events.
LEMMA AckingTypes ==
    ASSUME ServiceTypeOK, Typed, NEW c \in Conns
    PROVE  /\ ReadAck(c) => Typed'
           /\ ReadRefusedAck(c) => Typed'
           /\ LookupPending(c) => Typed'
           /\ ForwardAck(c) => Typed'
           /\ ClearPending(c) => Typed'
           /\ ReadOther(c) => Typed'
<1> USE DEF Typed, RelayTypeOK, Jobs, Go, Sending, Acking, hubVars, jobVars, pumpVars, netVars,
            restVars
<1> Conns \subseteq Callers
  BY RelayAssumption
<1>1. ASSUME Reads(c) PROVE \A x \in Conns : events'[x] \in 0..scenario.events[x]
  <2>1. /\ events[c] < scenario.events[c]
        /\ events' = [events EXCEPT ![c] = events[c] + 1]
    BY <1>1 DEF Reads
  <2>2. scenario.events[c] \in Nat
    BY RelayAssumption DEF Scenario
  <2> QED
    BY <2>1, <2>2
<1>2. ASSUME ReadAck(c) PROVE Typed'
  <2>1. PICK m \in Message : item' = [item EXCEPT ![c] = m]
    BY <1>2, ReadAckEffect
  <2>2. /\ \A x \in Conns : events'[x] \in 0..scenario.events[x]
        /\ pc[c] = "loop" /\ pc' = [pc EXCEPT ![c] = "lookup"]
        /\ UNCHANGED <<hubVars, waiter, outbox, sendQ, pumpVars, netVars, restVars>>
    BY <1>1, <1>2 DEF ReadAck
  <2> QED
    BY <2>1, <2>2
<1>3. ASSUME ReadRefusedAck(c) PROVE Typed'
  <2>1. /\ \A x \in Conns : events'[x] \in 0..scenario.events[x]
        /\ UNCHANGED <<hubVars, pc, jobVars, outbox, sendQ, pumpVars, netVars, restVars>>
    BY <1>1, <1>3 DEF ReadRefusedAck
  <2> QED
    BY <2>1
<1>4. ASSUME LookupPending(c) PROVE Typed'
  <2>1. item[c].id \in MessageIDs
    BY <1>4 DEF LookupPending, Message
  <2>2. pendingAck[item[c].id] \in Conns \cup {None}
    BY <2>1
  <2>3. /\ waiter' = [waiter EXCEPT ![c] = pendingAck[item[c].id]]
        /\ pc[c] = "lookup"
        /\ UNCHANGED <<hubVars, outbox, sendQ, pumpVars, netVars, events, restVars>>
        /\ \/ /\ pc' = [pc EXCEPT ![c] = "loop"]
              /\ item' = [item EXCEPT ![c] = None]
           \/ /\ waiter'[c] # None
              /\ pc' = [pc EXCEPT ![c] = "forward"]
              /\ item' = item
    BY <1>4 DEF LookupPending
  <2> QED
    BY <2>2, <2>3, ZenonT(30)
<1>5. ASSUME ForwardAck(c) PROVE Typed'
  <2> DEFINE w == waiter[c]
  <2>1. w \in Conns /\ item[c] \in Message
    BY <1>5 DEF ForwardAck
  <2>2. About("ack", item[c]) \in EventType
    BY <2>1, EventTypes
  <2>3. /\ sendQ[w] \in Seq(EventType) /\ Len(sendQ[w]) < SendCap
        /\ sendQ' = [sendQ EXCEPT ![w] = Append(sendQ[w], About("ack", item[c]))]
    BY <1>5, <2>1 DEF ForwardAck, Room, Told
  <2>4. /\ Append(sendQ[w], About("ack", item[c])) \in Seq(EventType)
        /\ Len(Append(sendQ[w], About("ack", item[c]))) <= SendCap
    BY <2>2, <2>3, RelayAssumption
  <2>5. /\ sendQ' \in [Conns -> Seq(EventType)]
        /\ \A x \in Conns : Len(sendQ'[x]) <= SendCap
    BY <2>1, <2>3, <2>4
  <2>6. /\ pc[c] = "forward"
        /\ pc' = [pc EXCEPT ![c] = IF Final(item[c]) THEN "clear" ELSE "loop"]
        /\ waiter' = [waiter EXCEPT ![c] = None]
        /\ item' = [item EXCEPT ![c] = IF pc'[c] = "clear" THEN item[c] ELSE None]
        /\ UNCHANGED <<hubVars, outbox, pumpVars, netVars, events, restVars>>
    BY <1>5 DEF ForwardAck
  <2> QED
    BY <2>1, <2>5, <2>6
<1>6. ASSUME ClearPending(c) PROVE Typed'
  <2>1. item[c].id \in MessageIDs
    BY <1>6 DEF ClearPending, Message
  <2> QED
    BY <1>6, <2>1 DEF ClearPending
<1>7. ASSUME ReadOther(c) PROVE Typed'
  <2>1. <<Plain("reply")>> \in Seq(EventType)
    BY EventTypes
  <2>2. /\ \A x \in Conns : events'[x] \in 0..scenario.events[x]
        /\ pc[c] = "loop" /\ pc' = [pc EXCEPT ![c] = "reply"]
        /\ outbox' = [outbox EXCEPT ![c] = <<Plain("reply")>>]
        /\ UNCHANGED <<hubVars, jobVars, sendQ, pumpVars, netVars, restVars>>
    BY <1>1, <1>7 DEF ReadOther
  <2> QED
    BY <2>1, <2>2
<1> QED
  BY <1>2, <1>3, <1>4, <1>5, <1>6, <1>7

\* So do the end of a connection, the forwarder and the writer.
LEMMA PumpTypes ==
    ASSUME ServiceTypeOK, Typed, NEW c \in Conns
    PROVE  /\ ClientDrops(c) \/ ReadFails(c) \/ Unbind(c) \/ CancelStream(c) => Typed'
           /\ ForwarderTakes(c) => Typed'
           /\ ForwarderPushes(c) => Typed'
           /\ ForwarderEnds(c) => Typed'
           /\ WriterWrites(c) => Typed'
           /\ WriterLoses(c) => Typed'
<1> USE DEF Typed, RelayTypeOK, Jobs, Go, Sending, Acking, hubVars, jobVars, pumpVars, netVars,
            restVars
<1> c \in Callers
  BY RelayAssumption
<1>1. ASSUME ClientDrops(c) PROVE Typed'
  BY <1>1 DEF ClientDrops
<1>2. ASSUME ReadFails(c) PROVE Typed'
  BY <1>2 DEF ReadFails
<1>3. ASSUME Unbind(c) PROVE Typed'
  <2>1. session' \in [Devices -> Conns \cup {None}]
    BY <1>3 DEF Unbind
  <2>2. /\ pc[c] = "unbind" /\ pc' = [pc EXCEPT ![c] = "cancel"]
        /\ UNCHANGED <<pendingAck, jobVars, outbox, sendQ, pumpVars, netVars, events, restVars>>
    BY <1>3 DEF Unbind
  <2> QED
    BY <2>1, <2>2
<1>4. ASSUME CancelStream(c) PROVE Typed'
  BY <1>4 DEF CancelStream
<1>5. ASSUME ForwarderTakes(c) PROVE Typed'
  <2>1. c \in DOMAIN subscriber /\ subscriber[c].buf \in Seq(Message) /\ subscriber[c].buf # <<>>
    BY <1>5 DEF ForwarderTakes, Receive, ServiceTypeOK
  <2>2. Head(subscriber[c].buf) \in Message
    BY <2>1
  <2>3. /\ <<Head(subscriber[c].buf)>> \in Seq(Message)
        /\ <<>> \in Seq(Message)
    BY <2>2
  <2> QED
    BY <1>5, <2>3 DEF ForwarderTakes
<1>6. ASSUME ForwarderPushes(c) PROVE Typed'
  <2>1. hand[c][1] \in Message
    BY <1>6 DEF ForwarderPushes
  <2> DEFINE e == About("deliver", hand[c][1])
  <2>2. e \in EventType /\ <<>> \in Seq(Message)
    BY <2>1, EventTypes
  <2>3. Append(sendQ[c], e) \in Seq(EventType) /\ Len(Append(sendQ[c], e)) <= SendCap
    <3>1. sendQ[c] \in Seq(EventType) /\ Len(sendQ[c]) < SendCap
      BY <1>6 DEF ForwarderPushes, Room
    <3> QED
      BY <2>2, <3>1, RelayAssumption
  <2>4. sendQ' = [sendQ EXCEPT ![c] = Append(sendQ[c], e)]
    BY <1>6 DEF ForwarderPushes
  <2> HIDE DEF e
  <2>5. /\ sendQ' \in [Conns -> Seq(EventType)]
        /\ \A x \in Conns : Len(sendQ'[x]) <= SendCap
    BY <2>3, <2>4
  <2> QED
    BY <1>6, <2>2, <2>5 DEF ForwarderPushes
<1>7. ASSUME ForwarderEnds(c) PROVE Typed'
  BY <1>7 DEF ForwarderEnds
<1>8. ASSUME Writes(c)
      PROVE  /\ sendQ' \in [Conns -> Seq(EventType)]
             /\ \A x \in Conns : Len(sendQ'[x]) <= SendCap
             /\ Head(sendQ[c]) \in EventType
  <2>1. sendQ[c] \in Seq(EventType) /\ sendQ[c] # <<>> /\ Len(sendQ[c]) <= SendCap
        /\ sendQ' = [sendQ EXCEPT ![c] = Tail(sendQ[c])]
    BY <1>8 DEF Writes
  <2>2. /\ Tail(sendQ[c]) \in Seq(EventType) /\ Len(Tail(sendQ[c])) <= SendCap
        /\ Head(sendQ[c]) \in EventType
    BY <2>1, RelayAssumption
  <2> QED
    BY <2>1, <2>2
<1>9. ASSUME WriterWrites(c) PROVE Typed'
  <2>1. Append(wire[c], Head(sendQ[c])) \in Seq(EventType)
    BY <1>8, <1>9 DEF WriterWrites
  <2>2. wire' \in [Conns -> Seq(EventType)]
    BY <1>9, <2>1 DEF WriterWrites
  <2> QED
    BY <1>8, <1>9, <2>2 DEF WriterWrites
<1>10. ASSUME WriterLoses(c) PROVE Typed'
  <2>1. /\ writer' \in [Conns -> {"off", "on", "done"}]
        /\ UNCHANGED <<hubVars, pc, jobVars, outbox, hand, forwarder, netVars, events, restVars>>
    BY <1>10 DEF WriterLoses
  <2> QED
    BY <1>8, <1>10, <2>1 DEF WriterLoses
<1> QED
  BY <1>1, <1>2, <1>3, <1>4, <1>5, <1>6, <1>7, <1>9, <1>10

\* Every step keeps the types.
LEMMA TypedStep ==
    ASSUME ServiceTypeOK, Typed, [Next]_vars
    PROVE  Typed'
<1>1. ASSUME NEW c \in Conns,
             \/ Bind(c) \/ ReadSend(c) \/ ReadAck(c) \/ ReadRefusedAck(c) \/ ReadOther(c)
             \/ ClientDrops(c)
      PROVE  Typed'
  <2> c \in Callers
    BY RelayAssumption
  <2> QED
    BY <1>1, BindingTypes, SendingTypes, AckingTypes, PumpTypes
<1>2. ASSUME NEW r \in Requests, HttpSend(r) PROVE Typed'
  <2> r \in Callers
    BY DEF Requests
  <2> QED
    BY <1>2, SendingTypes
<1>3. ASSUME NEW p \in Callers, HandlerStep(p) PROVE Typed'
  <2>1. CASE \/ StoreItem(p)
             \/ \E s \in Conns : Offer(p, s) \/ OfferDropped(p, s) \/ OfferPanics(p, s)
             \/ SendReturned(p)
    BY <2>1, SendingTypes
  <2>2. CASE /\ p \in Conns
             /\ \/ OpenStream(p) \/ ListMailbox(p) \/ StartPumps(p) \/ Push(p)
                \/ TrackPendingAck(p)
                \/ LookupPending(p) \/ ForwardAck(p) \/ ClearPending(p)
                \/ ReadFails(p) \/ Unbind(p) \/ CancelStream(p)
    BY <2>2, BindingTypes, SendingTypes, AckingTypes, PumpTypes
  <2> QED
    BY <1>3, <2>1, <2>2 DEF HandlerStep
<1>4. ASSUME NEW c \in Conns, ForwarderStep(c) \/ WriterStep(c) PROVE Typed'
  BY <1>4, PumpTypes DEF ForwarderStep, WriterStep
<1>5. CASE UNCHANGED vars
  BY <1>5 DEF vars, Typed, RelayTypeOK, Jobs, Sending, Acking, hubVars, jobVars, pumpVars,
              netVars, restVars
<1> QED
  BY <1>1, <1>2, <1>3, <1>4, <1>5 DEF Next, Environment

-----------------------------------------------------------------------------
(* The message service inside the relay. *)

\* The relay changes the state of the message service by its methods only.
LEMMA RelayServiceStep ==
    ASSUME ServiceTypeOK, Typed, [Next]_vars
    PROVE  [ServiceNext]_serviceVars
<1> Conns \subseteq Callers
  BY RelayAssumption
<1>1. ASSUME NEW c \in Conns, OpenStream(c) PROVE ServiceNext
  <2>1. UserOf(c) \in Users /\ DeviceOf(c) \in DeviceRefs
    BY <1>1, Bindable DEF OpenStream, Go, Typed, RelayTypeOK, Jobs
  <2> QED
    BY <1>1, <2>1 DEF OpenStream, ServiceNext, Conns
<1>2. ASSUME NEW p \in Callers, StoreItem(p) PROVE ServiceNext
  <2>1. item[p] \in NewItems /\ Store(p, item[p])
    BY <1>2 DEF StoreItem, Go, Typed, Jobs
  <2>2. PICK id \in MessageIDs, from \in Users, to \in Users, d \in DeviceRefs,
             online \in BOOLEAN : item[p] = NewMessage(id, from, to, d, online)
    BY <2>1 DEF NewItems
  <2> QED
    BY <2>1, <2>2 DEF ServiceNext
<1>3. ASSUME NEW p \in Callers, NEW s \in Conns,
             Offer(p, s) \/ OfferDropped(p, s) \/ OfferPanics(p, s)
      PROVE  ServiceNext
  <2>1. FanOut(p, s)
    BY <1>3 DEF Offer, OfferDropped, OfferPanics, FanOut
  <2> QED
    BY <2>1 DEF ServiceNext, Conns
<1>4. ASSUME NEW p \in Callers, SendReturned(p) PROVE ServiceNext
  BY <1>4 DEF SendReturned, ServiceNext
<1>5. ASSUME NEW c \in Conns, ReadAck(c) PROVE ServiceNext
  BY <1>5, ReadAckEffect DEF ServiceNext
<1>6. ASSUME NEW c \in Conns, CancelStream(c) PROVE ServiceNext
  BY <1>6 DEF CancelStream, ServiceNext, Conns
<1>7. ASSUME NEW c \in Conns, ForwarderTakes(c) PROVE ServiceNext
  BY <1>7 DEF ForwarderTakes, ServiceNext, Conns
<1>8. ASSUME NEW c \in Conns,
             \/ Bind(c) \/ ListMailbox(c) \/ StartPumps(c) \/ Push(c)
             \/ ReadSend(c) \/ TrackPendingAck(c)
             \/ ReadRefusedAck(c) \/ LookupPending(c) \/ ForwardAck(c)
             \/ ClearPending(c) \/ ReadOther(c)
             \/ ClientDrops(c) \/ ReadFails(c) \/ Unbind(c)
             \/ ForwarderPushes(c) \/ ForwarderEnds(c) \/ WriterWrites(c) \/ WriterLoses(c)
      PROVE  UNCHANGED serviceVars
  BY <1>8 DEF Bind, ListMailbox, StartPumps, Push, ReadSend, TrackPendingAck, ReadRefusedAck,
              LookupPending, ForwardAck, ClearPending, ReadOther, ClientDrops, ReadFails, Unbind,
              ForwarderPushes, ForwarderEnds, WriterWrites, WriterLoses
<1>9. ASSUME NEW r \in Requests, HttpSend(r) PROVE UNCHANGED serviceVars
  BY <1>9 DEF HttpSend
<1>10. CASE UNCHANGED vars
  BY <1>10 DEF vars
<1>11. ASSUME NEW p \in Callers, HandlerStep(p) PROVE [ServiceNext]_serviceVars
  BY <1>1, <1>2, <1>3, <1>4, <1>6, <1>8, <1>11 DEF HandlerStep
<1>12. ASSUME Environment PROVE [ServiceNext]_serviceVars
  BY <1>5, <1>8, <1>9, <1>12 DEF Environment
<1>13. ASSUME NEW c \in Conns, ForwarderStep(c) \/ WriterStep(c) PROVE [ServiceNext]_serviceVars
  BY <1>7, <1>8, <1>13 DEF ForwarderStep, WriterStep
<1> QED
  BY <1>10, <1>11, <1>12, <1>13 DEF Next

\* Types hold at the start.
LEMMA TypedInit == Init => ServiceTypeOK /\ Typed
<1> SUFFICES ASSUME Init PROVE ServiceTypeOK /\ Typed
  OBVIOUS
<1>1. ServiceTypeOK
  BY DEF Init, ServiceInit, ServiceTypeOK, Stored
<1>2. Jobs
  BY RelayAssumption DEF Init, Jobs, Sending, Acking
<1>3. scenario \in Scenario
  BY RelayAssumption DEF Init
<1>4. \A c \in Conns : events[c] \in 0..scenario.events[c]
  BY <1>3 DEF Init, Scenario
<1>5. \A c \in Conns : Len(sendQ[c]) <= SendCap
  BY RelayAssumption DEF Init
<1>6. RelayTypeOK
  BY <1>4, <1>5 DEF Init, RelayTypeOK
<1> QED
  BY <1>1, <1>2, <1>6 DEF Typed

\* The types, those of the message service included, hold throughout.
LEMMA TypedAlways == Spec => [](ServiceTypeOK /\ Typed)
<1>1. ServiceTypeOK /\ Typed /\ [Next]_vars => (ServiceTypeOK /\ Typed)'
  BY TypedStep, RelayServiceStep, TypeStep
<1> QED
  BY <1>1, TypedInit, PTL DEF Spec

\* Every variable of the relay keeps its type and no send channel exceeds its capacity.
THEOREM RelayTypeCorrect == Spec => []RelayTypeOK
<1>1. Typed => RelayTypeOK
  BY DEF Typed
<1> QED
  BY <1>1, TypedAlways, PTL

\* The relay implements the message service's specification: whatever handlers,
\* forwarders and clients do, the service sees only calls of its methods, with
\* arguments it accepts.  All that is proved of the service alone holds in the relay.
THEOREM RelayUsesService == Spec => ServiceSpec
<1>1. Init => ServiceInit
  BY DEF Init
<1>2. ServiceTypeOK /\ Typed /\ [Next]_vars => [ServiceNext]_serviceVars
  BY RelayServiceStep
<1> QED
  BY <1>1, <1>2, TypedAlways, PTL DEF Spec, ServiceSpec

-----------------------------------------------------------------------------
(* Presence. *)

\* Where a handler can be.
Points == {"new", "subscribe", "list", "greet", "loop", "store", "fanout", "track", "reply",
           "lookup", "forward", "clear", "unbind", "cancel", "done"}

\* Only Bind and Unbind touch the hub's sessions, and only Unbind ends a bound handler.
LEMMA SessionSteps ==
    ASSUME Typed, [Next]_vars
    PROVE  \/ \E c \in Conns : Bind(c) \/ Unbind(c)
           \/ /\ session' = session /\ scenario' = scenario
              /\ \A c \in Conns : Unbound(c)' => Unbound(c)
<1> DEFINE Still == /\ session' = session /\ scenario' = scenario
                    /\ \A c \in Conns : Unbound(c)' => Unbound(c)
<1>1. pc \in [Callers -> Points] /\ Conns \subseteq Callers
  BY RelayAssumption DEF Typed, RelayTypeOK, Points
<1> USE DEF Go, hubVars, restVars
<1>2. ASSUME NEW p \in Callers, NEW x \in {"list", "greet", "loop", "store", "fanout", "track",
                                           "reply", "lookup", "forward", "clear", "unbind"},
             pc' = [pc EXCEPT ![p] = x], session' = session, scenario' = scenario
      PROVE  Still
  BY <1>1, <1>2 DEF Unbound
<1>3. ASSUME pc' = pc, session' = session, scenario' = scenario PROVE Still
  BY <1>3 DEF Unbound
<1>4. ASSUME NEW p \in Callers, p \notin Conns, pc' = [pc EXCEPT ![p] = "done"],
             session' = session, scenario' = scenario
      PROVE  Still
  BY <1>1, <1>4 DEF Unbound
<1>5. ASSUME NEW p \in Callers,
             StoreItem(p) \/ SendReturned(p) \/ \E s \in Conns : OfferPanics(p, s)
      PROVE  Still
  <2>1. \E x \in {"fanout", "unbind", "track", "done"} :
           /\ pc' = [pc EXCEPT ![p] = x] /\ (x = "done" => p \notin Conns)
           /\ session' = session /\ scenario' = scenario
    BY <1>5 DEF StoreItem, SendReturned, OfferPanics
  <2> QED
    BY <1>2, <1>4, <2>1
<1>6. ASSUME NEW p \in Callers, NEW s \in Conns, Offer(p, s) \/ OfferDropped(p, s)
      PROVE  Still
  BY <1>3, <1>6 DEF Offer, OfferDropped
<1>7. ASSUME NEW c \in Conns,
             \/ ReadRefusedAck(c) \/ ClientDrops(c) \/ ForwarderStep(c) \/ WriterStep(c)
      PROVE  Still
  BY <1>3, <1>7 DEF ReadRefusedAck, ClientDrops, ForwarderStep, ForwarderTakes, ForwarderPushes,
                    ForwarderEnds, WriterStep, WriterWrites, WriterLoses
<1>8. ASSUME NEW c \in Conns,
             \/ OpenStream(c) \/ ListMailbox(c) \/ StartPumps(c) \/ ReadSend(c)
             \/ TrackPendingAck(c) \/ ReadAck(c) \/ LookupPending(c) \/ ForwardAck(c)
             \/ ClearPending(c) \/ ReadOther(c) \/ ReadFails(c)
      PROVE  Still
  <2>1. \E x \in {"list", "greet", "loop", "store", "reply", "lookup", "forward", "clear",
                  "unbind"} : pc' = [pc EXCEPT ![c] = x]
    BY <1>8 DEF OpenStream, ListMailbox, StartPumps, ReadSend, TrackPendingAck, ReadAck,
                LookupPending, ForwardAck, ClearPending, ReadOther, ReadFails
  <2>2. session' = session /\ scenario' = scenario
    BY <1>8 DEF OpenStream, ListMailbox, StartPumps, ReadSend, TrackPendingAck, ReadAck,
                LookupPending, ForwardAck, ClearPending, ReadOther, ReadFails
  <2>3. c \in Callers
    BY <1>1
  <2> QED
    BY <1>2, <2>1, <2>2, <2>3
<1>9. ASSUME NEW c \in Conns, Push(c) PROVE Still
  <2>1. /\ pc[c] \in {"greet", "reply"} /\ c \in Callers
        /\ pc' = [pc EXCEPT ![c] = IF pc[c] = "reply" THEN "loop" ELSE pc[c]]
        /\ session' = session /\ scenario' = scenario
    BY <1>1, <1>9 DEF Push
  <2> QED
    BY <1>1, <2>1 DEF Unbound
<1>10. ASSUME NEW c \in Conns, CancelStream(c) PROVE Still
  <2>1. /\ pc[c] = "cancel" /\ c \in Callers /\ pc' = [pc EXCEPT ![c] = "done"]
        /\ session' = session /\ scenario' = scenario
    BY <1>1, <1>10 DEF CancelStream
  <2> QED
    BY <1>1, <2>1 DEF Unbound
<1>11. ASSUME NEW r \in Requests, HttpSend(r) PROVE Still
  <2>1. r \in Callers /\ pc' = [pc EXCEPT ![r] = "store"]
        /\ session' = session /\ scenario' = scenario
    BY <1>11 DEF HttpSend, Requests
  <2> QED
    BY <1>2, <2>1
<1>12. ASSUME UNCHANGED vars PROVE Still
  BY <1>3, <1>12 DEF vars
<1> HIDE DEF Still
<1>13. ASSUME NEW p \in Callers, HandlerStep(p)
       PROVE  Still \/ \E c \in Conns : Unbind(c)
  BY <1>5, <1>6, <1>8, <1>9, <1>10, <1>13 DEF HandlerStep
<1>14. ASSUME Environment PROVE Still \/ \E c \in Conns : Bind(c)
  BY <1>7, <1>8, <1>11, <1>14 DEF Environment
<1>15. Still \/ \E c \in Conns : Bind(c) \/ Unbind(c)
  BY <1>7, <1>12, <1>13, <1>14 DEF Next
<1> QED
  BY <1>15 DEF Still

\* The hub names only bound connections, each for its own device.
THEOREM HubSafety == Spec => []HubNamesBound
<1>1. Init => HubNamesBound
  BY DEF Init, HubNamesBound
<1>2. Typed /\ HubNamesBound /\ [Next]_vars => HubNamesBound'
  <2> SUFFICES ASSUME Typed, HubNamesBound, [Next]_vars,
                      NEW d \in Devices, session'[d] # None
               PROVE  (DeviceOf(session[d]) = d)' /\ ~(Unbound(session[d])')
    BY DEF HubNamesBound
  <2>1. /\ session \in [Devices -> Conns \cup {None}]
        /\ pc \in [Callers -> Points]
        /\ Conns \subseteq Callers /\ None \notin Conns
        /\ session[d] # None => DeviceOf(session[d]) = d /\ ~Unbound(session[d])
    BY RelayAssumption DEF Typed, RelayTypeOK, HubNamesBound, Points
  <2>2. ASSUME NEW c \in Conns, Bind(c)
        PROVE  (DeviceOf(session[d]) = d)' /\ ~(Unbound(session[d])')
    <3>1. /\ session' = [session EXCEPT ![DeviceOf(c)] = c]
          /\ pc' = [pc EXCEPT ![c] = "subscribe"]
          /\ scenario' = scenario
      BY <2>2 DEF Bind, Go, restVars
    <3>2. CASE d = DeviceOf(c)
      BY <2>1, <3>1, <3>2 DEF DeviceOf, Unbound
    <3>3. CASE d # DeviceOf(c)
      <4>1. session'[d] = session[d] /\ session[d] \in Conns
        BY <2>1, <3>1, <3>3
      <4> QED
        BY <2>1, <3>1, <4>1 DEF DeviceOf, Unbound
    <3> QED
      BY <3>2, <3>3
  <2>3. ASSUME NEW c \in Conns, Unbind(c)
        PROVE  (DeviceOf(session[d]) = d)' /\ ~(Unbound(session[d])')
    <3>1. /\ session' = [session EXCEPT ![DeviceOf(c)] = None]
          /\ pc' = [pc EXCEPT ![c] = "cancel"]
          /\ scenario' = scenario
      BY <2>3 DEF Unbind, Go, restVars
    <3>2. d # DeviceOf(c) /\ session'[d] = session[d] /\ session[d] \in Conns
      BY <2>1, <3>1
    <3>3. session[d] # c
      BY <2>1, <3>2
    <3> QED
      BY <2>1, <3>1, <3>2, <3>3 DEF DeviceOf, Unbound
  <2>4. CASE /\ session' = session /\ scenario' = scenario
             /\ \A c \in Conns : Unbound(c)' => Unbound(c)
    <3>1. session'[d] = session[d] /\ session[d] \in Conns
      BY <2>1, <2>4
    <3>2. ~(Unbound(session[d])')
      BY <2>1, <2>4, <3>1 DEF Unbound
    <3> QED
      BY <2>1, <2>4, <3>1, <3>2 DEF DeviceOf
  <2> QED
    BY <2>2, <2>3, <2>4, SessionSteps
<1> QED
  BY <1>1, <1>2, TypedAlways, PTL DEF Spec

=============================================================================
