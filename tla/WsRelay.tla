------------------------------ MODULE WsRelay ------------------------------
(***************************************************************************)
(* The websocket relay: the hub (httpapi/ws_hub.go) and, per connection,   *)
(* the handler goroutine with the forwarder and the writer it starts       *)
(* (httpapi/ws_handlers.go), composed with the message service.  A stream  *)
(* of the service is identified with the connection that subscribes, a     *)
(* caller of Send with the connection or the HTTP request that sends.      *)
(*                                                                         *)
(* A connection here has passed the checks of bindWebSocketSession.  The   *)
(* accesses of one goroutine that no other can observe are one step; each  *)
(* lock region and each channel operation is a step of its own.            *)
(***************************************************************************)
EXTENDS MessageService

CONSTANTS OwnerOf,   \* the user a device belongs to
          None,      \* no connection, no message
          SendCap,   \* capacity of a session's send channel (16 in the code)
          Readers,   \* clients that keep reading from their socket
          Scenarios  \* bound: what clients do, one of these per behaviour

Conns == Subscribers
Requests == Callers \ Conns

\* A scenario: the device each connection binds (one that has none never comes),
\* who sends messages and to which <<user, device>> pairs, how many events of a
\* client are handled, who sends other events and who may break off.
Scenario == [device : UNION {[C -> Devices] : C \in SUBSET Conns},
             authors : SUBSET Callers,
             to : SUBSET (Users \X DeviceRefs),
             events : [Conns -> Nat],
             chatters : SUBSET Conns,
             quitters : SUBSET Conns]

ASSUME RelayAssumption ==
    /\ Conns \subseteq Callers
    /\ OwnerOf \in [Devices -> Users]
    /\ None \notin Conns \cup MessageIDs \cup Message
    /\ SendCap \in Nat \ {0}
    /\ Readers \subseteq Conns
    /\ Scenarios \subseteq Scenario

VARIABLES
    session,     \* hub: the bound connection of a device (sessionsByUser)
    pendingAck,  \* hub: the connection that waits for news of a message
    pc,          \* where the handler of a connection or request is
    item,        \* the message the handler works on
    waiter,      \* the connection whose pending entry the handler read
    outbox,      \* events the handler is about to push to its own session
    sendQ,       \* the send channel of a session
    hand,        \* the item the forwarder took and has not pushed yet
    forwarder,   \* "off", "on" or "done"
    writer,      \* "off", "on" or "done"
    socket,      \* "up" or "down"
    wire,        \* events the client received
    events,      \* client events handled so far
    missed,      \* history: messages a full stream lost for a connection
    scenario     \* never changes

hubVars  == <<session, pendingAck>>
jobVars  == <<item, waiter>>
pumpVars == <<hand, forwarder, writer>>
netVars  == <<socket, wire>>
restVars == <<missed, scenario>>
vars == <<serviceVars, hubVars, pc, jobVars, outbox, sendQ, pumpVars, netVars,
          events, restVars>>

\* An event about message m, and one about none.
About(kind, m) == [kind |-> kind, id |-> m.id, status |-> m.status, device |-> m.device]
Plain(kind) == [kind |-> kind, id |-> None, status |-> None, device |-> NoDevice]

DeviceOf(c) == scenario.device[c]
UserOf(c) == OwnerOf[DeviceOf(c)]

Init ==
    /\ ServiceInit
    /\ session = [d \in Devices |-> None]
    /\ pendingAck = [id \in MessageIDs |-> None]
    /\ pc = [p \in Callers |-> "new"]
    /\ item = [p \in Callers |-> None]
    /\ waiter = [c \in Conns |-> None]
    /\ outbox = [c \in Conns |-> <<>>]
    /\ sendQ = [c \in Conns |-> <<>>]
    /\ hand = [c \in Conns |-> <<>>]
    /\ forwarder = [c \in Conns |-> "off"]
    /\ writer = [c \in Conns |-> "off"]
    /\ socket = [c \in Conns |-> "up"]
    /\ wire = [c \in Conns |-> <<>>]
    /\ events = [c \in Conns |-> 0]
    /\ missed = [c \in Conns |-> {}]
    /\ scenario \in Scenarios

Go(p, from, to) == pc[p] = from /\ pc' = [pc EXCEPT ![p] = to]

-----------------------------------------------------------------------------
(* Binding a session. *)

\* hub.bind: the last connection of a device takes the device's entry.
Bind(c) ==
    /\ c \in DOMAIN scenario.device
    /\ Go(c, "new", "subscribe")
    /\ session' = [session EXCEPT ![DeviceOf(c)] = c]
    /\ UNCHANGED <<serviceVars, pendingAck, jobVars, outbox, sendQ, pumpVars,
                   netVars, events, restVars>>

\* Mutant: the forwarder starts with the subscription.
OpenStream_ForwarderOn(c) ==
    /\ Go(c, "subscribe", "list")
    /\ Subscribe(c, UserOf(c), DeviceOf(c))
    /\ forwarder' = [forwarder EXCEPT ![c] = "on"]
    /\ UNCHANGED <<hubVars, jobVars, outbox, sendQ, hand, writer, netVars,
                   events, restVars>>

OpenStream(c) ==
    /\ Go(c, "subscribe", "list")
    /\ Subscribe(c, UserOf(c), DeviceOf(c))
    /\ UNCHANGED <<hubVars, jobVars, outbox, sendQ, pumpVars, netVars, events,
                   restVars>>

\* Mutant: the mailbox shows only what found its recipient offline.
Mailbox_OfflineOnly(c) ==
    LET Offline(m) == m.status = "stored_offline"
    IN  SelectSeq(ListInbox(UserOf(c), DeviceOf(c)), Offline)

\* Mutant: a device is shown what waits for any device of its user.
Mailbox_AnyDevice(c) == ListInbox(UserOf(c), NoDevice)

Mailbox(c) == ListInbox(UserOf(c), DeviceOf(c))

\* The mailbox snapshot, then session.bound, are what the handler will push.
ListMailbox(c) ==
    /\ Go(c, "list", "greet")
    /\ outbox' = [outbox EXCEPT ![c] =
          Append([i \in DOMAIN Mailbox(c) |-> About("mailbox", Mailbox(c)[i])],
                 Plain("bound"))]
    /\ UNCHANGED <<serviceVars, hubVars, jobVars, sendQ, pumpVars, netVars,
                   events, restVars>>

\* Mutant: the pumps start once the greeting is written.
Greeted_Written(c) == outbox[c] = <<>> /\ sendQ[c] = <<>>

Greeted(c) == outbox[c] = <<>>

\* Only now do the forwarder and the writer start: until then nobody takes
\* from the send channel.
StartPumps(c) ==
    /\ Go(c, "greet", "loop")
    /\ Greeted(c)
    /\ forwarder' = [forwarder EXCEPT ![c] = "on"]
    /\ writer' = [writer EXCEPT ![c] = "on"]
    /\ UNCHANGED <<serviceVars, hubVars, jobVars, outbox, sendQ, hand, netVars,
                   events, restVars>>

\* Mutant: the capacity of the send channel is not observed.
Room_Any(c) == c \in Conns

Room(c) == Len(sendQ[c]) < SendCap

\* The handler pushes to its own session; it waits while the channel is full.
Push(c) ==
    /\ pc[c] \in {"greet", "reply"}
    /\ outbox[c] # <<>>
    /\ Room(c)
    /\ sendQ' = [sendQ EXCEPT ![c] = Append(@, Head(outbox[c]))]
    /\ outbox' = [outbox EXCEPT ![c] = Tail(@)]
    /\ pc' = [pc EXCEPT ![c] = IF @ = "reply" THEN "loop" ELSE @]
    /\ UNCHANGED <<serviceVars, hubVars, jobVars, pumpVars, netVars, events,
                   restVars>>

-----------------------------------------------------------------------------
(* message.send, over the websocket and over HTTP. *)

OnlineDevices(u) == {d \in Devices : OwnerOf[d] = u /\ session[d] # None}

\* The device a message is for and whether a session of it is bound: a named
\* device is kept; otherwise any bound session of the recipient is picked and
\* the message pinned to its device.
Routes(u, d) ==
    IF d # NoDevice
    THEN {<<d, d \in OnlineDevices(u)>>}
    ELSE IF OnlineDevices(u) = {}
         THEN {<<NoDevice, FALSE>>}
         ELSE OnlineDevices(u) \X {TRUE}

\* sendDebugMessage up to the call of Send: the hub is read here, and the
\* message stored in a later step.
Route(p, from) ==
    /\ p \in scenario.authors
    /\ \E id \in MessageIDs, a \in scenario.to : \E r \in Routes(a[1], a[2]) :
          /\ id \notin Stored
          /\ \A q \in Callers : item[q] # None => item[q].id # id
          /\ item' = [item EXCEPT ![p] = NewMessage(id, from, a[1], r[1], r[2])]

\* The handler reads the next client event; the scenario bounds them.  What came
\* before the connection broke may still be read after it.
Reads(c) ==
    /\ pc[c] = "loop"
    /\ events[c] < scenario.events[c]
    /\ events' = [events EXCEPT ![c] = @ + 1]

ReadSend(c) ==
    /\ Reads(c)
    /\ Go(c, "loop", "store")
    /\ Route(c, UserOf(c))
    /\ UNCHANGED <<serviceVars, hubVars, waiter, outbox, sendQ, pumpVars,
                   netVars, restVars>>

\* POST /v1/messages of any user.
HttpSend(r) ==
    /\ Go(r, "new", "store")
    /\ \E u \in Users : Route(r, u)
    /\ UNCHANGED <<serviceVars, hubVars, waiter, outbox, sendQ, pumpVars,
                   netVars, events, restVars>>

StoreItem(p) ==
    /\ Go(p, "store", "fanout")
    /\ Store(p, item[p])
    /\ UNCHANGED <<hubVars, jobVars, outbox, sendQ, pumpVars, netVars, events,
                   restVars>>

Offer(p, s) ==
    /\ pc[p] = "fanout"
    /\ FanOutSkip(p, s) \/ FanOutDeliver(p, s)
    /\ UNCHANGED <<hubVars, pc, jobVars, outbox, sendQ, pumpVars, netVars,
                   events, restVars>>

OfferDropped(p, s) ==
    /\ pc[p] = "fanout"
    /\ FanOutDrop(p, s)
    /\ missed' = [missed EXCEPT ![s] = @ \cup {item[p].id}]
    /\ UNCHANGED <<hubVars, pc, jobVars, outbox, sendQ, pumpVars, netVars,
                   events, scenario>>

\* The panic unwinds the handler: the HTTP server recovers it after the
\* deferred calls, so the connection is torn down and the request fails.
OfferPanics(p, s) ==
    /\ Go(p, "fanout", IF p \in Conns THEN "unbind" ELSE "done")
    /\ FanOutPanic(p, s)
    /\ UNCHANGED <<hubVars, jobVars, outbox, sendQ, pumpVars, netVars, events,
                   restVars>>

SendReturned(p) ==
    /\ Go(p, "fanout", IF p \in Conns THEN "track" ELSE "done")
    /\ Return(p)
    /\ UNCHANGED <<hubVars, jobVars, outbox, sendQ, pumpVars, netVars, events,
                   restVars>>

\* Mutant: a sender whose recipient is offline gets no answer.
Answer_OnlineOnly(m) ==
    IF m.status = "accepted" THEN <<About("ack", m)>> ELSE <<>>

\* What the sender is told, whether its recipient is online or not.
Answer(m) == <<About("ack", [m EXCEPT !.status = "accepted"])>>

\* The sender's session is recorded after the message went out.
TrackPendingAck(c) ==
    /\ Go(c, "track", "reply")
    /\ pendingAck' = [pendingAck EXCEPT ![item[c].id] = c]
    /\ outbox' = [outbox EXCEPT ![c] = Answer(item[c])]
    /\ item' = [item EXCEPT ![c] = None]
    /\ UNCHANGED <<serviceVars, session, waiter, sendQ, pumpVars, netVars,
                   events, restVars>>

-----------------------------------------------------------------------------
(* message.ack and the other client events. *)

\* The messages a client knows of.
Shown(q) == {e.id : e \in {x \in Listed(q) : x.kind \in {"mailbox", "deliver"}}}

\* A client acknowledges what it received.
ReadAck(c) ==
    /\ Reads(c)
    /\ \E id \in Shown(wire[c]), st \in AckStatuses :
          /\ Acknowledge(id, UserOf(c), DeviceOf(c), st)
          /\ item' = [item EXCEPT ![c] = messageByID'[id]]
    /\ Go(c, "loop", "lookup")
    /\ UNCHANGED <<hubVars, waiter, outbox, sendQ, pumpVars, netVars, restVars>>

\* Acknowledge fails: the event is ignored.
ReadRefusedAck(c) ==
    /\ Reads(c)
    /\ \E id \in Shown(wire[c]) : ~CanAcknowledge(id, UserOf(c), DeviceOf(c))
    /\ UNCHANGED <<serviceVars, hubVars, pc, jobVars, outbox, sendQ, pumpVars,
                   netVars, restVars>>

LookupPending(c) ==
    /\ pc[c] = "lookup"
    /\ waiter' = [waiter EXCEPT ![c] = pendingAck[item[c].id]]
    /\ \/ /\ waiter'[c] = None
          /\ Go(c, "lookup", "loop")
          /\ item' = [item EXCEPT ![c] = None]
       \/ /\ waiter'[c] # None
          /\ Go(c, "lookup", "forward")
          /\ UNCHANGED item
    /\ UNCHANGED <<serviceVars, hubVars, outbox, sendQ, pumpVars, netVars,
                   events, restVars>>

\* Mutant: the acknowledgement comes back to who sent it.
Told_Self(c) == c

Told(c) == waiter[c]

\* Mutant: "delivered" too ends the wait for news.
Final_Delivered(m) == m.status \in {"delivered", "read", "failed"}

Final(m) == m.status \in {"read", "failed"}

\* The recipient's handler pushes to the sender's session, and waits there
\* while that channel is full.
ForwardAck(c) ==
    /\ Go(c, "forward", IF Final(item[c]) THEN "clear" ELSE "loop")
    /\ Room(Told(c))
    /\ sendQ' = [sendQ EXCEPT ![Told(c)] = Append(@, About("ack", item[c]))]
    /\ waiter' = [waiter EXCEPT ![c] = None]
    /\ item' = [item EXCEPT ![c] = IF pc'[c] = "clear" THEN @ ELSE None]
    /\ UNCHANGED <<serviceVars, hubVars, outbox, pumpVars, netVars, events,
                   restVars>>

ClearPending(c) ==
    /\ Go(c, "clear", "loop")
    /\ pendingAck' = [pendingAck EXCEPT ![item[c].id] = None]
    /\ item' = [item EXCEPT ![c] = None]
    /\ UNCHANGED <<serviceVars, session, waiter, outbox, sendQ, pumpVars,
                   netVars, events, restVars>>

\* ping, an unknown event, a payload that does not parse, an ack without an id:
\* one pong or system.error.
ReadOther(c) ==
    /\ c \in scenario.chatters
    /\ Reads(c)
    /\ Go(c, "loop", "reply")
    /\ outbox' = [outbox EXCEPT ![c] = <<Plain("reply")>>]
    /\ UNCHANGED <<serviceVars, hubVars, jobVars, sendQ, pumpVars, netVars,
                   restVars>>

-----------------------------------------------------------------------------
(* The end of a connection. *)

\* The client closes, or the network does.
ClientDrops(c) ==
    /\ c \in scenario.quitters
    /\ socket[c] = "up"
    /\ pc[c] # "new"
    /\ socket' = [socket EXCEPT ![c] = "down"]
    /\ UNCHANGED <<serviceVars, hubVars, pc, jobVars, outbox, sendQ, pumpVars,
                   wire, events, restVars>>

\* The connection is at its end, or brings what is no event.
ReadError(c) == socket[c] = "down" \/ c \in scenario.quitters

\* Mutant: the handler tries again after a failed read.
ReadFails_Retries(c) ==
    /\ ReadError(c)
    /\ pc[c] = "loop"
    /\ UNCHANGED vars

\* Mutant: the session is not unbound.
ReadFails_StaysBound(c) ==
    /\ ReadError(c)
    /\ Go(c, "loop", "cancel")
    /\ UNCHANGED <<serviceVars, hubVars, jobVars, outbox, sendQ, pumpVars,
                   netVars, events, restVars>>

ReadFails(c) ==
    /\ ReadError(c)
    /\ Go(c, "loop", "unbind")
    /\ UNCHANGED <<serviceVars, hubVars, jobVars, outbox, sendQ, pumpVars,
                   netVars, events, restVars>>

\* The first deferred call: it removes the device's entry, whichever
\* connection it names.
Unbind(c) ==
    /\ Go(c, "unbind", "cancel")
    /\ session' = [session EXCEPT ![DeviceOf(c)] = None]
    /\ UNCHANGED <<serviceVars, pendingAck, jobVars, outbox, sendQ, pumpVars,
                   netVars, events, restVars>>

\* The other two: cancel, then conn.Close.
CancelStream(c) ==
    /\ Go(c, "cancel", "done")
    /\ Cancel(c)
    /\ socket' = [socket EXCEPT ![c] = "down"]
    /\ UNCHANGED <<hubVars, jobVars, outbox, sendQ, pumpVars, wire, events,
                   restVars>>

-----------------------------------------------------------------------------
(* The forwarder and the writer. *)

ForwarderTakes(c) ==
    /\ forwarder[c] = "on"
    /\ hand[c] = <<>>
    /\ Receive(c)
    /\ LET m == Head(subscriber[c].buf)
       IN  hand' = [hand EXCEPT ![c] =
                       IF ShouldDeliver(m, DeviceOf(c)) THEN <<m>> ELSE <<>>]
    /\ UNCHANGED <<hubVars, pc, jobVars, outbox, sendQ, forwarder, writer,
                   netVars, events, restVars>>

ForwarderPushes(c) ==
    /\ hand[c] # <<>>
    /\ Room(c)
    /\ sendQ' = [sendQ EXCEPT ![c] = Append(@, About("deliver", hand[c][1]))]
    /\ hand' = [hand EXCEPT ![c] = <<>>]
    /\ UNCHANGED <<serviceVars, hubVars, pc, jobVars, outbox, forwarder, writer,
                   netVars, events, restVars>>

ForwarderEnds(c) ==
    /\ forwarder[c] = "on"
    /\ hand[c] = <<>>
    /\ ~subscriber[c].open
    /\ subscriber[c].buf = <<>>
    /\ forwarder' = [forwarder EXCEPT ![c] = "done"]
    /\ UNCHANGED <<serviceVars, hubVars, pc, jobVars, outbox, sendQ, hand,
                   writer, netVars, events, restVars>>

Writes(c) ==
    /\ writer[c] = "on"
    /\ sendQ[c] # <<>>
    /\ sendQ' = [sendQ EXCEPT ![c] = Tail(@)]

WriterWrites(c) ==
    /\ Writes(c)
    /\ socket[c] = "up"
    /\ wire' = [wire EXCEPT ![c] = Append(@, Head(sendQ[c]))]
    /\ UNCHANGED <<serviceVars, hubVars, pc, jobVars, outbox, pumpVars, socket,
                   events, restVars>>

\* On a socket that is down a write vanishes or fails; once the handler closed
\* it, it fails.  A failure ends the writer for good.
WriterLoses(c) ==
    /\ Writes(c)
    /\ socket[c] = "down"
    /\ \/ writer' = [writer EXCEPT ![c] = "done"]
       \/ pc[c] # "done" /\ UNCHANGED writer
    /\ UNCHANGED <<serviceVars, hubVars, pc, jobVars, outbox, hand, forwarder,
                   netVars, events, restVars>>

-----------------------------------------------------------------------------

\* The steps of a handler that is not waiting for its client.
HandlerStep(p) ==
    \/ StoreItem(p)
    \/ \E s \in Conns : Offer(p, s) \/ OfferDropped(p, s) \/ OfferPanics(p, s)
    \/ SendReturned(p)
    \/ /\ p \in Conns
       /\ \/ OpenStream(p) \/ ListMailbox(p) \/ StartPumps(p) \/ Push(p)
          \/ TrackPendingAck(p)
          \/ LookupPending(p) \/ ForwardAck(p) \/ ClearPending(p)
          \/ ReadFails(p) \/ Unbind(p) \/ CancelStream(p)

ForwarderStep(c) == ForwarderTakes(c) \/ ForwarderPushes(c) \/ ForwarderEnds(c)

WriterStep(c) == WriterWrites(c) \/ WriterLoses(c)

\* What clients and the network do.
Environment ==
    \/ \E c \in Conns : \/ Bind(c) \/ ReadSend(c) \/ ReadAck(c)
                        \/ ReadRefusedAck(c) \/ ReadOther(c) \/ ClientDrops(c)
    \/ \E r \in Requests : HttpSend(r)

Next ==
    \/ Environment
    \/ \E p \in Callers : HandlerStep(p)
    \/ \E c \in Conns : ForwarderStep(c) \/ WriterStep(c)

Spec == Init /\ [][Next]_vars

\* A handler in its loop waits for its client until the connection is gone.
HandlerRuns(p) == /\ pc[p] = "loop" => socket[p] = "down"
                  /\ HandlerStep(p)

\* Goroutines run on; a client of Readers keeps reading, so its writer gets
\* on; writes to a socket that is down come back.  No client need send, ack or
\* leave.  (A channel serves its waiting senders in turn; events are bounded,
\* so weak fairness is enough here.)
Fairness ==
    /\ \A p \in Callers : WF_vars(HandlerRuns(p))
    /\ \A c \in Conns : WF_vars(ForwarderStep(c)) /\ WF_vars(WriterLoses(c))
    /\ \A c \in Readers : WF_vars(WriterWrites(c))

FairSpec == Spec /\ Fairness

-----------------------------------------------------------------------------
(* Properties. *)

EventType == [kind : {"mailbox", "bound", "deliver", "ack", "reply"},
              id : MessageIDs \cup {None}, status : Statuses \cup {None},
              device : DeviceRefs]

\* Every variable has its type; a send channel never holds more than SendCap.
RelayTypeOK ==
    /\ session \in [Devices -> Conns \cup {None}]
    /\ pendingAck \in [MessageIDs -> Conns \cup {None}]
    /\ pc \in [Callers -> {"new", "subscribe", "list", "greet", "loop", "store",
                           "fanout", "track", "reply", "lookup", "forward",
                           "clear", "unbind", "cancel", "done"}]
    /\ item \in [Callers -> Message \cup {None}]
    /\ waiter \in [Conns -> Conns \cup {None}]
    /\ outbox \in [Conns -> Seq(EventType)]
    /\ sendQ \in [Conns -> Seq(EventType)]
    /\ \A c \in Conns : Len(sendQ[c]) <= SendCap
    /\ hand \in [Conns -> Seq(Message)]
    /\ forwarder \in [Conns -> {"off", "on", "done"}]
    /\ writer \in [Conns -> {"off", "on", "done"}]
    /\ socket \in [Conns -> {"up", "down"}]
    /\ wire \in [Conns -> Seq(EventType)]
    /\ \A c \in Conns : events[c] \in 0..scenario.events[c]
    /\ missed \in [Conns -> SUBSET MessageIDs]
    /\ scenario \in Scenarios

Unbound(c) == pc[c] \in {"new", "cancel", "done"}

\* Presence is never stale in favour of a connection: the hub names for a
\* device only a connection of that device whose handler is bound and has not
\* run its unbind.
HubNamesBound ==
    \A d \in Devices : session[d] # None =>
        DeviceOf(session[d]) = d /\ ~Unbound(session[d])

\* Everything the client of c received or will receive, in order, except what
\* the forwarder has yet to take from the stream.
Outgoing(c) == wire[c] \o sendQ[c] \o outbox[c]

\* Mailbox items come first, then session.bound, exactly once, then live
\* events: nothing can overtake the greeting.
GreetingFirst ==
    \A c \in Conns :
        LET q == Outgoing(c)
            bounds == {i \in DOMAIN q : q[i].kind = "bound"}
        IN  pc[c] \notin {"new", "subscribe", "list"} /\ socket[c] = "up" =>
               \E b \in bounds :
                  /\ bounds = {b}
                  /\ \A i \in DOMAIN q : i < b <=> q[i].kind = "mailbox"

Listening(c) == /\ socket[c] = "up"
                /\ ~Unbound(c)
                /\ pc[c] \notin {"subscribe", "list", "unbind"}

\* A bound client misses no message for its device, stored before or after it
\* bound, delivered from the mailbox or live, but for two losses: its stream was
\* full, or another connection of its user ended while Send was between its unlock
\* and its fan-out, and Send died there before it came to this one.  Else the
\* client has it, or it is on its way, in a Send that is still to offer it.  (Hence
\* SubscribeInbox must precede ListInbox.)
MailboxOrLive ==
    \A c \in Conns, id \in Stored :
        /\ Listening(c)
        /\ messageByID[id].recipient = UserOf(c)
        /\ messageByID[id].device \in {NoDevice, DeviceOf(c)}
        => \/ id \in Shown(Outgoing(c))
           \/ \E m \in Listed(hand[c]) \cup Listed(subscriber[c].buf) : m.id = id
           \/ id \in missed[c]
           \/ \E p \in DOMAIN sends : /\ sends[p].msg.id = id
                                      /\ Offering(p, c) \/ CutShort(p, c)

\* What a bound client is shown is its own, and neither way twice: a mailbox item
\* or a live delivery is of a stored message for its user, for its device or for
\* any, and if for its device it stays so, whoever acknowledges the message; the
\* snapshot lists a message once and the stream brings it once, through the
\* fan-out, the stream, the forwarder's hand and the send channel.  (A message
\* stored between SubscribeInbox and ListInbox does come both ways.)
ShownRight ==
    \A c \in Conns : LET q == Outgoing(c)
                     IN  \A i \in {k \in DOMAIN q : q[k].kind \in {"mailbox", "deliver"}} :
        /\ q[i].id \in Stored
        /\ messageByID[q[i].id].recipient = UserOf(c)
        /\ q[i].device \in {NoDevice, DeviceOf(c)}
        /\ q[i].device # NoDevice => messageByID[q[i].id].device = q[i].device
        /\ \A j \in DOMAIN q : q[j].kind = q[i].kind /\ q[j].id = q[i].id => i = j

\* Delivery acks go to the connection that sent the message, and none claims
\* more than the recipient reported: "delivered" or "read" only when the
\* recipient acknowledged, "accepted" once.
AcksTruthful ==
    \A c \in Conns : LET q == Outgoing(c)
                     IN  \A i \in {k \in DOMAIN q : q[k].kind = "ack"} :
        /\ q[i].id \in Stored
        /\ messageByID[q[i].id].sender = UserOf(c)
        /\ c \in scenario.authors
        /\ q[i].status = "accepted"
              => \A j \in DOMAIN q : q[j] = q[i] => i = j
        /\ q[i].status \in {"delivered", "read"} => messageByID[q[i].id].deliveredAt
        /\ q[i].status = "read" => messageByID[q[i].id].readAt

\* All the sender hears of a message comes from one device: the one it was told
\* the message is for, or the first to acknowledge a message that is for any.
AcksNameOneDevice ==
    \A c \in Conns : LET q == Outgoing(c)
                     IN  \A i, j \in {k \in DOMAIN q : q[k].kind = "ack"} :
        q[i].id = q[j].id /\ NoDevice \notin {q[i].device, q[j].device}
            => q[i].device = q[j].device

\* The hub waits for news of a message from the moment its sender is told it
\* was accepted until the recipient has read it.
AcceptedIsTracked ==
    \A c \in Conns : LET q == Outgoing(c)
                     IN  \A i \in DOMAIN q :
        q[i].kind = "ack" /\ q[i].status = "accepted" =>
            pendingAck[q[i].id] = c \/ messageByID[q[i].id].readAt

\* Nothing runs on behalf of anyone and nothing waits to be written.
Quiet ==
    /\ \A p \in Callers : pc[p] \in {"new", "loop", "done"}
    /\ \A c \in Conns : sendQ[c] = <<>> /\ hand[c] = <<>>

\* When the recipient of a message has acknowledged it and all is quiet, its
\* sender, still connected, has been told.  Violated: the acknowledgement can
\* come before the handler records who is waiting for it.
AckReachesSender ==
    Quiet => \A c \in Conns : \A i \in DOMAIN wire[c] :
        LET e == wire[c][i]
        IN  /\ e.kind = "ack" /\ e.status = "accepted" /\ socket[c] = "up"
            /\ messageByID[e.id].deliveredAt
            => \E j \in DOMAIN wire[c] :
                  wire[c][j].id = e.id /\ wire[c][j].status \in {"delivered", "read"}

Accepts(e, id) == e.kind = "ack" /\ e.id = id /\ e.status = "accepted"

\* What a sender hears of a message begins with its acceptance.  Violated: the
\* hub knows who waits before the sender's handler has pushed "accepted", so the
\* news a recipient's handler pushes can overtake it.
AcceptedFirst ==
    \A c \in Conns : LET q == wire[c]
                     IN  \A i \in DOMAIN q :
        q[i].kind = "ack" => \E j \in 1..i : Accepts(q[j], q[i].id)

\* A client that reads learns what became of the message it sent: it gets the
\* accepted acknowledgement, unless its connection ends first (on its side, or
\* by the panic of a send on a closed channel).
SendAnswered ==
    \A c \in Readers, id \in MessageIDs :
        (pc[c] = "store" /\ item[c].id = id)
            ~> \/ \E i \in DOMAIN wire[c] : Accepts(wire[c][i], id)
               \/ socket[c] = "down"
               \/ pc[c] \in {"unbind", "cancel", "done"}

\* A handler that listed the mailbox gets to serve its client.  Holds while the
\* mailbox is shorter than the send channel, which nobody empties until then;
\* violated from there on.
BindCompletes ==
    \A c \in Conns : (pc[c] = "greet") ~> (pc[c] = "loop")

\* Once a client is gone its handler is torn down, whatever it was doing.  Holds
\* while the send channel has room for all a session is sent: a handler that
\* waits at a full channel after the writer ended waits for ever.
TornDown ==
    \A c \in Conns : (socket[c] = "down") ~> pc[c] = "done"

=============================================================================
