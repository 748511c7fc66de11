--------------------------- MODULE MessageService ---------------------------
(***************************************************************************)
(* The in-memory message service (service/message/memory.go): the store of *)
(* messages, the per-user indexes over it, and the live inbox streams.     *)
(*                                                                         *)
(* Every method runs under the service's mutex and is one atomic action,   *)
(* except Send: it stores the message and copies the recipient's           *)
(* subscribers under the mutex (Store), then offers the message to the     *)
(* copied channels one by one without it (FanOut...), then returns.  The   *)
(* goroutine that is past the unlock is a record of sends.                 *)
(***************************************************************************)
EXTENDS Integers, Sequences, FiniteSets

CONSTANTS Users,        \* user ids
          Devices,      \* device ids
          NoDevice,     \* the empty device id ""
          MessageIDs,   \* message ids; clients choose them
          Callers,      \* goroutines that call Send
          Subscribers,  \* subscription ids; nextSubscriberID never repeats one
          StreamCap,    \* capacity of a stream's channel (8 in the code)
          MaxInbox,     \* bound: messages stored per recipient
          AckStatuses,  \* the statuses clients acknowledge with
          AllowReuse    \* may a client send a message id a second time?

Statuses == {"stored_offline", "accepted", "delivered", "read", "failed"}

ASSUME ServiceAssumption ==
    /\ NoDevice \notin Devices
    /\ StreamCap \in Nat \ {0}
    /\ MaxInbox \in Nat
    /\ AckStatuses \subseteq Statuses
    /\ AllowReuse \in BOOLEAN

DeviceRefs == Devices \cup {NoDevice}

Message == [id : MessageIDs, sender : Users, recipient : Users,
            device : DeviceRefs, status : Statuses,
            deliveredAt : BOOLEAN, readAt : BOOLEAN]

VARIABLES
    messageByID,        \* the stored messages, a partial function of the id
    inboxIDs,           \* ids addressed to a user, in the order stored
    messageIDs,         \* ids a user sent or was sent, in the order stored
    subscribersByUser,  \* the live subscriptions of a user
    subscriber,         \* what a subscription is bound to, and its channel
    sends,              \* calls of Send past the unlock: message, channels left
    panicked            \* those that sent on a closed channel

storeVars  == <<messageByID, inboxIDs, messageIDs>>
streamVars == <<subscribersByUser, subscriber>>
callVars   == <<sends, panicked>>
serviceVars == <<storeVars, streamVars, callVars>>

Stored == DOMAIN messageByID

Running(t) == t \in DOMAIN sends /\ t \notin panicked

ServiceInit ==
    /\ messageByID = [id \in {} |-> {}]
    /\ inboxIDs = [u \in Users |-> <<>>]
    /\ messageIDs = [u \in Users |-> <<>>]
    /\ subscribersByUser = [u \in Users |-> {}]
    /\ subscriber = [s \in {} |-> {}]
    /\ sends = [t \in {} |-> {}]
    /\ panicked = {}

-----------------------------------------------------------------------------
(* The pure parts. *)

\* A message without a device is for every device of its recipient, and a
\* reader without a device sees every message.
ShouldDeliver(m, d) == d = NoDevice \/ m.device = NoDevice \/ m.device = d

\* The elements of q that are in P, in the order of q.
Selected(q, P) ==
    LET upTo[n \in 0..Len(q)] ==
          IF n = 0 THEN <<>>
          ELSE IF q[n] \in P THEN Append(upTo[n - 1], q[n]) ELSE upTo[n - 1]
    IN  upTo[Len(q)]

\* The items a reader of u's inbox gets, oldest first.
ListInbox(u, d) ==
    LET visible == {id \in Stored : ShouldDeliver(messageByID[id], d)}
        ids == Selected(inboxIDs[u], visible)
    IN  [i \in DOMAIN ids |-> messageByID[ids[i]]]

NewMessage(id, from, to, d, online) ==
    [id |-> id, sender |-> from, recipient |-> to, device |-> d,
     status |-> IF online THEN "accepted" ELSE "stored_offline",
     deliveredAt |-> FALSE, readAt |-> FALSE]

\* The record after the recipient's device d reports status st.
Acked(m, d, st) ==
    [m EXCEPT !.device = IF d = NoDevice THEN @ ELSE d,
              !.status = st,
              !.deliveredAt = @ \/ st \in {"delivered", "read"},
              !.readAt = @ \/ st = "read"]

-----------------------------------------------------------------------------
(* Send. *)

\* The users whose inbox lists a message, and those whose conversations do.
Inboxes(m) == {m.recipient}

\* Mutant: the sender's conversation index is forgotten.
Parties_Recipient(m) == {m.recipient}

Parties(m) == {m.sender, m.recipient}

Indexed(index, users, id) ==
    [u \in Users |-> IF u \in users THEN Append(index[u], id) ELSE index[u]]

\* The part under the mutex.  An id sent before overwrites its record and is
\* listed again: the code never looks whether the id is taken.
Store(t, m) ==
    /\ t \notin DOMAIN sends
    /\ AllowReuse \/ m.id \notin Stored
    /\ Len(inboxIDs[m.recipient]) < MaxInbox
    /\ messageByID' = [id \in Stored \cup {m.id} |->
                          IF id = m.id THEN m ELSE messageByID[id]]
    /\ inboxIDs' = Indexed(inboxIDs, Inboxes(m), m.id)
    /\ messageIDs' = Indexed(messageIDs, Parties(m), m.id)
    /\ sends' = [x \in DOMAIN sends \cup {t} |->
                    IF x = t
                    THEN [msg |-> m, todo |-> subscribersByUser[m.recipient]]
                    ELSE sends[x]]
    /\ UNCHANGED <<streamVars, panicked>>

\* One round of the loop over the copied subscribers, taken in any order (the
\* copy ranges over a map).
Offering(t, s) == Running(t) /\ s \in sends[t].todo

\* Mutant: the fan-out forgets to filter by device.
Wanted_Any(t, s) == s \in DOMAIN subscriber

Wanted(t, s) == ShouldDeliver(sends[t].msg, subscriber[s].device)

Deliverable(t, s) == Offering(t, s) /\ Wanted(t, s) /\ subscriber[s].open

\* Mutant: the loop stays at a channel it has served.
Offered_Again(t, s) == Offering(t, s) /\ UNCHANGED sends

Offered(t, s) == sends' = [sends EXCEPT ![t].todo = @ \ {s}]

FanOutSkip(t, s) ==
    /\ Offering(t, s)
    /\ ~Wanted(t, s)
    /\ Offered(t, s)
    /\ UNCHANGED <<storeVars, streamVars, panicked>>

\* Mutant: the capacity of the channel is not observed.
HasRoom_Any(s) == s \in DOMAIN subscriber

HasRoom(s) == Len(subscriber[s].buf) < StreamCap

\* Mutant: the newest message first.
Queued_InFront(s, m) == <<m>> \o subscriber[s].buf

Queued(s, m) == Append(subscriber[s].buf, m)

FanOutDeliver(t, s) ==
    /\ Deliverable(t, s)
    /\ HasRoom(s)
    /\ subscriber' = [subscriber EXCEPT ![s].buf = Queued(s, sends[t].msg)]
    /\ Offered(t, s)
    /\ UNCHANGED <<storeVars, subscribersByUser, panicked>>

\* Mutant: the loop ends at a full channel.
FanOutDrop_Breaks(t, s) ==
    /\ Deliverable(t, s)
    /\ ~HasRoom(s)
    /\ sends' = [sends EXCEPT ![t].todo = {}]
    /\ UNCHANGED <<storeVars, streamVars, panicked>>

\* Mutant: the select has no default case.
FanOutDrop_Waits(t, s) == Offering(t, s) /\ FALSE /\ UNCHANGED serviceVars

\* The select's default case: a full channel loses the message.
FanOutDrop(t, s) ==
    /\ Deliverable(t, s)
    /\ ~HasRoom(s)
    /\ Offered(t, s)
    /\ UNCHANGED <<storeVars, streamVars, panicked>>

\* A send on a closed channel panics, the select's default case notwithstanding.
FanOutPanic(t, s) ==
    /\ Offering(t, s)
    /\ Wanted(t, s)
    /\ ~subscriber[s].open
    /\ panicked' = panicked \cup {t}
    /\ UNCHANGED <<storeVars, streamVars, sends>>

FanOut(t, s) == \/ FanOutSkip(t, s)
                \/ FanOutDeliver(t, s)
                \/ FanOutDrop(t, s)
                \/ FanOutPanic(t, s)

Return(t) ==
    /\ Running(t)
    /\ sends[t].todo = {}
    /\ sends' = [x \in DOMAIN sends \ {t} |-> sends[x]]
    /\ UNCHANGED <<storeVars, streamVars, panicked>>

-----------------------------------------------------------------------------
(* The other methods, and the reader of a stream. *)

\* Mutant: any device of the recipient may acknowledge.
CanAcknowledge_AnyDevice(id, u, d) ==
    /\ id \in Stored
    /\ messageByID[id].recipient = u
    /\ d \in DeviceRefs

\* What Acknowledge checks before it changes the record.
CanAcknowledge(id, u, d) ==
    /\ id \in Stored
    /\ messageByID[id].recipient = u
    /\ d = NoDevice \/ messageByID[id].device \in {NoDevice, d}

Acknowledge(id, u, d, st) ==
    /\ CanAcknowledge(id, u, d)
    /\ messageByID' = [messageByID EXCEPT ![id] = Acked(@, d, st)]
    /\ UNCHANGED <<inboxIDs, messageIDs, streamVars, callVars>>

Subscribe(s, u, d) ==
    /\ s \notin DOMAIN subscriber
    /\ subscriber' = [x \in DOMAIN subscriber \cup {s} |->
                         IF x = s
                         THEN [user |-> u, device |-> d, open |-> TRUE, buf |-> <<>>]
                         ELSE subscriber[x]]
    /\ subscribersByUser' = [subscribersByUser EXCEPT ![u] = @ \cup {s}]
    /\ UNCHANGED <<storeVars, callVars>>

\* Mutant: the channel is closed and its entry left in the map.
Remaining_All(s) == subscribersByUser[subscriber[s].user]

Remaining(s) == subscribersByUser[subscriber[s].user] \ {s}

\* The cancel function SubscribeInbox returns; a second call changes nothing.
Cancel(s) ==
    /\ s \in DOMAIN subscriber
    /\ s \in subscribersByUser[subscriber[s].user]
    /\ subscribersByUser' = [subscribersByUser EXCEPT ![subscriber[s].user] = Remaining(s)]
    /\ subscriber' = [subscriber EXCEPT ![s].open = FALSE]
    /\ UNCHANGED <<storeVars, callVars>>

\* The reader takes the next item; a closed channel is drained first.
Receive(s) ==
    /\ s \in DOMAIN subscriber
    /\ subscriber[s].buf # <<>>
    /\ subscriber' = [subscriber EXCEPT ![s].buf = Tail(@)]
    /\ UNCHANGED <<storeVars, subscribersByUser, callVars>>

-----------------------------------------------------------------------------

ServiceNext ==
    \/ \E t \in Callers, id \in MessageIDs, from \in Users, to \in Users,
          d \in DeviceRefs, online \in BOOLEAN :
          Store(t, NewMessage(id, from, to, d, online))
    \/ \E t \in Callers, s \in Subscribers : FanOut(t, s)
    \/ \E t \in Callers : Return(t)
    \/ \E id \in MessageIDs, u \in Users, d \in DeviceRefs, st \in AckStatuses :
          Acknowledge(id, u, d, st)
    \/ \E s \in Subscribers, u \in Users, d \in DeviceRefs : Subscribe(s, u, d)
    \/ \E s \in Subscribers : Cancel(s) \/ Receive(s)

ServiceSpec == ServiceInit /\ [][ServiceNext]_serviceVars

-----------------------------------------------------------------------------
(* Properties. *)

Listed(q) == {q[i] : i \in DOMAIN q}

\* Every variable has its type; a channel never holds more than its capacity.
ServiceTypeOK ==
    /\ Stored \subseteq MessageIDs
    /\ messageByID \in [Stored -> Message]
    /\ inboxIDs \in [Users -> Seq(MessageIDs)]
    /\ messageIDs \in [Users -> Seq(MessageIDs)]
    /\ subscribersByUser \in [Users -> SUBSET Subscribers]
    /\ DOMAIN subscriber \subseteq Subscribers
    /\ subscriber \in [DOMAIN subscriber ->
                          [user : Users, device : DeviceRefs, open : BOOLEAN,
                           buf : Seq(Message)]]
    /\ \A s \in DOMAIN subscriber : Len(subscriber[s].buf) <= StreamCap
    /\ DOMAIN sends \subseteq Callers
    /\ sends \in [DOMAIN sends -> [msg : Message, todo : SUBSET Subscribers]]
    /\ panicked \subseteq DOMAIN sends

\* The store and its two indexes agree, whatever ids clients choose: a listed
\* id is stored (no ListInbox or ListConversations skips a message it lists), a
\* stored message is in the inbox of its recipient and in the conversation index
\* of both its users, and whatever is in an inbox is in that user's index too.
IndexesAgree ==
    /\ \A u \in Users : /\ Listed(inboxIDs[u]) \subseteq Stored
                        /\ Listed(inboxIDs[u]) \subseteq Listed(messageIDs[u])
                        /\ Listed(messageIDs[u]) \subseteq Stored
    /\ \A id \in Stored :
          LET m == messageByID[id]
          IN  /\ m.id = id
              /\ id \in Listed(inboxIDs[m.recipient])
              /\ id \in Listed(messageIDs[m.sender])

\* While clients reuse no id, an inbox lists only messages addressed to its
\* user, each once.  (An id sent again to another user leaves the first inbox
\* naming a message that is not for its user.)
InboxAddressed ==
    \A u \in Users : LET q == inboxIDs[u]
                     IN  \A i, j \in DOMAIN q :
                            /\ messageByID[q[i]].recipient = u
                            /\ q[i] = q[j] => i = j

\* The subscriber map holds a subscription exactly while its channel is open,
\* under the user it was made for: no cancel leaves a closed channel behind for
\* a later Send, and none closes a channel it does not remove.
SubscriptionsAgree ==
    \A u \in Users : subscribersByUser[u] =
        {s \in DOMAIN subscriber : subscriber[s].user = u /\ subscriber[s].open}

\* A stream holds, and a fan-out in progress will offer it, only messages for
\* its user; what it holds is for its device.
StreamsAddressed ==
    /\ \A t \in DOMAIN sends : \A s \in sends[t].todo :
          s \in DOMAIN subscriber /\ subscriber[s].user = sends[t].msg.recipient
    /\ \A s \in DOMAIN subscriber : \A i \in DOMAIN subscriber[s].buf :
          LET m == subscriber[s].buf[i]
          IN  /\ m.recipient = subscriber[s].user
              /\ ShouldDeliver(m, subscriber[s].device)

\* Except by a Send of the same id, a stored message never changes hands: its
\* users are fixed, the device it is for is fixed once known (an acknowledgement
\* from another device cannot take it over), and its receipts are never taken
\* back.
RecordKeepsHands ==
    [][\A id \in Stored :
          LET m == messageByID[id]
              n == messageByID'[id]
          IN  \/ \E u \in Users : inboxIDs'[u] = Append(inboxIDs[u], id)
              \/ /\ n.sender = m.sender
                 /\ n.recipient = m.recipient
                 /\ m.device # NoDevice => n.device = m.device
                 /\ m.deliveredAt => n.deliveredAt
                 /\ m.readAt => n.readAt]_serviceVars

\* Send never waits for a reader: whatever the state of the streams it offers
\* the message to, its goroutine has a next step.
SendNeverBlocks ==
    \A t \in Callers : Running(t) =>
        ENABLED (Return(t) \/ \E s \in Subscribers : FanOut(t, s))

\* No call of Send dies: the accepted acknowledgement its caller owes the sender
\* comes after it.  Violated: a subscription cancelled after Send copied the
\* subscribers closes a channel Send is about to use.
SendReturns == panicked = {}

\* The Send of goroutine t died before it came to s: a stream of the recipient that
\* it had not come to either was cancelled meanwhile.  s gets its message from no one.
CutShort(t, s) ==
    /\ t \in panicked
    /\ s \in sends[t].todo
    /\ \E x \in sends[t].todo : Wanted(t, x) /\ ~subscriber[x].open

=============================================================================
