--------------------------- MODULE MessageStreams ---------------------------
(***************************************************************************)
(* The message service and the handlers that show an inbox as server-sent  *)
(* events (httpapi/message_handlers.go).  A handler subscribes, lists the  *)
(* inbox and writes it as a snapshot, then writes what its channel brings  *)
(* until its client is gone.  Other variables only record history.         *)
(***************************************************************************)
EXTENDS MessageService

CONSTANTS Addressed,  \* bound: the devices messages are sent to
          Watching    \* bound: the devices streams are opened for

ASSUME StreamsAssumption == Addressed \cup Watching \subseteq DeviceRefs

VARIABLES
    snapshot, \* ids a handler listed; one is in its domain once it has
    sentBy,   \* ids a goroutine stored, in order
    got,      \* ids a handler took from its channel, in order
    owed,     \* ids stored while the subscription was open, for its device
    lost      \* of these, the ids a full channel dropped

observerVars == <<sentBy, got, owed, lost>>
vars == <<serviceVars, snapshot, observerVars>>

Listing == DOMAIN snapshot

Init == /\ ServiceInit
        /\ snapshot = [s \in {} |-> <<>>]
        /\ sentBy = [t \in Callers |-> <<>>]
        /\ got = [s \in Subscribers |-> <<>>]
        /\ owed = [s \in Subscribers |-> {}]
        /\ lost = [s \in Subscribers |-> {}]

ObservedStore(t, m) ==
    /\ Store(t, m)
    /\ sentBy' = [sentBy EXCEPT ![t] = Append(@, m.id)]
    /\ owed' = [s \in Subscribers |->
                   IF s \in subscribersByUser[m.recipient]
                      /\ ShouldDeliver(m, subscriber[s].device)
                   THEN owed[s] \cup {m.id} ELSE owed[s]]
    /\ UNCHANGED <<snapshot, got, lost>>

ObservedDrop(t, s) ==
    /\ FanOutDrop(t, s)
    /\ lost' = [lost EXCEPT ![s] = @ \cup {sends[t].msg.id}]
    /\ UNCHANGED <<snapshot, sentBy, got, owed>>

InboxOf(s) ==
    LET items == ListInbox(subscriber[s].user, subscriber[s].device)
    IN  [i \in DOMAIN items |-> items[i].id]

\* The handler lists the inbox after it has subscribed, in a second step.
Snapshot(s) ==
    /\ s \in DOMAIN subscriber \ Listing
    /\ snapshot' = [x \in Listing \cup {s} |-> IF x = s THEN InboxOf(s) ELSE snapshot[x]]
    /\ UNCHANGED <<serviceVars, observerVars>>

\* The snapshot is written before the first item is taken.
Streaming(s) == s \in Listing /\ subscriber[s].open

ObservedReceive(s) ==
    /\ Streaming(s)
    /\ Receive(s)
    /\ got' = [got EXCEPT ![s] = Append(@, Head(subscriber[s].buf).id)]
    /\ UNCHANGED <<snapshot, sentBy, owed, lost>>

\* A write fails or the client is gone, and the deferred cancel runs: nobody
\* takes what is left in the channel.
StreamEnds(s) == Streaming(s) /\ Cancel(s)

Unobserved ==
    /\ \/ \E t \in Callers : Return(t)
       \/ \E t \in Callers, s \in Subscribers :
             FanOutSkip(t, s) \/ FanOutDeliver(t, s) \/ FanOutPanic(t, s)
       \/ \E s \in Subscribers, u \in Users, d \in Watching : Subscribe(s, u, d)
       \/ \E s \in Subscribers : StreamEnds(s)
    /\ UNCHANGED <<snapshot, observerVars>>

\* Acknowledgements touch no stream and are left to MessageService's own run.
Next ==
    \/ \E t \in Callers, id \in MessageIDs, from \in Users, to \in Users,
          d \in Addressed : ObservedStore(t, NewMessage(id, from, to, d, TRUE))
    \/ \E t \in Callers, s \in Subscribers : ObservedDrop(t, s)
    \/ \E s \in Subscribers : Snapshot(s) \/ ObservedReceive(s)
    \/ Unobserved

Spec == Init /\ [][Next]_vars

-----------------------------------------------------------------------------

\* What the reader of s has received or will find in the channel, in order.
Stream(s) ==
    got[s] \o (IF s \in DOMAIN subscriber
               THEN [i \in DOMAIN subscriber[s].buf |-> subscriber[s].buf[i].id]
               ELSE <<>>)

\* What a fan-out still under way has yet to offer s.
Offers(s) == {sends[t].msg.id : t \in {x \in Callers : Offering(x, s)}}

\* What s never gets because Send died at a stream cancelled beside it.
CutOff(s) == {sends[t].msg.id : t \in {x \in Callers : CutShort(x, s)}}

\* What became of an id that was to reach s by its channel: there, dropped, to be
\* offered yet, or cut off.
Accounted(s) == Listed(Stream(s)) \cup lost[s] \cup Offers(s) \cup CutOff(s)

\* A message stored for a reader while it is subscribed is lost in two ways only:
\* at its full channel, or because a stream of the same user was cancelled between
\* Send's unlock and its fan-out (memory.go:86-97), where Send panics and the
\* subscribers it had not come to go without.  Otherwise it has reached the stream
\* or will: Send misses no subscriber it saw under the mutex.  And since the handler
\* subscribes before it lists the inbox (message_handlers.go:178-181), the same
\* holds of a message of that inbox that is not in the snapshot, whenever it was
\* stored: none falls in between.
NothingElseLost ==
    \A s \in Subscribers :
        /\ owed[s] \subseteq Accounted(s)
        /\ Streaming(s) =>
              Listed(InboxOf(s)) \subseteq Listed(snapshot[s]) \cup Accounted(s)

\* A reader never gets what it was not owed, nor anything twice, nor an item
\* the service counted as dropped.
StreamExact ==
    \A s \in Subscribers :
        LET q == Stream(s)
        IN  /\ Listed(q) \subseteq owed[s]
            /\ Listed(q) \cap lost[s] = {}
            /\ \A i, j \in DOMAIN q : q[i] = q[j] => i = j

\* What a reader was owed, given and refused, as StreamPromise has it.
Promises == INSTANCE StreamPromise WITH
    Readers <- Subscribers, Ids <- MessageIDs, Capacity <- StreamCap,
    promised <- owed,
    stream <- [s \in Subscribers |-> Stream(s)],
    taken <- [s \in Subscribers |-> Len(got[s])],
    missed <- lost

\* While clients reuse no id, the service and its handlers implement
\* StreamPromise, however fan-outs (memory.go:86-97), readers, cancels and later
\* sends interleave: each step that shows on a stream promises a new message to
\* readers, gives one what it is still due, drops that at a full channel and only
\* there, or lets the reader take the oldest; nothing given is changed or moved.
ImplementsPromise == Promises!Spec

\* Fan-outs of two goroutines interleave, so a stream need not follow the order
\* of the store; but what one goroutine sends arrives in the order it sent it.
SenderOrderKept ==
    \A s \in Subscribers, t \in Callers :
        LET q == Stream(s)
            p == sentBy[t]
        IN  \A i, j \in DOMAIN q : \A k, l \in DOMAIN p :
               (q[i] = p[k] /\ q[j] = p[l] /\ k < l) => i < j

=============================================================================
