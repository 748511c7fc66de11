------------------------ MODULE MessageStreamsProofs ------------------------
(***************************************************************************)
(* What MessageStreams keeps invariant while clients reuse no message id,  *)
(* for every set of users, devices, ids, goroutines and streams and every  *)
(* channel capacity: no message is lost between a snapshot and its stream, *)
(* none comes twice, and one sender's messages come in order.              *)
(***************************************************************************)
EXTENDS MessageStreams, MessageServiceProofs

(* The inductive invariant, beside what MessageServiceProofs proves of the *)
(* service alone.                                                          *)

\* The type of the history.
HistoryTypeOK ==
    /\ Listing \subseteq DOMAIN subscriber
    /\ sentBy \in [Callers -> Seq(MessageIDs)]
    /\ got \in [Subscribers -> Seq(MessageIDs)]
    /\ owed \in [Subscribers -> SUBSET MessageIDs]
    /\ lost \in [Subscribers -> SUBSET MessageIDs]

\* The fan-out of t is still to offer its message to s, who wants it.
Pending(t, s) == t \in DOMAIN sends /\ s \in sends[t].todo /\ Wanted(t, s)

\* A message is owed only once it is stored, and dropped only if it was owed.
OwedStored ==
    \A s \in Subscribers : owed[s] \subseteq Stored /\ lost[s] \subseteq owed[s]

\* Every fan-out carries a stored message of its own.
OwnMessages ==
    /\ \A t \in DOMAIN sends : sends[t].msg.id \in Stored
    /\ \A t, r \in DOMAIN sends : sends[t].msg.id = sends[r].msg.id => t = r

\* What is on its way is owed, and has neither arrived nor been dropped.
PendingOwed ==
    \A t \in Callers, s \in Subscribers : Pending(t, s) =>
        LET id == sends[t].msg.id
        IN  id \in owed[s] /\ id \notin Listed(Stream(s)) /\ id \notin lost[s]

\* What is owed has arrived, was dropped, or is on its way.
OwedAccounted ==
    \A s \in Subscribers : \A id \in owed[s] :
        \/ id \in Listed(Stream(s)) \cup lost[s]
        \/ \E t \in Callers : Pending(t, s) /\ sends[t].msg.id = id

\* The ids of a reader's inbox that are for its device.
Visible(s) ==
    {id \in Listed(inboxIDs[subscriber[s].user]) :
        ShouldDeliver(messageByID[id], subscriber[s].device)}

\* What a stream's handler did not list, it is owed.
ListedOrOwed ==
    \A s \in Listing : subscriber[s].open =>
        Visible(s) \subseteq Listed(snapshot[s]) \cup owed[s]

NoRepeats(q) == \A i, j \in DOMAIN q : q[i] = q[j] => i = j

\* A goroutine stores fresh ids, and its fan-out carries the last of them.
OwnHistory ==
    /\ \A t \in Callers : Listed(sentBy[t]) \subseteq Stored /\ NoRepeats(sentBy[t])
    /\ \A t, r \in Callers : t # r => Listed(sentBy[t]) \cap Listed(sentBy[r]) = {}
    /\ \A t \in DOMAIN sends :
          sentBy[t] # <<>> /\ sentBy[t][Len(sentBy[t])] = sends[t].msg.id

\* The part of the invariant that is about messages on their way.
Core ==
    /\ OwedStored
    /\ OwnMessages
    /\ PendingOwed
    /\ OwedAccounted
    /\ OwnHistory
    /\ StreamExact
    /\ SenderOrderKept

StreamIInv == HistoryTypeOK /\ ListedOrOwed /\ Core

-----------------------------------------------------------------------------
(* Streams. *)

Buffered(s) ==
    IF s \in DOMAIN subscriber
    THEN [i \in DOMAIN subscriber[s].buf |-> subscriber[s].buf[i].id]
    ELSE <<>>

\* A stream is a list of ids: those taken, then those in the channel.
LEMMA StreamType ==
    ASSUME ServiceTypeOK, HistoryTypeOK, NEW s \in Subscribers
    PROVE  /\ got[s] \in Seq(MessageIDs) /\ Buffered(s) \in Seq(MessageIDs)
           /\ Stream(s) = got[s] \o Buffered(s)
           /\ Stream(s) \in Seq(MessageIDs)
<1>1. Buffered(s) \in Seq(MessageIDs)
  <2>1. CASE s \in DOMAIN subscriber
    <3> DEFINE b == subscriber[s].buf
    <3>1. b \in Seq(Message)
      BY <2>1 DEF ServiceTypeOK
    <3>2. Len(b) \in Nat /\ DOMAIN b = 1..Len(b) /\ \A i \in 1..Len(b) : b[i] \in Message
      BY <3>1
    <3>3. \A i \in 1..Len(b) : b[i].id \in MessageIDs
      BY <3>2 DEF Message
    <3> HIDE DEF b
    <3>4. [i \in 1..Len(b) |-> b[i].id] \in Seq(MessageIDs)
      BY <3>2, <3>3, IsASeq
    <3> QED
      BY <2>1, <3>2, <3>4 DEF Buffered, b
  <2>2. CASE s \notin DOMAIN subscriber
    BY <2>2 DEF Buffered
  <2> QED
    BY <2>1, <2>2
<1>2. got[s] \in Seq(MessageIDs)
  BY DEF HistoryTypeOK
<1>3. Stream(s) = got[s] \o Buffered(s)
  BY DEF Stream, Buffered
<1> QED
  BY <1>1, <1>2, <1>3, ConcatProperties

\* What a fan-out puts into a channel comes last in its stream.
LEMMA DeliverStream ==
    ASSUME ServiceTypeOK, HistoryTypeOK, NEW t \in Callers, NEW s \in Subscribers,
           FanOutDeliver(t, s), s \in DOMAIN subscriber, got' = got
    PROVE  /\ Stream(s)' = Append(Stream(s), sends[t].msg.id)
           /\ \A x \in Subscribers : x # s => Stream(x)' = Stream(x)
<1> DEFINE b == subscriber[s].buf
           m == sends[t].msg
           ids == [i \in DOMAIN b |-> b[i].id]
           longer == [i \in DOMAIN Append(b, m) |-> Append(b, m)[i].id]
<1>1. t \in DOMAIN sends /\ m \in Message /\ m.id \in MessageIDs
  BY DEF FanOutDeliver, Deliverable, Offering, Running, ServiceTypeOK, Message
<1>2. b \in Seq(Message)
  BY DEF ServiceTypeOK
<1>3. subscriber' = [subscriber EXCEPT ![s].buf = Append(b, m)]
  BY DEF FanOutDeliver, Queued
<1>4. /\ DOMAIN subscriber' = DOMAIN subscriber
      /\ subscriber'[s].buf = Append(b, m)
      /\ \A x \in DOMAIN subscriber : x # s => subscriber'[x] = subscriber[x]
  BY <1>3 DEF ServiceTypeOK
<1>5. \A x \in Subscribers : x # s => Stream(x)' = Stream(x)
  BY <1>4 DEF Stream
<1>6. /\ Len(b) \in Nat /\ DOMAIN b = 1..Len(b)
      /\ DOMAIN Append(b, m) = 1..(Len(b) + 1)
      /\ \A i \in 1..Len(b) : Append(b, m)[i] = b[i]
      /\ Append(b, m)[Len(b) + 1] = m
  BY <1>1, <1>2
<1>7. ids \in Seq(MessageIDs) /\ got[s] \in Seq(MessageIDs)
  <2>1. Buffered(s) = ids
    BY DEF Buffered
  <2> QED
    BY <2>1, StreamType
<1>8. longer = Append(ids, m.id)
  <2>1. Len(ids) = Len(b)
    BY <1>6, <1>7
  <2>2. /\ DOMAIN Append(ids, m.id) = 1..(Len(b) + 1)
        /\ \A i \in 1..Len(b) : Append(ids, m.id)[i] = ids[i]
        /\ Append(ids, m.id)[Len(b) + 1] = m.id
        /\ Append(ids, m.id) = [i \in 1..(Len(b) + 1) |-> Append(ids, m.id)[i]]
    BY <1>1, <1>7, <2>1
  <2>3. ASSUME NEW i \in 1..(Len(b) + 1) PROVE longer[i] = Append(ids, m.id)[i]
    <3>1. CASE i = Len(b) + 1
      BY <1>6, <2>2, <3>1
    <3>2. CASE i \in 1..Len(b)
      BY <1>6, <2>2, <3>2
    <3> QED
      BY <3>1, <3>2, <1>6
  <2>4. longer = [i \in 1..(Len(b) + 1) |-> longer[i]]
    BY <1>6
  <2> HIDE DEF longer, ids
  <2> QED
    BY <2>2, <2>3, <2>4
<1>9. Stream(s)' = got[s] \o longer
  BY <1>4 DEF Stream
<1>10. Stream(s) = got[s] \o ids
  BY DEF Stream
<1> HIDE DEF longer, ids, m
<1>11. got[s] \o Append(ids, m.id) = Append(got[s] \o ids, m.id)
  <2>1. m.id \in MessageIDs
    BY <1>1 DEF m
  <2>2. ASSUME NEW p \in Seq(MessageIDs), NEW q \in Seq(MessageIDs), NEW x \in MessageIDs
        PROVE  p \o Append(q, x) = Append(p \o q, x)
    BY ConcatAppend
  <2> QED
    BY <1>7, <2>1, <2>2
<1> QED
  BY <1>5, <1>8, <1>9, <1>10, <1>11 DEF m

\* Taking an item moves it from the channel to what was taken: the stream stays.
LEMMA ReceiveStream ==
    ASSUME ServiceTypeOK, HistoryTypeOK, NEW s \in Subscribers, ObservedReceive(s)
    PROVE  \A x \in Subscribers : Stream(x)' = Stream(x)
<1> DEFINE b == subscriber[s].buf
           ids == [i \in DOMAIN b |-> b[i].id]
           rest == [i \in DOMAIN Tail(b) |-> Tail(b)[i].id]
<1>1. s \in DOMAIN subscriber /\ b \in Seq(Message) /\ b # <<>>
  BY DEF ObservedReceive, Receive, ServiceTypeOK
<1>2. /\ DOMAIN subscriber' = DOMAIN subscriber
      /\ subscriber'[s].buf = Tail(b)
      /\ \A x \in DOMAIN subscriber : x # s => subscriber'[x] = subscriber[x]
  BY <1>1 DEF ObservedReceive, Receive, ServiceTypeOK
<1>3. /\ got'[s] = Append(got[s], Head(b).id)
      /\ \A x \in Subscribers : x # s => got'[x] = got[x]
  BY DEF ObservedReceive, HistoryTypeOK
<1>4. \A x \in Subscribers : x # s => Stream(x)' = Stream(x)
  BY <1>2, <1>3 DEF Stream
<1>5. /\ Len(b) \in Nat /\ Len(b) > 0 /\ DOMAIN b = 1..Len(b)
      /\ Head(b) = b[1] /\ b[1] \in Message
      /\ Tail(b) \in Seq(Message)
      /\ DOMAIN Tail(b) = 1..(Len(b) - 1)
      /\ \A i \in 1..(Len(b) - 1) : Tail(b)[i] = b[i + 1]
  BY <1>1
<1>6. b[1].id \in MessageIDs
  BY <1>5 DEF Message
<1>7. ids \in Seq(MessageIDs) /\ got[s] \in Seq(MessageIDs)
  <2>1. Buffered(s) = ids
    BY <1>1 DEF Buffered
  <2> QED
    BY <2>1, StreamType
<1>8. Len(ids) = Len(b) /\ ids # <<>> /\ Head(ids) = b[1].id
  BY <1>5, <1>7
<1>9. rest = Tail(ids) /\ Tail(ids) \in Seq(MessageIDs)
  <2>1. /\ Tail(ids) \in Seq(MessageIDs) /\ Len(Tail(ids)) = Len(ids) - 1
        /\ \A i \in 1..Len(Tail(ids)) : Tail(ids)[i] = ids[i + 1]
    <3> HIDE DEF ids, rest
    <3> QED
      BY <1>7, <1>8, HeadTailProperties
  <2>2. ASSUME NEW i \in 1..(Len(b) - 1)
        PROVE  rest[i] = ids[i + 1] /\ rest[i] \in MessageIDs
    <3>1. i + 1 \in DOMAIN b /\ i \in DOMAIN Tail(b) /\ Tail(b)[i] \in Message
      BY <1>5
    <3>2. rest[i] = Tail(b)[i].id /\ ids[i + 1] = b[i + 1].id
      BY <3>1
    <3> QED
      BY <1>5, <3>1, <3>2 DEF Message
  <2>3. rest = [i \in 1..(Len(b) - 1) |-> rest[i]]
    BY <1>5
  <2> HIDE DEF rest, ids
  <2>4. rest \in Seq(MessageIDs) /\ Len(rest) = Len(b) - 1
    BY <1>5, <2>2, <2>3, IsASeq
  <2>5. Len(Tail(ids)) = Len(b) - 1
    BY <1>8, <2>1
  <2> QED
    BY <2>1, <2>2, <2>4, <2>5, SeqEqual
<1>10. Stream(s)' = Append(got[s], b[1].id) \o rest
  BY <1>1, <1>2, <1>3, <1>5 DEF Stream
<1>11. Stream(s) = got[s] \o ids
  BY <1>1 DEF Stream
<1> HIDE DEF rest, ids
<1>12. Append(got[s], Head(ids)) \o Tail(ids) = got[s] \o ids
  BY <1>7, <1>8, ConcatHead
<1> QED
  BY <1>4, <1>8, <1>9, <1>10, <1>11, <1>12

-----------------------------------------------------------------------------
(* The steps. *)

\* A step of the handlers is a step of the service, or leaves it alone.
LEMMA ServiceStep ==
    ASSUME [Next]_vars PROVE [ServiceNext]_serviceVars
<1>1. ASSUME NEW t \in Callers, NEW id \in MessageIDs, NEW from \in Users,
             NEW to \in Users, NEW d \in Addressed,
             ObservedStore(t, NewMessage(id, from, to, d, TRUE))
      PROVE  ServiceNext
  <2>1. d \in DeviceRefs /\ TRUE \in BOOLEAN
    BY StreamsAssumption
  <2> QED
    BY <1>1, <2>1 DEF ObservedStore, ServiceNext
<1>2. ASSUME NEW t \in Callers, NEW s \in Subscribers, ObservedDrop(t, s)
      PROVE  ServiceNext
  BY <1>2 DEF ObservedDrop, ServiceNext, FanOut
<1>3. ASSUME NEW s \in Subscribers, Snapshot(s) PROVE UNCHANGED serviceVars
  BY <1>3 DEF Snapshot
<1>4. ASSUME NEW s \in Subscribers, ObservedReceive(s) PROVE ServiceNext
  BY <1>4 DEF ObservedReceive, ServiceNext
<1>5. ASSUME Unobserved PROVE ServiceNext
  <2>1. ASSUME NEW s \in Subscribers, NEW u \in Users, NEW d \in Watching, Subscribe(s, u, d)
        PROVE  ServiceNext
    BY <2>1, StreamsAssumption DEF ServiceNext
  <2>2. ASSUME NEW t \in Callers, Return(t) PROVE ServiceNext
    BY <2>2 DEF ServiceNext
  <2>3. ASSUME NEW t \in Callers, NEW s \in Subscribers,
               FanOutSkip(t, s) \/ FanOutDeliver(t, s) \/ FanOutPanic(t, s)
        PROVE  ServiceNext
    BY <2>3 DEF ServiceNext, FanOut
  <2>4. ASSUME NEW s \in Subscribers, StreamEnds(s) PROVE ServiceNext
    BY <2>4 DEF StreamEnds, ServiceNext
  <2> QED
    BY <1>5, <2>1, <2>2, <2>3, <2>4 DEF Unobserved
<1>6. CASE UNCHANGED vars
  BY <1>6 DEF vars
<1> QED
  BY <1>1, <1>2, <1>3, <1>4, <1>5, <1>6 DEF Next

\* Beside these handlers the service behaves as MessageService has it, so that what
\* MessageServiceProofs shows of it holds.
LEMMA StreamsUseService == Spec => ServiceSpec
<1>1. Init => ServiceInit
  BY DEF Init
<1>2. [Next]_vars => [ServiceNext]_serviceVars
  BY ServiceStep
<1> QED
  BY <1>1, <1>2, PTL DEF Spec, ServiceSpec

LEMMA ServiceInvariants ==
    Spec => [](ServiceTypeOK /\ IndexesAgree /\ SubscriptionsAgree /\ StreamsAddressed)
BY StreamsUseService, TypeCorrect, IndexSafety, SubscriptionSafety, StreamSafety, PTL

\* Steps that offer, store and drop nothing.
Quiet ==
    \/ \E t \in Callers : Return(t) /\ UNCHANGED <<snapshot, observerVars>>
    \/ \E t \in Callers, s \in Subscribers :
          (FanOutSkip(t, s) \/ FanOutPanic(t, s)) /\ UNCHANGED <<snapshot, observerVars>>
    \/ \E s \in Subscribers, u \in Users, d \in DeviceRefs :
          Subscribe(s, u, d) /\ UNCHANGED <<snapshot, observerVars>>
    \/ \E s \in Subscribers : StreamEnds(s) /\ UNCHANGED <<snapshot, observerVars>>
    \/ \E s \in Subscribers : Snapshot(s) \/ ObservedReceive(s)
    \/ UNCHANGED vars

\* Every step stores, delivers or drops a message, or is one of those.
LEMMA Steps ==
    ASSUME [Next]_vars
    PROVE  \/ \E t \in Callers, id \in MessageIDs, from \in Users, to \in Users,
                 d \in DeviceRefs : ObservedStore(t, NewMessage(id, from, to, d, TRUE))
           \/ \E t \in Callers, s \in Subscribers :
                 FanOutDeliver(t, s) /\ UNCHANGED <<snapshot, observerVars>>
           \/ \E t \in Callers, s \in Subscribers : ObservedDrop(t, s)
           \/ Quiet
<1>1. Addressed \subseteq DeviceRefs /\ Watching \subseteq DeviceRefs
  BY StreamsAssumption
<1>2. CASE Unobserved
  BY <1>1, <1>2 DEF Unobserved, Quiet
<1>3. ASSUME NEW s \in Subscribers, Snapshot(s) \/ ObservedReceive(s) PROVE Quiet
  BY <1>3 DEF Quiet
<1>4. CASE UNCHANGED vars
  BY <1>4 DEF Quiet
<1> QED
  BY <1>1, <1>2, <1>3, <1>4 DEF Next

\* What a round of a fan-out does to the goroutines that are sending.
LEMMA OfferedEffect ==
    ASSUME ServiceTypeOK, NEW t \in Callers, NEW s \in Subscribers,
           Offering(t, s), Offered(t, s)
    PROVE  /\ t \in DOMAIN sends /\ DOMAIN sends' = DOMAIN sends
           /\ \A x \in DOMAIN sends : sends'[x].msg = sends[x].msg
           /\ \A x \in DOMAIN sends :
                 sends'[x].todo = IF x = t THEN sends[x].todo \ {s} ELSE sends[x].todo
<1>1. t \in DOMAIN sends /\ sends[t] \in [msg : Message, todo : SUBSET Subscribers]
  BY DEF Offering, Running, ServiceTypeOK
<1> QED
  BY <1>1 DEF Offered

\* What is pending stays pending.
SamePending ==
    /\ DOMAIN sends' \subseteq DOMAIN sends
    /\ \A t \in DOMAIN sends' : sends'[t].msg = sends[t].msg
    /\ \A t \in Callers, s \in Subscribers : Pending(t, s)' <=> Pending(t, s)

\* A quiet step changes neither what is pending, nor a stream, nor what was stored.
LEMMA QuietEffect ==
    ASSUME ServiceTypeOK, StreamsAddressed, HistoryTypeOK, Quiet
    PROVE  /\ SamePending
           /\ UNCHANGED storeVars
           /\ UNCHANGED <<sentBy, owed, lost>>
           /\ \A x \in Subscribers : Stream(x)' = Stream(x)
<1> DEFINE Effect == /\ SamePending
                     /\ UNCHANGED storeVars
                     /\ UNCHANGED <<sentBy, owed, lost>>
                     /\ \A x \in Subscribers : Stream(x)' = Stream(x)
<1>1. ASSUME NEW t \in Callers, Return(t), UNCHANGED <<snapshot, observerVars>>
      PROVE  Effect
  <2>1. /\ DOMAIN sends' = DOMAIN sends \ {t}
        /\ sends[t].todo = {}
        /\ \A x \in DOMAIN sends' : sends'[x] = sends[x]
        /\ subscriber' = subscriber
    BY <1>1 DEF Return, streamVars
  <2>2. SamePending
    BY <2>1 DEF SamePending, Pending, Wanted, ShouldDeliver
  <2> QED
    BY <1>1, <2>1, <2>2 DEF Return, observerVars, Stream
<1>2. ASSUME NEW t \in Callers, NEW s \in Subscribers,
             FanOutSkip(t, s) \/ FanOutPanic(t, s), UNCHANGED <<snapshot, observerVars>>
      PROVE  Effect
  <2>1. subscriber' = subscriber /\ UNCHANGED storeVars
    BY <1>2 DEF FanOutSkip, FanOutPanic, streamVars
  <2>2. CASE FanOutSkip(t, s)
    <3>1. /\ DOMAIN sends' = DOMAIN sends
          /\ \A x \in DOMAIN sends : sends'[x].msg = sends[x].msg
          /\ \A x \in DOMAIN sends :
                sends'[x].todo = IF x = t THEN sends[x].todo \ {s} ELSE sends[x].todo
      BY <2>2, OfferedEffect DEF FanOutSkip
    <3>2. ~Wanted(t, s)
      BY <2>2 DEF FanOutSkip
    <3>3. SamePending
      BY <2>1, <3>1, <3>2 DEF SamePending, Pending, Wanted, ShouldDeliver
    <3> QED
      BY <1>2, <2>1, <3>3 DEF observerVars, Stream
  <2>3. CASE FanOutPanic(t, s)
    <3>1. sends' = sends
      BY <2>3 DEF FanOutPanic
    <3>2. SamePending
      BY <2>1, <3>1 DEF SamePending, Pending, Wanted, ShouldDeliver
    <3> QED
      BY <1>2, <2>1, <3>2 DEF observerVars, Stream
  <2> QED
    BY <1>2, <2>2, <2>3
<1>3. ASSUME sends' = sends,
             \A x \in DOMAIN subscriber : subscriber'[x].device = subscriber[x].device
      PROVE  SamePending
  <2>1. \A t \in DOMAIN sends : \A x \in sends[t].todo : x \in DOMAIN subscriber
    BY DEF StreamsAddressed
  <2> QED
    BY <1>3, <2>1 DEF SamePending, Pending, Wanted, ShouldDeliver
<1>4. ASSUME NEW s \in Subscribers, NEW u \in Users, NEW d \in DeviceRefs,
             Subscribe(s, u, d), UNCHANGED <<snapshot, observerVars>>
      PROVE  Effect
  <2>1. /\ s \notin DOMAIN subscriber
        /\ DOMAIN subscriber' = DOMAIN subscriber \cup {s}
        /\ subscriber'[s].buf = <<>>
        /\ \A x \in DOMAIN subscriber : subscriber'[x] = subscriber[x]
        /\ sends' = sends /\ UNCHANGED storeVars
    BY <1>4 DEF Subscribe, callVars
  <2>2. got' = got /\ UNCHANGED <<sentBy, owed, lost>>
    BY <1>4 DEF observerVars
  <2>3. ASSUME NEW x \in Subscribers PROVE Stream(x)' = Stream(x)
    <3>1. CASE x = s
      <4>1. [i \in DOMAIN <<>> |-> <<>>[i].id] = <<>>
        OBVIOUS
      <4> QED
        BY <2>1, <2>2, <3>1, <4>1 DEF Stream
    <3>2. CASE x # s
      BY <2>1, <2>2, <3>2 DEF Stream
    <3> QED
      BY <3>1, <3>2
  <2> QED
    BY <1>3, <2>1, <2>2, <2>3
<1>5. ASSUME NEW s \in Subscribers, StreamEnds(s), UNCHANGED <<snapshot, observerVars>>
      PROVE  Effect
  <2>1. s \in DOMAIN subscriber /\ subscriber[s] \in Subscription
    BY <1>5 DEF StreamEnds, Cancel, ServiceTypeOK, Subscription
  <2>2. /\ DOMAIN subscriber' = DOMAIN subscriber
        /\ \A x \in DOMAIN subscriber : /\ subscriber'[x].device = subscriber[x].device
                                        /\ subscriber'[x].buf = subscriber[x].buf
        /\ sends' = sends /\ UNCHANGED storeVars
    BY <1>5, <2>1 DEF StreamEnds, Cancel, callVars, Subscription
  <2>3. got' = got /\ UNCHANGED <<sentBy, owed, lost>>
    BY <1>5 DEF observerVars
  <2> QED
    BY <1>3, <2>2, <2>3 DEF Stream
<1>6. ASSUME NEW s \in Subscribers, ObservedReceive(s) PROVE Effect
  <2>1. \A x \in Subscribers : Stream(x)' = Stream(x)
    BY <1>6, ReceiveStream
  <2>2. s \in DOMAIN subscriber /\ subscriber[s] \in Subscription
    BY <1>6 DEF ObservedReceive, Receive, ServiceTypeOK, Subscription
  <2>3. \A x \in DOMAIN subscriber : subscriber'[x].device = subscriber[x].device
    BY <1>6, <2>2 DEF ObservedReceive, Receive, Subscription
  <2> QED
    BY <1>3, <1>6, <2>1, <2>3 DEF ObservedReceive, Receive, callVars
<1>7. ASSUME UNCHANGED serviceVars, UNCHANGED observerVars PROVE Effect
  BY <1>3, <1>7 DEF serviceVars, streamVars, callVars, observerVars, Stream
<1>8. ASSUME NEW s \in Subscribers, Snapshot(s) PROVE Effect
  BY <1>7, <1>8 DEF Snapshot
<1>9. ASSUME UNCHANGED vars PROVE Effect
  BY <1>7, <1>9 DEF vars
<1> HIDE DEF Effect
<1>10. Effect
  BY <1>1, <1>2, <1>4, <1>5, <1>6, <1>8, <1>9 DEF Quiet
<1> QED
  BY <1>10 DEF Effect

\* So it keeps the invariant's core.
LEMMA QuietKeeps ==
    ASSUME ServiceTypeOK, StreamsAddressed, HistoryTypeOK, Core, Quiet
    PROVE  Core'
<1>1. /\ SamePending
      /\ Stored' = Stored
      /\ sentBy' = sentBy /\ owed' = owed /\ lost' = lost
      /\ \A x \in Subscribers : Stream(x)' = Stream(x)
  BY QuietEffect DEF storeVars, Stored
<1> USE DEF Core
<1>2. OwedStored'
  BY <1>1 DEF OwedStored
<1>3. OwnMessages'
  BY <1>1 DEF OwnMessages, SamePending
<1>4. ASSUME NEW t \in Callers, NEW s \in Subscribers, Pending(t, s)'
      PROVE  Pending(t, s) /\ sends'[t].msg = sends[t].msg
  <2>1. Pending(t, s) /\ t \in DOMAIN sends'
    BY <1>1, <1>4 DEF SamePending, Pending
  <2> QED
    BY <1>1, <2>1 DEF SamePending
<1>5. PendingOwed'
  BY <1>1, <1>4 DEF PendingOwed
<1>6. OwedAccounted'
  <2> SUFFICES ASSUME NEW s \in Subscribers, NEW id \in owed[s],
                      id \notin Listed(Stream(s)) \cup lost[s]
               PROVE  \E t \in Callers : Pending(t, s)' /\ sends'[t].msg.id = id
    BY <1>1 DEF OwedAccounted
  <2>1. PICK t \in Callers : Pending(t, s) /\ sends[t].msg.id = id
    BY DEF OwedAccounted
  <2>2. Pending(t, s)'
    BY <1>1, <2>1 DEF SamePending
  <2> QED
    BY <1>4, <2>1, <2>2
<1>7. OwnHistory'
  BY <1>1 DEF OwnHistory, SamePending
<1>8. StreamExact'
  BY <1>1 DEF StreamExact
<1>9. SenderOrderKept'
  BY <1>1 DEF SenderOrderKept
<1> QED
  BY <1>2, <1>3, <1>5, <1>6, <1>7, <1>8, <1>9

\* A round of a fan-out that delivers or drops its message settles what was pending
\* between the two, and only that.
LEMMA RoundEffect ==
    ASSUME ServiceTypeOK, StreamsAddressed, NEW t \in Callers, NEW s \in Subscribers,
           FanOutDeliver(t, s) \/ FanOutDrop(t, s)
    PROVE  /\ Pending(t, s) /\ s \in DOMAIN subscriber
           /\ DOMAIN sends' = DOMAIN sends
           /\ \A x \in DOMAIN sends : sends'[x].msg = sends[x].msg
           /\ \A x \in Callers, y \in Subscribers :
                 Pending(x, y)' <=> Pending(x, y) /\ ~(x = t /\ y = s)
           /\ UNCHANGED storeVars
<1>1. Offering(t, s) /\ Wanted(t, s) /\ Offered(t, s) /\ UNCHANGED storeVars
  BY DEF FanOutDeliver, FanOutDrop, Deliverable
<1>2. /\ t \in DOMAIN sends /\ s \in sends[t].todo
      /\ DOMAIN sends' = DOMAIN sends
      /\ \A x \in DOMAIN sends : sends'[x].msg = sends[x].msg
      /\ \A x \in DOMAIN sends :
            sends'[x].todo = IF x = t THEN sends[x].todo \ {s} ELSE sends[x].todo
  BY <1>1, OfferedEffect DEF Offering
<1>3. \A x \in DOMAIN sends : \A y \in sends[x].todo : y \in DOMAIN subscriber
  BY DEF StreamsAddressed
<1>4. \A x \in DOMAIN subscriber : subscriber'[x].device = subscriber[x].device
  <2>1. \A x \in DOMAIN subscriber : subscriber[x] \in Subscription
    BY DEF ServiceTypeOK, Subscription
  <2>2. \/ subscriber' = subscriber
        \/ subscriber' = [subscriber EXCEPT ![s].buf = Queued(s, sends[t].msg)]
    BY DEF FanOutDeliver, FanOutDrop, streamVars
  <2> QED
    BY <2>1, <2>2 DEF Subscription
<1>5. ASSUME NEW x \in Callers, NEW y \in Subscribers
      PROVE  Pending(x, y)' <=> Pending(x, y) /\ ~(x = t /\ y = s)
  <2>1. x \in DOMAIN sends /\ y \in sends[x].todo => (Wanted(x, y)' <=> Wanted(x, y))
    BY <1>2, <1>3, <1>4 DEF Wanted, ShouldDeliver
  <2>2. x \in DOMAIN sends =>
           (y \in sends'[x].todo <=> y \in sends[x].todo /\ ~(x = t /\ y = s))
    BY <1>2
  <2> QED
    BY <1>2, <2>1, <2>2 DEF Pending
<1> QED
  BY <1>1, <1>2, <1>3, <1>5 DEF Pending

\* Delivering a message keeps the invariant's core: the id comes last in the stream,
\* after all the sender sent before.
LEMMA DeliverKeeps ==
    ASSUME ServiceTypeOK, StreamsAddressed, HistoryTypeOK, Core,
           NEW t \in Callers, NEW s \in Subscribers, FanOutDeliver(t, s),
           UNCHANGED <<snapshot, observerVars>>
    PROVE  Core'
<1> DEFINE id == sends[t].msg.id
<1>1. /\ Pending(t, s) /\ s \in DOMAIN subscriber
      /\ DOMAIN sends' = DOMAIN sends
      /\ \A x \in DOMAIN sends : sends'[x].msg = sends[x].msg
      /\ \A x \in Callers, y \in Subscribers :
            Pending(x, y)' <=> Pending(x, y) /\ ~(x = t /\ y = s)
      /\ UNCHANGED storeVars
  BY RoundEffect
<1>2. sentBy' = sentBy /\ got' = got /\ owed' = owed /\ lost' = lost /\ Stored' = Stored
  BY <1>1 DEF observerVars, storeVars, Stored
<1>3. t \in DOMAIN sends /\ sends[t].msg \in Message /\ id \in MessageIDs
  BY <1>1 DEF Pending, ServiceTypeOK, Message
<1>4. /\ Stream(s)' = Append(Stream(s), id)
      /\ \A x \in Subscribers : x # s => Stream(x)' = Stream(x)
      /\ Stream(s) \in Seq(MessageIDs)
  BY <1>1, <1>2, DeliverStream, StreamType
<1>5. id \in owed[s] /\ id \notin Listed(Stream(s)) /\ id \notin lost[s]
  BY <1>1 DEF Core, PendingOwed
<1> USE DEF Core
<1> HIDE DEF id
<1>6. Listed(Stream(s)') = Listed(Stream(s)) \cup {id}
  BY <1>3, <1>4, ListedAppend DEF id
<1>7. /\ Len(Stream(s)) \in Nat /\ DOMAIN Stream(s) = 1..Len(Stream(s))
      /\ DOMAIN Stream(s)' = 1..(Len(Stream(s)) + 1)
      /\ \A i \in 1..Len(Stream(s)) : Stream(s)'[i] = Stream(s)[i]
      /\ Stream(s)'[Len(Stream(s)) + 1] = id
  BY <1>3, <1>4 DEF id
<1>8. \A i \in 1..Len(Stream(s)) : Stream(s)[i] # id
  BY <1>5, <1>7 DEF Listed
<1>9. OwedStored'
  BY <1>2 DEF OwedStored
<1>10. OwnMessages'
  BY <1>1, <1>2 DEF OwnMessages
<1>11. PendingOwed'
  <2> SUFFICES ASSUME NEW x \in Callers, NEW y \in Subscribers, Pending(x, y)'
               PROVE  /\ sends'[x].msg.id \in owed[y]
                      /\ sends'[x].msg.id \notin Listed(Stream(y)')
                      /\ sends'[x].msg.id \notin lost[y]
    BY <1>2 DEF PendingOwed
  <2>1. Pending(x, y) /\ ~(x = t /\ y = s) /\ x \in DOMAIN sends
    BY <1>1 DEF Pending
  <2>2. /\ sends'[x].msg.id = sends[x].msg.id
        /\ sends[x].msg.id \in owed[y]
        /\ sends[x].msg.id \notin Listed(Stream(y))
        /\ sends[x].msg.id \notin lost[y]
    BY <1>1, <2>1 DEF PendingOwed
  <2>3. CASE y = s
    <3>1. sends[x].msg.id # id
      BY <1>3, <2>1, <2>3 DEF OwnMessages, id
    <3> QED
      BY <1>6, <2>2, <2>3, <3>1
  <2>4. CASE y # s
    BY <1>4, <2>2, <2>4
  <2> QED
    BY <2>3, <2>4
<1>12. OwedAccounted'
  <2> SUFFICES ASSUME NEW y \in Subscribers, NEW o \in owed[y],
                      o \notin Listed(Stream(y)') \cup lost[y]
               PROVE  \E x \in Callers : Pending(x, y)' /\ sends'[x].msg.id = o
    BY <1>2 DEF OwedAccounted
  <2>1. o \notin Listed(Stream(y)) \cup lost[y] /\ ~(y = s /\ o = id)
    BY <1>4, <1>6
  <2>2. PICK x \in Callers : Pending(x, y) /\ sends[x].msg.id = o
    BY <2>1 DEF OwedAccounted
  <2>3. Pending(x, y)' /\ sends'[x].msg.id = o
    BY <1>1, <2>1, <2>2 DEF Pending, id
  <2> QED
    BY <2>3
<1>13. OwnHistory'
  BY <1>1, <1>2 DEF OwnHistory
<1>14. StreamExact'
  <2> SUFFICES ASSUME NEW y \in Subscribers
               PROVE  /\ Listed(Stream(y)') \subseteq owed[y]
                      /\ Listed(Stream(y)') \cap lost[y] = {}
                      /\ \A i, j \in DOMAIN Stream(y)' : Stream(y)'[i] = Stream(y)'[j] => i = j
    BY <1>2 DEF StreamExact
  <2>1. /\ Listed(Stream(y)) \subseteq owed[y]
        /\ Listed(Stream(y)) \cap lost[y] = {}
        /\ \A i, j \in DOMAIN Stream(y) : Stream(y)[i] = Stream(y)[j] => i = j
    BY DEF StreamExact
  <2>2. CASE y = s
    <3>1. Listed(Stream(y)') \subseteq owed[y] /\ Listed(Stream(y)') \cap lost[y] = {}
      BY <1>5, <1>6, <2>1, <2>2
    <3>2. ASSUME NEW i \in DOMAIN Stream(y)', NEW j \in DOMAIN Stream(y)',
                 Stream(y)'[i] = Stream(y)'[j]
          PROVE  i = j
      <4>1. CASE i \in 1..Len(Stream(s)) /\ j \in 1..Len(Stream(s))
        BY <1>7, <2>1, <2>2, <3>2, <4>1
      <4>2. CASE i = Len(Stream(s)) + 1 /\ j \in 1..Len(Stream(s))
        BY <1>7, <1>8, <2>2, <3>2, <4>2
      <4>3. CASE i \in 1..Len(Stream(s)) /\ j = Len(Stream(s)) + 1
        BY <1>7, <1>8, <2>2, <3>2, <4>3
      <4> QED
        BY <1>7, <2>2, <4>1, <4>2, <4>3
    <3> QED
      BY <3>1, <3>2
  <2>3. CASE y # s
    BY <1>4, <2>1, <2>3
  <2> QED
    BY <2>2, <2>3
<1>15. SenderOrderKept'
  <2> SUFFICES ASSUME NEW y \in Subscribers, NEW r \in Callers,
                      NEW i \in DOMAIN Stream(y)', NEW j \in DOMAIN Stream(y)',
                      NEW k \in DOMAIN sentBy[r], NEW l \in DOMAIN sentBy[r],
                      Stream(y)'[i] = sentBy[r][k], Stream(y)'[j] = sentBy[r][l], k < l
               PROVE  i < j
    BY <1>2 DEF SenderOrderKept
  <2>1. \A m, n \in DOMAIN Stream(y) :
           Stream(y)[m] = sentBy[r][k] /\ Stream(y)[n] = sentBy[r][l] => m < n
    BY DEF SenderOrderKept
  <2>2. CASE y # s
    BY <1>4, <2>1, <2>2
  <2>3. CASE y = s
    <3>1. CASE i \in 1..Len(Stream(s)) /\ j \in 1..Len(Stream(s))
      BY <1>7, <2>1, <2>3, <3>1
    <3>2. CASE i \in 1..Len(Stream(s)) /\ j = Len(Stream(s)) + 1
      BY <1>7, <3>2
    <3>3. CASE i = Len(Stream(s)) + 1
      <4>1. sentBy[r][k] = id
        BY <1>7, <2>3, <3>3
      <4>2. /\ sentBy[t] # <<>> /\ sentBy[t][Len(sentBy[t])] = id
            /\ sentBy[t] \in Seq(MessageIDs) /\ sentBy[r] \in Seq(MessageIDs)
        BY <1>3 DEF OwnHistory, id, HistoryTypeOK
      <4>3. /\ Len(sentBy[t]) \in DOMAIN sentBy[t]
            /\ \A n \in DOMAIN sentBy[t] : n \in Nat /\ n <= Len(sentBy[t])
            /\ \A n \in DOMAIN sentBy[r] : n \in Nat
        BY <4>2
      <4>4. r = t
        <5>1. id \in Listed(sentBy[t]) /\ id \in Listed(sentBy[r])
          BY <4>1, <4>2, <4>3 DEF Listed
        <5> QED
          BY <5>1 DEF OwnHistory
      <4>5. k = Len(sentBy[t])
        BY <4>1, <4>2, <4>3, <4>4 DEF OwnHistory, NoRepeats
      <4> QED
        BY <4>3, <4>4, <4>5
    <3> QED
      BY <1>7, <2>3, <3>1, <3>2, <3>3
  <2> QED
    BY <2>2, <2>3
<1> QED
  BY <1>9, <1>10, <1>11, <1>12, <1>13, <1>14, <1>15

\* So does dropping it.
LEMMA DropKeeps ==
    ASSUME ServiceTypeOK, StreamsAddressed, HistoryTypeOK, Core,
           NEW t \in Callers, NEW s \in Subscribers, ObservedDrop(t, s)
    PROVE  Core'
<1> DEFINE id == sends[t].msg.id
<1>1. /\ Pending(t, s)
      /\ DOMAIN sends' = DOMAIN sends
      /\ \A x \in DOMAIN sends : sends'[x].msg = sends[x].msg
      /\ \A x \in Callers, y \in Subscribers :
            Pending(x, y)' <=> Pending(x, y) /\ ~(x = t /\ y = s)
      /\ UNCHANGED storeVars
  BY RoundEffect DEF ObservedDrop
<1>2. /\ sentBy' = sentBy /\ owed' = owed /\ Stored' = Stored
      /\ \A y \in Subscribers : lost'[y] = IF y = s THEN lost[y] \cup {id} ELSE lost[y]
      /\ \A y \in Subscribers : Stream(y)' = Stream(y)
  <2>1. subscriber' = subscriber /\ got' = got /\ sentBy' = sentBy /\ owed' = owed
    BY DEF ObservedDrop, FanOutDrop, streamVars
  <2>2. Stored' = Stored
    BY <1>1 DEF storeVars, Stored
  <2>3. lost' = [lost EXCEPT ![s] = @ \cup {id}]
    BY DEF ObservedDrop
  <2>4. \A y \in Subscribers : lost'[y] = IF y = s THEN lost[y] \cup {id} ELSE lost[y]
    BY <2>3 DEF HistoryTypeOK
  <2> QED
    BY <2>1, <2>2, <2>4 DEF Stream
<1>3. t \in DOMAIN sends
  BY <1>1 DEF Pending
<1>4. id \in owed[s] /\ id \notin Listed(Stream(s))
  BY <1>1 DEF Core, PendingOwed
<1> USE DEF Core
<1>5. OwedStored'
  BY <1>2, <1>4 DEF OwedStored
<1>6. OwnMessages'
  BY <1>1, <1>2 DEF OwnMessages
<1>7. PendingOwed'
  <2> SUFFICES ASSUME NEW x \in Callers, NEW y \in Subscribers, Pending(x, y)'
               PROVE  /\ sends'[x].msg.id \in owed[y]
                      /\ sends'[x].msg.id \notin Listed(Stream(y))
                      /\ sends'[x].msg.id \notin lost'[y]
    BY <1>2 DEF PendingOwed
  <2>1. Pending(x, y) /\ ~(x = t /\ y = s) /\ x \in DOMAIN sends
    BY <1>1 DEF Pending
  <2>2. /\ sends'[x].msg.id = sends[x].msg.id
        /\ sends[x].msg.id \in owed[y]
        /\ sends[x].msg.id \notin Listed(Stream(y))
        /\ sends[x].msg.id \notin lost[y]
    BY <1>1, <2>1 DEF PendingOwed
  <2>3. y = s => sends[x].msg.id # id
    BY <1>3, <2>1 DEF OwnMessages
  <2> QED
    BY <1>2, <2>2, <2>3
<1>8. OwedAccounted'
  <2> SUFFICES ASSUME NEW y \in Subscribers, NEW o \in owed[y],
                      o \notin Listed(Stream(y)) \cup lost'[y]
               PROVE  \E x \in Callers : Pending(x, y)' /\ sends'[x].msg.id = o
    BY <1>2 DEF OwedAccounted
  <2>1. o \notin Listed(Stream(y)) \cup lost[y] /\ ~(y = s /\ o = id)
    BY <1>2
  <2>2. PICK x \in Callers : Pending(x, y) /\ sends[x].msg.id = o
    BY <2>1 DEF OwedAccounted
  <2>3. Pending(x, y)' /\ sends'[x].msg.id = o
    BY <1>1, <2>1, <2>2 DEF Pending
  <2> QED
    BY <2>3
<1>9. OwnHistory'
  BY <1>1, <1>2 DEF OwnHistory
<1>10. StreamExact'
  <2>1. \A y \in Subscribers : Listed(Stream(y)) \cap lost'[y] = {}
    BY <1>2, <1>4 DEF StreamExact
  <2> QED
    BY <1>2, <2>1 DEF StreamExact
<1>11. SenderOrderKept'
  BY <1>2 DEF SenderOrderKept
<1> QED
  BY <1>5, <1>6, <1>7, <1>8, <1>9, <1>10, <1>11

\* Storing a message keeps it too: the id is new, and the streams it is owed are those
\* its fan-out will offer it to.
LEMMA StoreKeeps ==
    ASSUME ServiceTypeOK, SubscriptionsAgree, StreamsAddressed, HistoryTypeOK, Core,
           ~AllowReuse, NEW t \in Callers, NEW m \in Message, ObservedStore(t, m)
    PROVE  Core'
<1> USE DEF Core
<1>1. /\ m.id \in MessageIDs /\ m.recipient \in Users
      /\ m.id \notin Stored /\ Stored' = Stored \cup {m.id}
  BY StoreEffect DEF ObservedStore, Store
<1>2. /\ t \notin DOMAIN sends
      /\ DOMAIN sends' = DOMAIN sends \cup {t}
      /\ sends'[t].msg = m /\ sends'[t].todo = subscribersByUser[m.recipient]
      /\ \A x \in DOMAIN sends : sends'[x] = sends[x]
      /\ subscriber' = subscriber
  BY DEF ObservedStore, Store, streamVars
<1>3. /\ \A x \in Callers :
            sentBy'[x] = IF x = t THEN Append(sentBy[x], m.id) ELSE sentBy[x]
      /\ \A x \in Callers : sentBy[x] \in Seq(MessageIDs)
  BY DEF ObservedStore, HistoryTypeOK
<1> DEFINE Wants(y) == /\ y \in subscribersByUser[m.recipient]
                       /\ ShouldDeliver(m, subscriber[y].device)
<1>4. /\ \A y \in Subscribers : owed'[y] = IF Wants(y) THEN owed[y] \cup {m.id} ELSE owed[y]
      /\ lost' = lost
      /\ \A y \in Subscribers : Stream(y)' = Stream(y)
  BY <1>2 DEF ObservedStore, Stream
<1>5. ASSUME NEW x \in Callers, NEW y \in Subscribers
      PROVE  Pending(x, y)' <=> Pending(x, y) \/ (x = t /\ Wants(y))
  BY <1>2 DEF Pending, Wanted, ShouldDeliver
<1> HIDE DEF Wants
<1>6. /\ \A y \in Subscribers : m.id \notin owed[y] /\ m.id \notin lost[y]
      /\ \A y \in Subscribers : m.id \notin Listed(Stream(y))
      /\ \A x \in Callers : m.id \notin Listed(sentBy[x])
      /\ \A x \in DOMAIN sends : sends[x].msg.id # m.id
  BY <1>1 DEF OwedStored, StreamExact, OwnHistory, OwnMessages
<1>7. OwedStored'
  BY <1>1, <1>4 DEF OwedStored
<1>8. OwnMessages'
  BY <1>1, <1>2, <1>6 DEF OwnMessages
<1>9. PendingOwed'
  <2> SUFFICES ASSUME NEW x \in Callers, NEW y \in Subscribers, Pending(x, y)'
               PROVE  /\ sends'[x].msg.id \in owed'[y]
                      /\ sends'[x].msg.id \notin Listed(Stream(y))
                      /\ sends'[x].msg.id \notin lost[y]
    BY <1>4 DEF PendingOwed
  <2>1. CASE Pending(x, y)
    <3>1. sends'[x] = sends[x]
      BY <1>2, <2>1 DEF Pending
    <3> QED
      BY <1>4, <2>1, <3>1 DEF PendingOwed
  <2>2. CASE x = t /\ Wants(y)
    BY <1>2, <1>4, <1>6, <2>2
  <2> QED
    BY <1>5, <2>1, <2>2
<1>10. OwedAccounted'
  <2> SUFFICES ASSUME NEW y \in Subscribers, NEW o \in owed'[y],
                      o \notin Listed(Stream(y)) \cup lost[y]
               PROVE  \E x \in Callers : Pending(x, y)' /\ sends'[x].msg.id = o
    BY <1>4 DEF OwedAccounted
  <2>1. CASE o \in owed[y]
    <3>1. PICK x \in Callers : Pending(x, y) /\ sends[x].msg.id = o
      BY <2>1 DEF OwedAccounted
    <3>2. Pending(x, y)' /\ sends'[x] = sends[x]
      BY <1>2, <1>5, <3>1 DEF Pending
    <3> QED
      BY <3>1, <3>2
  <2>2. CASE o = m.id /\ Wants(y)
    BY <1>2, <1>5, <2>2
  <2> QED
    BY <1>4, <2>1, <2>2
<1>11. /\ Append(sentBy[t], m.id) \in Seq(MessageIDs)
       /\ Listed(sentBy'[t]) = Listed(sentBy[t]) \cup {m.id}
  BY <1>1, <1>3, ListedAppend
<1>12. /\ Len(sentBy[t]) \in Nat /\ DOMAIN sentBy[t] = 1..Len(sentBy[t])
       /\ DOMAIN sentBy'[t] = 1..(Len(sentBy[t]) + 1)
       /\ Len(sentBy'[t]) = Len(sentBy[t]) + 1
       /\ \A i \in 1..Len(sentBy[t]) : sentBy'[t][i] = sentBy[t][i] /\ sentBy[t][i] # m.id
       /\ sentBy'[t][Len(sentBy[t]) + 1] = m.id
       /\ sentBy'[t] # <<>>
  <2>1. /\ Len(sentBy[t]) \in Nat /\ DOMAIN sentBy[t] = 1..Len(sentBy[t])
        /\ DOMAIN sentBy'[t] = 1..(Len(sentBy[t]) + 1)
        /\ Len(sentBy'[t]) = Len(sentBy[t]) + 1
        /\ \A i \in 1..Len(sentBy[t]) : sentBy'[t][i] = sentBy[t][i]
        /\ sentBy'[t][Len(sentBy[t]) + 1] = m.id
        /\ sentBy'[t] # <<>>
    <3> DEFINE p == sentBy[t]
               q == sentBy'[t]
    <3>1. p \in Seq(MessageIDs) /\ q = Append(p, m.id)
      BY <1>3
    <3> HIDE DEF p, q
    <3>2. /\ Len(p) \in Nat /\ DOMAIN p = 1..Len(p)
          /\ DOMAIN q = 1..(Len(p) + 1)
          /\ Len(q) = Len(p) + 1
          /\ \A i \in 1..Len(p) : q[i] = p[i]
          /\ q[Len(p) + 1] = m.id
          /\ q # <<>>
      BY <1>1, <3>1
    <3> QED
      BY <3>2 DEF p, q
  <2>2. \A i \in 1..Len(sentBy[t]) : sentBy[t][i] # m.id
    BY <1>6, <2>1 DEF Listed
  <2> QED
    BY <2>1, <2>2
<1>13. OwnHistory'
  <2>1. ASSUME NEW x \in Callers
        PROVE  Listed(sentBy'[x]) \subseteq Stored' /\ NoRepeats(sentBy'[x])
    <3>1. CASE x = t
      <4>1. Listed(sentBy'[t]) \subseteq Stored'
        BY <1>1, <1>11 DEF OwnHistory
      <4>2. ASSUME NEW i \in DOMAIN sentBy'[t], NEW j \in DOMAIN sentBy'[t],
                   sentBy'[t][i] = sentBy'[t][j]
            PROVE  i = j
        <5>1. CASE i \in 1..Len(sentBy[t]) /\ j \in 1..Len(sentBy[t])
          BY <1>12, <4>2, <5>1 DEF OwnHistory, NoRepeats
        <5>2. CASE i = Len(sentBy[t]) + 1 \/ j = Len(sentBy[t]) + 1
          BY <1>12, <4>2, <5>2
        <5> QED
          BY <1>12, <5>1, <5>2
      <4> QED
        BY <3>1, <4>1, <4>2 DEF NoRepeats
    <3>2. CASE x # t
      BY <1>1, <1>3, <3>2 DEF OwnHistory
    <3> QED
      BY <3>1, <3>2
  <2>2. ASSUME NEW x \in Callers, NEW r \in Callers, x # r
        PROVE  Listed(sentBy'[x]) \cap Listed(sentBy'[r]) = {}
    <3>1. Listed(sentBy[x]) \cap Listed(sentBy[r]) = {}
      BY <2>2 DEF OwnHistory
    <3>2. m.id \notin Listed(sentBy[x]) /\ m.id \notin Listed(sentBy[r])
      BY <1>6
    <3>3. /\ Listed(sentBy'[x]) = IF x = t THEN Listed(sentBy[x]) \cup {m.id} ELSE Listed(sentBy[x])
          /\ Listed(sentBy'[r]) = IF r = t THEN Listed(sentBy[r]) \cup {m.id} ELSE Listed(sentBy[r])
      BY <1>3, <1>11
    <3> QED
      BY <2>2, <3>1, <3>2, <3>3
  <2>3. ASSUME NEW x \in DOMAIN sends'
        PROVE  sentBy'[x] # <<>> /\ sentBy'[x][Len(sentBy'[x])] = sends'[x].msg.id
    <3>1. CASE x = t
      BY <1>2, <1>12, <3>1
    <3>2. CASE x # t
      <4>1. x \in DOMAIN sends /\ x \in Callers
        BY <1>2, <2>3, <3>2 DEF ServiceTypeOK
      <4> QED
        BY <1>2, <1>3, <3>2, <4>1 DEF OwnHistory
    <3> QED
      BY <3>1, <3>2
  <2> QED
    BY <2>1, <2>2, <2>3 DEF OwnHistory
<1>14. StreamExact'
  <2>1. /\ lost' = lost
        /\ \A y \in Subscribers : /\ Stream(y)' = Stream(y)
                                 /\ owed[y] \subseteq owed'[y]
                                 /\ owed'[y] \subseteq owed[y] \cup {m.id}
    BY <1>4
  <2> QED
    BY <1>6, <2>1 DEF StreamExact
<1>15. SenderOrderKept'
  <2> SUFFICES ASSUME NEW y \in Subscribers, NEW r \in Callers,
                      NEW i \in DOMAIN Stream(y), NEW j \in DOMAIN Stream(y),
                      NEW k \in DOMAIN sentBy'[r], NEW l \in DOMAIN sentBy'[r],
                      Stream(y)[i] = sentBy'[r][k], Stream(y)[j] = sentBy'[r][l], k < l
               PROVE  i < j
    BY <1>4 DEF SenderOrderKept
  <2>1. CASE r # t
    BY <1>3, <2>1 DEF SenderOrderKept
  <2>2. CASE r = t
    <3>1. Stream(y)[i] # m.id /\ Stream(y)[j] # m.id
      BY <1>6 DEF Listed
    <3>2. k \in 1..Len(sentBy[t]) /\ l \in 1..Len(sentBy[t])
      <4>1. /\ k \in 1..(Len(sentBy[t]) + 1) /\ l \in 1..(Len(sentBy[t]) + 1)
            /\ Len(sentBy[t]) \in Nat
        BY <1>12, <2>2
      <4>2. k # Len(sentBy[t]) + 1 /\ l # Len(sentBy[t]) + 1
        BY <1>12, <2>2, <3>1
      <4> QED
        BY <4>1, <4>2
    <3>3. /\ k \in DOMAIN sentBy[t] /\ l \in DOMAIN sentBy[t]
          /\ Stream(y)[i] = sentBy[t][k] /\ Stream(y)[j] = sentBy[t][l]
      BY <1>12, <2>2, <3>2
    <3> DEFINE q == Stream(y)
               p == sentBy[t]
    <3>4. \A a, b \in DOMAIN q : \A g, h \in DOMAIN p :
             (q[a] = p[g] /\ q[b] = p[h] /\ g < h) => a < b
      BY DEF SenderOrderKept
    <3> HIDE DEF q, p
    <3>5. i \in DOMAIN q /\ j \in DOMAIN q /\ k < l
      BY DEF q
    <3> QED
      BY <3>3, <3>4, <3>5, Zenon DEF q, p
  <2> QED
    BY <2>1, <2>2
<1> QED
  BY <1>7, <1>8, <1>9, <1>10, <1>13, <1>14, <1>15

\* The history keeps its types.
LEMMA HistoryTypeStep ==
    ASSUME ServiceTypeOK, StreamsAddressed, HistoryTypeOK, [Next]_vars
    PROVE  HistoryTypeOK'
<1>1. DOMAIN subscriber \subseteq DOMAIN subscriber'
  BY ServiceStep, SubscriptionsKeep
<1>2. ASSUME NEW t \in Callers, NEW m \in Message, ObservedStore(t, m)
      PROVE  HistoryTypeOK'
  <2>1. m.id \in MessageIDs
    BY DEF Message
  <2>2. sentBy' \in [Callers -> Seq(MessageIDs)]
    BY <1>2, <2>1, ListedAppend DEF ObservedStore, HistoryTypeOK
  <2>3. owed' \in [Subscribers -> SUBSET MessageIDs]
    BY <1>2, <2>1 DEF ObservedStore, HistoryTypeOK
  <2> QED
    BY <1>1, <1>2, <2>2, <2>3 DEF ObservedStore, HistoryTypeOK, Listing
<1>3. ASSUME NEW t \in Callers, NEW s \in Subscribers, ObservedDrop(t, s)
      PROVE  HistoryTypeOK'
  <2>1. sends[t].msg.id \in MessageIDs
    BY <1>3 DEF ObservedDrop, FanOutDrop, Deliverable, Offering, Running, ServiceTypeOK, Message
  <2> QED
    BY <1>1, <1>3, <2>1 DEF ObservedDrop, HistoryTypeOK, Listing
<1>4. ASSUME NEW s \in Subscribers, Snapshot(s) PROVE HistoryTypeOK'
  <2>1. DOMAIN snapshot' = Listing \cup {s} /\ s \in DOMAIN subscriber
        /\ UNCHANGED serviceVars /\ UNCHANGED observerVars
    BY <1>4 DEF Snapshot
  <2> QED
    BY <1>1, <2>1 DEF HistoryTypeOK, Listing, observerVars
<1>5. ASSUME NEW s \in Subscribers, ObservedReceive(s) PROVE HistoryTypeOK'
  <2>1. s \in DOMAIN subscriber /\ subscriber[s].buf \in Seq(Message) /\ subscriber[s].buf # <<>>
    BY <1>5 DEF ObservedReceive, Receive, ServiceTypeOK
  <2>2. Head(subscriber[s].buf) \in Message
    BY <2>1
  <2>3. Head(subscriber[s].buf).id \in MessageIDs
    BY <2>2 DEF Message
  <2>4. got' \in [Subscribers -> Seq(MessageIDs)]
    BY <1>5, <2>3, ListedAppend DEF ObservedReceive, HistoryTypeOK
  <2> QED
    BY <1>1, <1>5, <2>4 DEF ObservedReceive, HistoryTypeOK, Listing
<1>6. ASSUME UNCHANGED <<snapshot, observerVars>> PROVE HistoryTypeOK'
  BY <1>1, <1>6 DEF HistoryTypeOK, Listing, observerVars
<1>7. ASSUME Quiet PROVE HistoryTypeOK'
  <2>1. UNCHANGED vars => UNCHANGED <<snapshot, observerVars>>
    BY DEF vars
  <2> QED
    BY <1>4, <1>5, <1>6, <1>7, <2>1 DEF Quiet
<1>8. ASSUME NEW t \in Callers, NEW id \in MessageIDs, NEW from \in Users,
             NEW to \in Users, NEW d \in DeviceRefs,
             ObservedStore(t, NewMessage(id, from, to, d, TRUE))
      PROVE  HistoryTypeOK'
  <2>1. NewMessage(id, from, to, d, TRUE) \in Message
    BY NewMessageType
  <2> QED
    BY <1>2, <1>8, <2>1
<1> QED
  BY <1>3, <1>6, <1>7, <1>8, Steps

-----------------------------------------------------------------------------
(* Snapshots. *)

\* ListInbox shows a reader what its inbox lists for its device.
LEMMA InboxShown ==
    ASSUME ServiceTypeOK, IndexesAgree, NEW s \in DOMAIN subscriber
    PROVE  Listed(InboxOf(s)) = Visible(s)
<1> DEFINE u == subscriber[s].user
           d == subscriber[s].device
           visible == {id \in Stored : ShouldDeliver(messageByID[id], d)}
           ids == Selected(inboxIDs[u], visible)
           items == [i \in DOMAIN ids |-> messageByID[ids[i]]]
<1>1. u \in Users /\ inboxIDs[u] \in Seq(MessageIDs) /\ Listed(inboxIDs[u]) \subseteq Stored
  BY DEF ServiceTypeOK, IndexesAgree
<1>2. ListInbox(u, d) = items
  BY DEF ListInbox
<1>3. ids \in Seq(MessageIDs) /\ Listed(ids) = Listed(inboxIDs[u]) \cap visible
  BY <1>1, SelectedList
<1>4. \A i \in DOMAIN ids : ids[i] \in Stored
  BY <1>3 DEF Listed
<1>5. \A i \in DOMAIN ids : messageByID[ids[i]].id = ids[i]
  BY <1>4 DEF IndexesAgree
<1>6. InboxOf(s) = [i \in DOMAIN items |-> items[i].id]
  BY <1>2 DEF InboxOf
<1> HIDE DEF ids
<1>7. InboxOf(s) = [i \in DOMAIN ids |-> ids[i]]
  BY <1>5, <1>6
<1>8. Listed(InboxOf(s)) = Listed(ids)
  BY <1>7 DEF Listed
<1> QED
  BY <1>1, <1>3, <1>8 DEF Visible

\* What is stored once a stream's handler has listed the inbox is owed to the stream.
LEMMA ListedStep ==
    ASSUME ServiceTypeOK, IndexesAgree, SubscriptionsAgree, StreamsAddressed,
           HistoryTypeOK, ListedOrOwed, ~AllowReuse, [Next]_vars
    PROVE  ListedOrOwed'
<1>1. \A x \in DOMAIN subscriber :
         /\ x \in DOMAIN subscriber'
         /\ subscriber'[x].user = subscriber[x].user
         /\ subscriber'[x].device = subscriber[x].device
         /\ subscriber'[x].open => subscriber[x].open
         /\ subscriber[x].user \in Users
  BY ServiceStep, SubscriptionsKeep DEF ServiceTypeOK
<1>2. ASSUME NEW t \in Callers, NEW m \in Message, ObservedStore(t, m)
      PROVE  ListedOrOwed'
  <2> SUFFICES ASSUME NEW s \in Listing, subscriber'[s].open, NEW id \in Visible(s)'
               PROVE  id \in Listed(snapshot[s]) \cup owed'[s]
    BY <1>2 DEF ListedOrOwed, ObservedStore, Listing
  <2>1. Store(t, m)
    BY <1>2 DEF ObservedStore
  <2>2. /\ s \in DOMAIN subscriber /\ s \in Subscribers /\ subscriber' = subscriber
        /\ m.recipient \in Users /\ m.id \notin Stored
    BY <2>1, StoreEffect DEF HistoryTypeOK, ServiceTypeOK, Store, streamVars
  <2>3. /\ owed[s] \subseteq owed'[s]
        /\ s \in subscribersByUser[m.recipient] /\ ShouldDeliver(m, subscriber[s].device)
              => m.id \in owed'[s]
    BY <1>2, <2>2 DEF ObservedStore
  <2>4. /\ Listed(inboxIDs'[subscriber[s].user]) =
              Listed(inboxIDs[subscriber[s].user]) \cup
                 IF subscriber[s].user = m.recipient THEN {m.id} ELSE {}
        /\ Stored' = Stored \cup {m.id}
        /\ \A x \in Stored' : messageByID'[x] = IF x = m.id THEN m ELSE messageByID[x]
        /\ Listed(inboxIDs[subscriber[s].user]) \subseteq Stored
    BY <1>1, <2>1, <2>2, StoreEffect DEF IndexesAgree
  <2>5. /\ id \in Listed(inboxIDs'[subscriber[s].user])
        /\ ShouldDeliver(messageByID'[id], subscriber[s].device)
    BY <2>2 DEF Visible
  <2>6. CASE id = m.id
    <3>1. subscriber[s].user = m.recipient
      BY <2>2, <2>4, <2>5, <2>6
    <3>2. s \in subscribersByUser[m.recipient]
      BY <2>2, <3>1 DEF SubscriptionsAgree
    <3>3. messageByID'[id] = m
      BY <2>4, <2>6
    <3> QED
      BY <2>3, <2>5, <2>6, <3>2, <3>3
  <2>7. CASE id # m.id
    <3>1. id \in Listed(inboxIDs[subscriber[s].user]) /\ messageByID'[id] = messageByID[id]
      BY <2>4, <2>5, <2>7
    <3>2. id \in Visible(s)
      BY <2>5, <3>1 DEF Visible
    <3>3. subscriber[s].open
      BY <2>2
    <3> QED
      BY <2>3, <3>2, <3>3 DEF ListedOrOwed
  <2> QED
    BY <2>6, <2>7
<1>3. ASSUME NEW s \in Listing, s \in DOMAIN subscriber, UNCHANGED storeVars, owed' = owed,
             snapshot'[s] = snapshot[s], subscriber'[s].open
      PROVE  Visible(s)' \subseteq Listed(snapshot'[s]) \cup owed'[s]
  <2>1. Visible(s)' = Visible(s)
    BY <1>1, <1>3 DEF Visible, storeVars, ShouldDeliver
  <2> QED
    BY <1>1, <1>3, <2>1 DEF ListedOrOwed
<1>4. ASSUME UNCHANGED storeVars, owed' = owed, snapshot' = snapshot
      PROVE  ListedOrOwed'
  BY <1>3, <1>4 DEF ListedOrOwed, Listing, HistoryTypeOK
<1>5. ASSUME NEW s \in Subscribers, Snapshot(s) PROVE ListedOrOwed'
  <2>1. /\ s \in DOMAIN subscriber
        /\ Listing' = Listing \cup {s}
        /\ snapshot'[s] = InboxOf(s)
        /\ \A x \in Listing : x # s => snapshot'[x] = snapshot[x]
        /\ UNCHANGED storeVars /\ owed' = owed /\ subscriber' = subscriber
    BY <1>5 DEF Snapshot, Listing, serviceVars, streamVars, observerVars
  <2>2. Visible(s)' = Listed(snapshot'[s])
    <3>1. Visible(s)' = Visible(s)
      BY <2>1 DEF Visible, storeVars, ShouldDeliver
    <3> QED
      BY <2>1, <3>1, InboxShown
  <2>3. \A x \in Listing : x \in DOMAIN subscriber
    BY DEF HistoryTypeOK
  <2> QED
    BY <1>3, <2>1, <2>2, <2>3 DEF ListedOrOwed
<1>6. ASSUME NEW t \in Callers, NEW s \in Subscribers,
             \/ FanOutDeliver(t, s) /\ UNCHANGED <<snapshot, observerVars>>
             \/ ObservedDrop(t, s)
      PROVE  ListedOrOwed'
  <2>1. UNCHANGED storeVars /\ owed' = owed /\ snapshot' = snapshot
    BY <1>6, RoundEffect DEF ObservedDrop, observerVars
  <2> QED
    BY <1>4, <2>1
<1>7. ASSUME Quiet PROVE ListedOrOwed'
  <2>1. UNCHANGED storeVars /\ owed' = owed
    BY <1>7, QuietEffect
  <2>2. \/ \E s \in Subscribers : Snapshot(s)
        \/ snapshot' = snapshot
    BY <1>7 DEF Quiet, ObservedReceive, vars
  <2> QED
    BY <1>4, <1>5, <2>1, <2>2
<1>8. ASSUME NEW t \in Callers, NEW id \in MessageIDs, NEW from \in Users,
             NEW to \in Users, NEW d \in DeviceRefs,
             ObservedStore(t, NewMessage(id, from, to, d, TRUE))
      PROVE  ListedOrOwed'
  <2>1. NewMessage(id, from, to, d, TRUE) \in Message
    BY NewMessageType
  <2> QED
    BY <1>2, <1>8, <2>1
<1> QED
  BY <1>6, <1>7, <1>8, Steps

-----------------------------------------------------------------------------
(* The theorems. *)

\* The core of the invariant is kept by every step.
LEMMA CoreStep ==
    ASSUME ServiceTypeOK, SubscriptionsAgree, StreamsAddressed, HistoryTypeOK, Core,
           ~AllowReuse, [Next]_vars
    PROVE  Core'
<1>1. ASSUME NEW t \in Callers, NEW id \in MessageIDs, NEW from \in Users,
             NEW to \in Users, NEW d \in DeviceRefs,
             ObservedStore(t, NewMessage(id, from, to, d, TRUE))
      PROVE  Core'
  <2>1. NewMessage(id, from, to, d, TRUE) \in Message
    BY NewMessageType
  <2> QED
    BY <1>1, <2>1, StoreKeeps
<1>2. ASSUME NEW t \in Callers, NEW s \in Subscribers, FanOutDeliver(t, s),
             UNCHANGED <<snapshot, observerVars>>
      PROVE  Core'
  BY <1>2, DeliverKeeps
<1>3. ASSUME NEW t \in Callers, NEW s \in Subscribers, ObservedDrop(t, s)
      PROVE  Core'
  BY <1>3, DropKeeps
<1>4. CASE Quiet
  BY <1>4, QuietKeeps
<1> QED
  BY <1>1, <1>2, <1>3, <1>4, Steps

\* Nothing is stored, streamed or owed at the start.
LEMMA StreamInit == Init => StreamIInv
<1> SUFFICES ASSUME Init PROVE StreamIInv
  OBVIOUS
<1>1. /\ DOMAIN subscriber = {} /\ DOMAIN sends = {} /\ Listing = {}
      /\ \A t \in Callers : sentBy[t] = <<>>
      /\ \A s \in Subscribers : got[s] = <<>> /\ owed[s] = {} /\ lost[s] = {}
  BY DEF Init, ServiceInit, Listing
<1>2. HistoryTypeOK
  BY <1>1 DEF Init, HistoryTypeOK
<1>3. ASSUME NEW s \in Subscribers PROVE Stream(s) = <<>>
  BY <1>1 DEF Stream
<1>4. \A t \in Callers : Listed(sentBy[t]) = {} /\ NoRepeats(sentBy[t])
  BY <1>1 DEF Listed, NoRepeats
<1>5. \A s \in Subscribers : Listed(Stream(s)) = {} /\ DOMAIN Stream(s) = {}
  BY <1>3 DEF Listed
<1>6. OwedStored /\ OwnMessages /\ PendingOwed /\ OwedAccounted /\ ListedOrOwed
  BY <1>1 DEF OwedStored, OwnMessages, PendingOwed, OwedAccounted, ListedOrOwed, Pending
<1>7. OwnHistory
  BY <1>1, <1>4 DEF OwnHistory
<1>8. StreamExact /\ SenderOrderKept
  BY <1>1, <1>5 DEF StreamExact, SenderOrderKept
<1> QED
  BY <1>2, <1>6, <1>7, <1>8 DEF StreamIInv, Core

\* The inductive invariant holds in every state.
LEMMA StreamInvariant == ~AllowReuse => (Spec => []StreamIInv)
<1> SUFFICES ASSUME ~AllowReuse PROVE Spec => []StreamIInv
  OBVIOUS
<1> DEFINE Service == ServiceTypeOK /\ IndexesAgree /\ SubscriptionsAgree /\ StreamsAddressed
<1>1. Service /\ StreamIInv /\ [Next]_vars => StreamIInv'
  BY CoreStep, HistoryTypeStep, ListedStep DEF StreamIInv
<1> QED
  BY <1>1, StreamInit, ServiceInvariants, PTL DEF Spec

\* Unless clients reuse ids, no message falls between a reader's snapshot and its
\* stream: what was stored while it was subscribed, and what its inbox lists, is in
\* one of them or a running Send will offer it, or it met a full channel, or the
\* Send that had it died at a stream of the same user cancelled meanwhile.
THEOREM NothingLost == ~AllowReuse => (Spec => []NothingElseLost)
<1>1. ASSUME ServiceTypeOK, IndexesAgree, StreamIInv, PanickedAtCancelled
      PROVE  NothingElseLost
  <2> SUFFICES ASSUME NEW s \in Subscribers
               PROVE  /\ owed[s] \subseteq Accounted(s)
                      /\ Streaming(s) => Listed(InboxOf(s))
                                            \subseteq Listed(snapshot[s]) \cup Accounted(s)
    BY DEF NothingElseLost
  <2>1. ASSUME NEW id \in owed[s] PROVE id \in Accounted(s)
    <3>1. CASE id \in Listed(Stream(s)) \cup lost[s]
      BY <3>1 DEF Accounted
    <3>2. ASSUME NEW t \in Callers, Pending(t, s), sends[t].msg.id = id
          PROVE  id \in Accounted(s)
      <4>1. CASE t \in panicked
        <5>1. CutShort(t, s)
          BY <1>1, <3>2, <4>1 DEF CutShort, Pending, PanickedAtCancelled
        <5> QED
          BY <3>2, <5>1 DEF Accounted, CutOff
      <4>2. CASE t \notin panicked
        <5>1. Offering(t, s)
          BY <3>2, <4>2 DEF Offering, Running, Pending
        <5> QED
          BY <3>2, <5>1 DEF Accounted, Offers
      <4> QED
        BY <4>1, <4>2
    <3> QED
      BY <1>1, <3>1, <3>2 DEF StreamIInv, Core, OwedAccounted
  <2>2. ASSUME Streaming(s)
        PROVE  Listed(InboxOf(s)) \subseteq Listed(snapshot[s]) \cup owed[s]
    <3>1. s \in Listing /\ subscriber[s].open /\ s \in DOMAIN subscriber
      BY <1>1, <2>2 DEF Streaming, StreamIInv, HistoryTypeOK
    <3>2. Listed(InboxOf(s)) = Visible(s)
      BY <1>1, <3>1, InboxShown
    <3> QED
      BY <1>1, <3>1, <3>2 DEF StreamIInv, ListedOrOwed
  <2> QED
    BY <2>1, <2>2
<1>2. Spec => []PanickedAtCancelled
  BY StreamsUseService, PanicNeedsCancel, PTL
<1> QED
  BY <1>1, <1>2, ServiceInvariants, StreamInvariant, PTL

\* Unless clients reuse ids, a reader gets only what it is owed, each message once,
\* and none that was counted as dropped.
THEOREM StreamsExact == ~AllowReuse => (Spec => []StreamExact)
<1>1. StreamIInv => StreamExact
  BY DEF StreamIInv, Core
<1> QED
  BY <1>1, StreamInvariant, PTL

\* Unless clients reuse ids, what one goroutine sends arrives in the order it sent it,
\* however the fan-outs of several interleave.
THEOREM SenderOrder == ~AllowReuse => (Spec => []SenderOrderKept)
<1>1. StreamIInv => SenderOrderKept
  BY DEF StreamIInv, Core
<1> QED
  BY <1>1, StreamInvariant, PTL

-----------------------------------------------------------------------------
(* The abstract specification. *)

\* The mapped variables, reader by reader.
LEMMA Mapped ==
    ASSUME NEW s \in Subscribers
    PROVE  /\ Promises!Waiting(s) = Len(Stream(s)) - Len(got[s])
           /\ Promises!Due(s) = owed[s] \ (lost[s] \cup Listed(Stream(s)))
BY DEF Promises!Waiting, Promises!Due, Listed

\* What a reader has left to take is what its channel holds.
LEMMA WaitingIsBuffered ==
    ASSUME ServiceTypeOK, HistoryTypeOK, NEW s \in DOMAIN subscriber
    PROVE  /\ Promises!Waiting(s) = Len(subscriber[s].buf)
           /\ Len(subscriber[s].buf) \in 0..StreamCap
           /\ subscriber[s].buf # <<>> => Len(subscriber[s].buf) > 0
<1> DEFINE b == subscriber[s].buf
<1>1. s \in Subscribers /\ b \in Seq(Message) /\ Len(b) <= StreamCap
  BY DEF ServiceTypeOK
<1>2. /\ got[s] \in Seq(MessageIDs) /\ Buffered(s) \in Seq(MessageIDs)
      /\ Stream(s) = got[s] \o Buffered(s)
  BY <1>1, StreamType
<1>3. Len(Stream(s)) = Len(got[s]) + Len(Buffered(s))
  BY <1>2, ConcatProperties
<1>4. Len(Buffered(s)) = Len(b)
  <2>1. DOMAIN Buffered(s) = DOMAIN b
    BY DEF Buffered
  <2>2. ASSUME NEW m \in Nat, NEW n \in Nat, 1..m = 1..n PROVE m = n
    BY <2>2
  <2>3. DOMAIN Buffered(s) = 1..Len(Buffered(s)) /\ Len(Buffered(s)) \in Nat
    BY <1>2
  <2>4. DOMAIN b = 1..Len(b) /\ Len(b) \in Nat
    BY <1>1
  <2> HIDE DEF b
  <2> QED
    BY <2>1, <2>2, <2>3, <2>4
<1>5. Len(got[s]) \in Nat /\ Len(b) \in Nat /\ (b # <<>> => Len(b) > 0)
  BY <1>1, <1>2
<1> HIDE DEF b
<1>6. Len(Stream(s)) - Len(got[s]) = Len(b)
  BY <1>3, <1>4, <1>5
<1>7. Promises!Waiting(s) = Len(b)
  BY <1>1, <1>6, Mapped
<1>8. Len(b) \in 0..StreamCap
  BY <1>1, <1>5, ServiceAssumption
<1> QED
  BY <1>5, <1>7, <1>8 DEF b

\* Storing a message promises it to the streams it is for.
LEMMA StorePromises ==
    ASSUME ServiceTypeOK, HistoryTypeOK, Core, ~AllowReuse,
           NEW t \in Callers, NEW m \in Message, ObservedStore(t, m)
    PROVE  Promises!Next
<1> DEFINE to == {s \in Subscribers : /\ s \in subscribersByUser[m.recipient]
                                      /\ ShouldDeliver(m, subscriber[s].device)}
<1>1. m.id \in MessageIDs /\ m.id \notin Stored
  BY StoreEffect DEF ObservedStore, Store
<1>2. \A s \in Subscribers : m.id \notin owed[s]
  BY <1>1 DEF Core, OwedStored
<1>3. owed' = [s \in Subscribers |-> IF s \in to THEN owed[s] \cup {m.id} ELSE owed[s]]
  BY DEF ObservedStore
<1>4. lost' = lost /\ got' = got /\ subscriber' = subscriber
  BY DEF ObservedStore, Store, streamVars
<1>5. \A s \in Subscribers : Stream(s)' = Stream(s)
  BY <1>4 DEF Stream
<1> HIDE DEF to
<1>6. Promises!Promise(m.id, to)
  BY <1>2, <1>3, <1>4, <1>5 DEF Promises!Promise
<1>7. to \in SUBSET Subscribers
  BY DEF to
<1> QED
  BY <1>1, <1>6, <1>7 DEF Promises!Next

\* Delivering gives a reader what it is due.
LEMMA DeliverGives ==
    ASSUME ServiceTypeOK, StreamsAddressed, HistoryTypeOK, Core,
           NEW t \in Callers, NEW s \in Subscribers, FanOutDeliver(t, s),
           UNCHANGED <<snapshot, observerVars>>
    PROVE  Promises!Next
<1> DEFINE id == sends[t].msg.id
<1>1. Pending(t, s) /\ s \in DOMAIN subscriber
  BY RoundEffect
<1>2. id \in MessageIDs
  BY <1>1 DEF Pending, ServiceTypeOK, Message
<1>3. got' = got /\ owed' = owed /\ lost' = lost
  BY DEF observerVars
<1>4. /\ Stream(s)' = Append(Stream(s), id)
      /\ \A x \in Subscribers : x # s => Stream(x)' = Stream(x)
  BY <1>1, <1>3, DeliverStream
<1>5. id \in Promises!Due(s)
  BY <1>1, Mapped DEF Core, PendingOwed
<1>6. Promises!Waiting(s) < StreamCap
  BY <1>1, WaitingIsBuffered DEF FanOutDeliver, HasRoom
<1> HIDE DEF id
<1>7. Promises!Give(s, id)
  BY <1>3, <1>4, <1>5, <1>6 DEF Promises!Give
<1> QED
  BY <1>2, <1>7 DEF Promises!Next

\* A message is dropped only when the reader has a channel's worth to take.
LEMMA DropMisses ==
    ASSUME ServiceTypeOK, StreamsAddressed, HistoryTypeOK, Core,
           NEW t \in Callers, NEW s \in Subscribers, ObservedDrop(t, s)
    PROVE  Promises!Next
<1> DEFINE id == sends[t].msg.id
<1>1. Pending(t, s) /\ s \in DOMAIN subscriber
  BY RoundEffect DEF ObservedDrop
<1>2. id \in MessageIDs
  BY <1>1 DEF Pending, ServiceTypeOK, Message
<1>3. got' = got /\ owed' = owed /\ subscriber' = subscriber
      /\ lost' = [lost EXCEPT ![s] = @ \cup {id}]
  BY DEF ObservedDrop, FanOutDrop, streamVars
<1>4. \A x \in Subscribers : Stream(x)' = Stream(x)
  BY <1>3 DEF Stream
<1>5. id \in Promises!Due(s)
  BY <1>1, Mapped DEF Core, PendingOwed
<1>6. Promises!Waiting(s) = StreamCap
  <2>1. ~(Len(subscriber[s].buf) < StreamCap)
    BY DEF ObservedDrop, FanOutDrop, HasRoom
  <2> QED
    BY <1>1, <2>1, WaitingIsBuffered, ServiceAssumption
<1> HIDE DEF id
<1>7. Promises!Miss(s, id)
  BY <1>3, <1>4, <1>5, <1>6 DEF Promises!Miss
<1> QED
  BY <1>2, <1>7 DEF Promises!Next

\* A reader takes what it was given.
LEMMA ReceiveTakes ==
    ASSUME ServiceTypeOK, StreamsAddressed, HistoryTypeOK,
           NEW s \in Subscribers, ObservedReceive(s)
    PROVE  Promises!Next
<1>1. s \in DOMAIN subscriber /\ subscriber[s].buf # <<>> /\ subscriber[s].buf \in Seq(Message)
  BY DEF ObservedReceive, Receive, ServiceTypeOK
<1>2. Promises!Waiting(s) > 0
  BY <1>1, WaitingIsBuffered
<1>3. owed' = owed /\ lost' = lost /\ \A x \in Subscribers : Stream(x)' = Stream(x)
  BY ReceiveStream DEF ObservedReceive
<1>4. \A x \in Subscribers : Len(got'[x]) = IF x = s THEN Len(got[x]) + 1 ELSE Len(got[x])
  <2>1. Head(subscriber[s].buf) \in Message
    BY <1>1
  <2>2. Head(subscriber[s].buf).id \in MessageIDs
    BY <2>1 DEF Message
  <2> QED
    BY <2>2 DEF ObservedReceive, HistoryTypeOK
<1>5. Promises!Take(s)
  BY <1>2, <1>3, <1>4 DEF Promises!Take
<1> QED
  BY <1>5 DEF Promises!Next

\* The other quiet steps show on no stream.
LEMMA QuietStutters ==
    ASSUME ServiceTypeOK, StreamsAddressed, HistoryTypeOK, Quiet
    PROVE  Promises!Next \/ UNCHANGED Promises!vars
<1>1. owed' = owed /\ lost' = lost /\ \A x \in Subscribers : Stream(x)' = Stream(x)
  BY QuietEffect
<1>2. CASE \E s \in Subscribers : ObservedReceive(s)
  BY <1>2, ReceiveTakes
<1>3. CASE got' = got
  BY <1>1, <1>3 DEF Promises!vars
<1> QED
  BY <1>2, <1>3 DEF Quiet, Snapshot, observerVars, vars

\* Unless clients reuse ids, the service and its handlers implement StreamPromise: at
\* the start nothing is promised, and each step promises a message, gives or misses one
\* that is due, takes one, or changes no stream.
THEOREM Implementation == ~AllowReuse => (Spec => ImplementsPromise)
<1> SUFFICES ASSUME ~AllowReuse PROVE Spec => ImplementsPromise
  OBVIOUS
<1> DEFINE Service == ServiceTypeOK /\ IndexesAgree /\ SubscriptionsAgree /\ StreamsAddressed
<1>1. Init => Promises!Init
  BY DEF Init, ServiceInit, Promises!Init, Stream
<1>2. Service /\ StreamIInv /\ [Next]_vars => [Promises!Next]_Promises!vars
  <2> SUFFICES ASSUME Service, StreamIInv, [Next]_vars
               PROVE  Promises!Next \/ UNCHANGED Promises!vars
    OBVIOUS
  <2>1. ASSUME NEW t \in Callers, NEW id \in MessageIDs, NEW from \in Users,
               NEW to \in Users, NEW d \in DeviceRefs,
               ObservedStore(t, NewMessage(id, from, to, d, TRUE))
        PROVE  Promises!Next
    <3>1. NewMessage(id, from, to, d, TRUE) \in Message
      BY NewMessageType
    <3> QED
      BY <2>1, <3>1, StorePromises DEF StreamIInv
  <2>2. ASSUME NEW t \in Callers, NEW s \in Subscribers, FanOutDeliver(t, s),
               UNCHANGED <<snapshot, observerVars>>
        PROVE  Promises!Next
    BY <2>2, DeliverGives DEF StreamIInv
  <2>3. ASSUME NEW t \in Callers, NEW s \in Subscribers, ObservedDrop(t, s)
        PROVE  Promises!Next
    BY <2>3, DropMisses DEF StreamIInv
  <2>4. CASE Quiet
    BY <2>4, QuietStutters DEF StreamIInv
  <2> QED
    BY <2>1, <2>2, <2>3, <2>4, Steps
<1> QED
  BY <1>1, <1>2, ServiceInvariants, StreamInvariant, PTL
     DEF Spec, ImplementsPromise, Promises!Spec

=============================================================================
