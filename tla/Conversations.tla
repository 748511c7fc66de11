---------------------------- MODULE Conversations ----------------------------
(***************************************************************************)
(* What a message says and where it is listed: the payload of a send       *)
(* (httpapi/message_payload.go) and the conversation summaries made from   *)
(* the stored messages (ListConversations in service/message/memory.go).   *)
(*                                                                         *)
(* A goroutine that sends parses its payload and takes the time before it  *)
(* enters the lock, so what it stores has been waiting as a draft: the     *)
(* indexes need not be in the order of the times.                          *)
(***************************************************************************)
EXTENDS MessageService

CONSTANTS Conversations, \* conversation ids as clients choose them
          Texts,         \* what users write
          Absent,        \* the field of a payload that is not there, or empty
          FormOf,        \* bound: the form a user's client gives a text to a user
          Present,       \* users who have a session bound in the hub
          MaxTime        \* bound: the clock stops there

\* How a client may wrap a text, see Payload.
Forms == {"flat", "envelope", "legacy", "sealed"}

\* What a ciphertext may be: a text in base64, as the debug header says, or sealed
\* for real.
Ciphertext == [text : Texts, sealed : BOOLEAN]

ASSUME ConversationAssumption ==
    /\ Absent \notin Texts \cup MessageIDs \cup Users \cup Conversations
    /\ Absent \notin Ciphertext \cup {"debug", "sealed"}
    /\ FormOf \in [Users \X Users -> Forms]
    /\ Present \subseteq Users
    /\ MaxTime \in Nat

VARIABLES
    drafts,   \* what a goroutine is about to store
    content,  \* conversation, time, body and (history) text of a stored message
    clock

contentVars == <<drafts, content, clock>>
vars == <<serviceVars, contentVars>>

Init ==
    /\ ServiceInit
    /\ drafts = [t \in {} |-> {}]
    /\ content = [id \in {} |-> {}]
    /\ clock = 0

Put(f, x, v) == [z \in DOMAIN f \cup {x} |-> IF z = x THEN v ELSE f[z]]

Without(f, x) == [z \in DOMAIN f \ {x} |-> f[z]]

-----------------------------------------------------------------------------
(* Payloads. *)

Encoded(text) == [text |-> text, sealed |-> FALSE]
Sealed(text) == [text |-> text, sealed |-> TRUE]

Empty == [messageId |-> Absent, conversationId |-> Absent, email |-> Absent,
          userId |-> Absent, header |-> Absent, ciphertext |-> Absent,
          body |-> Absent, plaintext |-> Absent]

\* A payload has fields of its own and may hold an envelope with some of them.
Flat(fields) == [outer |-> fields, envelope |-> Empty]

\* The payloads of the clients there are: the app's and the debug page's, the
\* same in an envelope with the address outside, a legacy one with nothing but
\* a body, and one the server cannot read.
Payload(form, text, id, c, to) ==
    LET fields == [Empty EXCEPT !.messageId = id, !.conversationId = c,
                                !.header = "debug", !.ciphertext = Encoded(text)]
    IN  CASE form = "flat" -> Flat([fields EXCEPT !.email = to])
          [] form = "envelope" -> [outer |-> [Empty EXCEPT !.email = to],
                                   envelope |-> fields]
          [] form = "legacy" -> Flat([Empty EXCEPT !.email = to, !.body = text])
          [] form = "sealed" -> Flat([fields EXCEPT !.userId = to, !.header = "sealed",
                                                    !.ciphertext = Sealed(text)])

\* The fields that count: the envelope's if there is one.
ReadFrom(p) == IF p.envelope = Empty THEN p.outer ELSE p.envelope

\* The first of some values that is there.
First(q) == LET there == {i \in DOMAIN q : q[i] # Absent}
            IN  IF there = {} THEN Absent
                ELSE q[CHOOSE i \in there : \A k \in there : i <= k]

\* A field that is looked for in the envelope first, then outside.
Field(p, name) == First(<<ReadFrom(p)[name], p.outer[name]>>)

\* What base64 makes of a ciphertext: the text, or bytes that are none.
Bytes(ciphertext) == IF ciphertext.sealed THEN ciphertext ELSE ciphertext.text

\* Mutant: the encoding is not looked at.
Decoded_Any(ciphertext, header) ==
    IF Absent \in {ciphertext, header} THEN Absent ELSE Bytes(ciphertext)

\* decodeDebugCiphertext: nothing, unless the header names the encoding.
Decoded(ciphertext, header) ==
    IF ciphertext = Absent \/ header # "debug" THEN Absent ELSE Bytes(ciphertext)

\* parseMessagePayload; fresh is the id it makes when there is none.  A message
\* without a conversation gets one of its own.
Parsed(p, fresh) ==
    LET body == First(<<ReadFrom(p).body, ReadFrom(p).plaintext,
                        p.outer.body, p.outer.plaintext>>)
        header == First(<<Field(p, "header"), "debug">>)
        id == First(<<ReadFrom(p).messageId, fresh>>)
    IN  [id |-> id,
         conversation |-> First(<<ReadFrom(p).conversationId, <<"conv", id>>>>),
         to |-> First(<<Field(p, "userId"), Field(p, "email")>>),
         body |-> First(<<body, Decoded(Field(p, "ciphertext"), header)>>)]

\* What it refuses: nobody to send to, or nothing to send.
Acceptable(p) ==
    /\ First(<<Field(p, "userId"), Field(p, "email")>>) # Absent
    /\ First(<<Field(p, "ciphertext"), ReadFrom(p).body, ReadFrom(p).plaintext,
               p.outer.body, p.outer.plaintext>>) # Absent

-----------------------------------------------------------------------------
(* Sending. *)

\* sendDebugMessage up to the lock of Send.  The hub is WsRelay's: here a
\* recipient is online or not, and no device is named.
Begin(t) ==
    /\ t \notin DOMAIN drafts \cup DOMAIN sends
    /\ \E from \in Users, to \in Users, id \in MessageIDs, c \in Conversations,
          text \in Texts :
          LET form == FormOf[<<from, to>>]
              p == Payload(form, text, id, c, to)
              x == Parsed(p, id)
          IN  /\ Acceptable(p)
              /\ id \notin Stored \cup {drafts[r].msg.id : r \in DOMAIN drafts}
              /\ x.to \in Users
              /\ drafts' = Put(drafts, t,
                    [msg |-> NewMessage(x.id, from, x.to, NoDevice, x.to \in Present),
                     content |-> [conversation |-> x.conversation, sentAt |-> clock,
                                  body |-> x.body, text |-> text, form |-> form]])
    /\ clock' \in {clock, clock + 1} \cap 0..MaxTime
    /\ UNCHANGED <<serviceVars, content>>

StoreDraft(t) ==
    /\ t \in DOMAIN drafts
    /\ Store(t, drafts[t].msg)
    /\ content' = Put(content, drafts[t].msg.id, drafts[t].content)
    /\ drafts' = Without(drafts, t)
    /\ UNCHANGED clock

Finish(t) == Return(t) /\ UNCHANGED contentVars

Report(id, u, st) == Acknowledge(id, u, NoDevice, st) /\ UNCHANGED contentVars

Next ==
    \/ \E t \in Callers : Begin(t) \/ StoreDraft(t) \/ Finish(t)
    \/ \E id \in MessageIDs, u \in Users, st \in AckStatuses : Report(id, u, st)

Spec == Init /\ [][Next]_vars

-----------------------------------------------------------------------------
(* ListConversations. *)

\* Mutant: what u sent counts as well.
Unread_Own(m, u) == u \in Users /\ m.status # "read"

Unread(m, u) == m.sender # u /\ m.status # "read"

Peer(m, u) == IF m.sender = u THEN m.recipient ELSE m.sender

\* The preview of a message whose body the server does not know is a fixed text.
Entry(id, u) ==
    LET m == messageByID[id]
    IN  [last |-> id, at |-> content[id].sentAt, peer |-> Peer(m, u),
         preview |-> content[id].body, status |-> m.status,
         count |-> 1, unread |-> IF Unread(m, u) THEN 1 ELSE 0]

\* Mutant: the one listed last is the newest.
Newer_Listed(e, s) == e.at >= 0

Newer(e, s) == e.at > s.at

\* One round of the loop: the summaries so far and the next id of the index.
Merged(summaries, id, u) ==
    LET c == content[id].conversation
        e == Entry(id, u)
        s == summaries[c]
        newest == IF Newer(e, s) THEN e ELSE s
    IN  Put(summaries, c,
            IF c \notin DOMAIN summaries THEN e
            ELSE [newest EXCEPT !.count = s.count + 1, !.unread = s.unread + e.unread])

NoSummaries == [c \in {} |-> {}]

\* The summaries of u's conversations, from the ids u's index lists; their order in
\* the answer is left out.
ListConversations(u) ==
    LET q == messageIDs[u]
        after[n \in 0..Len(q)] ==
            IF n = 0 THEN NoSummaries
            ELSE IF q[n] \notin Stored THEN after[n - 1]
            ELSE LET summaries == after[n - 1] IN Merged(summaries, q[n], u)
    IN  after[Len(q)]

-----------------------------------------------------------------------------
(* Properties. *)

\* A user's summaries are what his messages amount to, however they were listed:
\* one per conversation, with its messages and his unread ones counted once, and
\* with the newest of them (by the time it was sent, not the place in the index)
\* giving status, peer and preview.
SummariesExact ==
    \A u \in Users : \A list \in {ListConversations(u)} :
        LET In(c) == {id \in Listed(messageIDs[u]) : content[id].conversation = c}
        IN  /\ DOMAIN list = {content[id].conversation : id \in Listed(messageIDs[u])}
            /\ \A c \in DOMAIN list :
                  LET s == list[c]
                      m == messageByID[s.last]
                  IN  /\ s.count = Cardinality(In(c))
                      /\ s.unread = Cardinality({id \in In(c) :
                            messageByID[id].recipient = u /\ messageByID[id].sender # u
                            /\ messageByID[id].status # "read"})
                      /\ s.last \in In(c)
                      /\ \A id \in In(c) : content[id].sentAt <= content[s.last].sentAt
                      /\ s.status = m.status
                      /\ {u, s.peer} = {m.sender, m.recipient}
                      /\ s.preview = content[s.last].body

UnreadIn(list, c) == IF c \in DOMAIN list THEN list[c].unread ELSE 0

\* A user's unread count goes up only when a message to him is stored, or when
\* he reports on one he had read ("delivered" after "read" makes it unread
\* again), and goes down only when he reads one: nothing another user does to
\* his own messages changes it.
UnreadChanges ==
    [][UNCHANGED storeVars \/ \A u \in Users :
       \A old \in {ListConversations(u)}, new \in {ListConversations(u)'} :
          LET Turned(id) == /\ messageByID[id].recipient = u
                            /\ messageByID'[id].status # messageByID[id].status
          IN  \A c \in DOMAIN new :
              /\ UnreadIn(new, c) > UnreadIn(old, c) =>
                    \/ \E id \in Stored' \ Stored : messageByID'[id].recipient = u
                    \/ \E id \in Stored : Turned(id) /\ messageByID[id].readAt
              /\ UnreadIn(new, c) < UnreadIn(old, c) =>
                    \E id \in Stored : Turned(id) /\ messageByID'[id].status = "read"]_storeVars

\* Whichever way a client wraps what its user writes, the stored message shows
\* the recipient that text, and nothing if it was sealed.
BodyKept ==
    \A id \in Stored :
        content[id].body = IF content[id].form = "sealed" THEN Absent
                           ELSE content[id].text

=============================================================================
