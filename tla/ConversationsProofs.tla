------------------------ MODULE ConversationsProofs -------------------------
(***************************************************************************)
(* Payloads and conversation summaries, for every set of users, ids,       *)
(* conversations and texts and every assignment of forms to them: what is  *)
(* stored shows the text that was written, and the loop over an index      *)
(* makes exactly the summaries of its messages.                            *)
(***************************************************************************)
EXTENDS Conversations, MessageServiceProofs, FiniteSetTheorems

-----------------------------------------------------------------------------
(* Payloads. *)

\* The first of two values, and of four.
LEMMA FirstOfTwo ==
    ASSUME NEW a, NEW b
    PROVE  First(<<a, b>>) = IF a # Absent THEN a ELSE b
<1> DEFINE q == <<a, b>>
           there == {i \in DOMAIN q : q[i] # Absent}
<1>1. DOMAIN q = {1, 2} /\ q[1] = a /\ q[2] = b
  OBVIOUS
<1>2. First(q) = IF there = {} THEN Absent
                 ELSE q[CHOOSE i \in there : \A k \in there : i <= k]
  BY DEF First
<1> HIDE DEF q
<1>3. \A i : i \in there <=> (i = 1 /\ a # Absent) \/ (i = 2 /\ b # Absent)
  BY <1>1
<1>4. CASE a # Absent
  <2>1. (CHOOSE i \in there : \A k \in there : i <= k) = 1
    BY <1>3, <1>4
  <2> QED
    BY <1>1, <1>2, <1>3, <1>4, <2>1 DEF q
<1>5. CASE a = Absent /\ b # Absent
  <2>1. (CHOOSE i \in there : \A k \in there : i <= k) = 2
    BY <1>3, <1>5
  <2> QED
    BY <1>1, <1>2, <1>3, <1>5, <2>1 DEF q
<1>6. CASE a = Absent /\ b = Absent
  BY <1>2, <1>3, <1>6 DEF q
<1> QED
  BY <1>4, <1>5, <1>6

\* Of four values, the first if it is there, and none if none is.
LEMMA FirstOfFour ==
    ASSUME NEW a, NEW b, NEW c, NEW d
    PROVE  /\ a # Absent => First(<<a, b, c, d>>) = a
           /\ {a, b, c, d} = {Absent} => First(<<a, b, c, d>>) = Absent
<1> DEFINE q == <<a, b, c, d>>
           there == {i \in DOMAIN q : q[i] # Absent}
<1>1. DOMAIN q = 1..4 /\ q[1] = a /\ q[2] = b /\ q[3] = c /\ q[4] = d
  OBVIOUS
<1>2. First(q) = IF there = {} THEN Absent
                 ELSE q[CHOOSE i \in there : \A k \in there : i <= k]
  BY DEF First
<1> HIDE DEF q
<1>3. CASE a # Absent
  <2>1. 1 \in there /\ \A i \in there : i \in 1..4
    BY <1>1, <1>3
  <2>2. (CHOOSE i \in there : \A k \in there : i <= k) = 1
    BY <2>1
  <2> QED
    BY <1>1, <1>2, <1>3, <2>1, <2>2 DEF q
<1>4. CASE {a, b, c, d} = {Absent}
  <2>1. a = Absent /\ b = Absent /\ c = Absent /\ d = Absent
    BY <1>4
  <2>2. there = {}
    BY <1>1, <2>1
  <2> QED
    BY <1>2, <2>1, <2>2 DEF q
<1> QED
  BY <1>3, <1>4 DEF q

\* However a text is wrapped, the server reads the id, and the text if it can.
LEMMA ParsedPayload ==
    ASSUME NEW form \in Forms, NEW text \in Texts, NEW id \in MessageIDs,
           NEW c \in Conversations, NEW to \in Users
    PROVE  LET x == Parsed(Payload(form, text, id, c, to), id)
           IN  /\ x.id = id
               /\ x.body = IF form = "sealed" THEN Absent ELSE text
<1> DEFINE p == Payload(form, text, id, c, to)
           x == Parsed(p, id)
           body == First(<<ReadFrom(p).body, ReadFrom(p).plaintext, p.outer.body, p.outer.plaintext>>)
           header == First(<<Field(p, "header"), "debug">>)
           fields == [Empty EXCEPT !.messageId = id, !.conversationId = c,
                                   !.header = "debug", !.ciphertext = Encoded(text)]
<1>1. /\ Absent \notin {id, c, text, to, "debug", "sealed"}
      /\ Encoded(text) # Absent /\ Encoded(text).sealed = FALSE /\ Encoded(text).text = text
      /\ Sealed(text) # Absent /\ Sealed(text).sealed = TRUE
  <2>1. Encoded(text) \in Ciphertext /\ Sealed(text) \in Ciphertext
    BY DEF Ciphertext, Encoded, Sealed
  <2>2. Absent \notin {id, c, text, to, "debug", "sealed"}
        /\ Encoded(text) # Absent /\ Sealed(text) # Absent
    BY <2>1, ConversationAssumption
  <2>3. /\ Encoded(text).sealed = FALSE /\ Encoded(text).text = text
        /\ Sealed(text).sealed = TRUE
    BY DEF Encoded, Sealed
  <2> QED
    BY <2>2, <2>3
<1>2. /\ x.id = First(<<ReadFrom(p).messageId, id>>)
      /\ x.body = First(<<body, Decoded(Field(p, "ciphertext"), header)>>)
  BY DEF Parsed
<1>3. /\ Field(p, "ciphertext") = First(<<ReadFrom(p).ciphertext, p.outer.ciphertext>>)
      /\ Field(p, "header") = First(<<ReadFrom(p).header, p.outer.header>>)
  BY DEF Field
<1>4. CASE form = "flat"
  <2>1. p.outer = [fields EXCEPT !.email = to] /\ p.envelope = Empty
    BY <1>4 DEF Payload, Flat
  <2>2. /\ ReadFrom(p) = p.outer /\ p.outer.messageId = id /\ p.outer.body = Absent
        /\ p.outer.plaintext = Absent /\ p.outer.header = "debug"
        /\ p.outer.ciphertext = Encoded(text)
    BY <2>1 DEF ReadFrom, Empty
  <2> HIDE DEF p
  <2>3. body = Absent
    BY <2>2, FirstOfFour
  <2>4. Field(p, "ciphertext") = Encoded(text) /\ header = "debug"
    BY <1>1, <1>3, <2>2, FirstOfTwo
  <2>5. Decoded(Field(p, "ciphertext"), header) = text
    BY <1>1, <2>4 DEF Decoded, Bytes
  <2> HIDE DEF body, header
  <2> QED
    BY <1>1, <1>2, <1>4, <2>2, <2>3, <2>5, FirstOfTwo DEF p
<1>5. CASE form = "envelope"
  <2>1. p.outer = [Empty EXCEPT !.email = to] /\ p.envelope = fields
    BY <1>5 DEF Payload
  <2>2. /\ fields.ciphertext = Encoded(text) /\ fields.messageId = id /\ fields.body = Absent
        /\ fields.plaintext = Absent /\ fields.header = "debug"
        /\ p.outer.body = Absent /\ p.outer.plaintext = Absent
    BY <2>1 DEF Empty
  <2>3. fields # Empty
    BY <1>1, <2>2 DEF Empty
  <2>4. ReadFrom(p) = fields
    BY <2>1, <2>3 DEF ReadFrom
  <2> HIDE DEF p, fields
  <2>5. body = Absent
    BY <2>2, <2>4, FirstOfFour
  <2>6. Field(p, "ciphertext") = Encoded(text) /\ header = "debug"
    BY <1>1, <1>3, <2>2, <2>4, FirstOfTwo
  <2>7. Decoded(Field(p, "ciphertext"), header) = text
    BY <1>1, <2>6 DEF Decoded, Bytes
  <2> HIDE DEF body, header
  <2> QED
    BY <1>1, <1>2, <1>5, <2>2, <2>4, <2>5, <2>7, FirstOfTwo DEF p
<1>6. CASE form = "legacy"
  <2>1. p.outer = [Empty EXCEPT !.email = to, !.body = text] /\ p.envelope = Empty
    BY <1>6 DEF Payload, Flat
  <2>2. /\ ReadFrom(p) = p.outer /\ p.outer.messageId = Absent /\ p.outer.body = text
    BY <2>1 DEF ReadFrom, Empty
  <2> HIDE DEF p
  <2>3. body = text
    BY <1>1, <2>2, FirstOfFour
  <2> HIDE DEF body, header
  <2> QED
    BY <1>1, <1>2, <1>6, <2>2, <2>3, FirstOfTwo DEF p
<1>7. CASE form = "sealed"
  <2>1. /\ p.outer = [fields EXCEPT !.userId = to, !.header = "sealed", !.ciphertext = Sealed(text)]
        /\ p.envelope = Empty
    BY <1>7 DEF Payload, Flat
  <2>2. /\ ReadFrom(p) = p.outer /\ p.outer.messageId = id /\ p.outer.body = Absent
        /\ p.outer.plaintext = Absent /\ p.outer.header = "sealed"
    BY <2>1 DEF ReadFrom, Empty
  <2> HIDE DEF p
  <2>3. body = Absent
    BY <2>2, FirstOfFour
  <2>4. header = "sealed"
    BY <1>1, <1>3, <2>2, FirstOfTwo
  <2>5. Decoded(Field(p, "ciphertext"), header) = Absent
    BY <2>4 DEF Decoded
  <2> HIDE DEF body, header
  <2> QED
    BY <1>1, <1>2, <1>7, <2>2, <2>3, <2>5, FirstOfTwo DEF p
<1> QED
  BY <1>4, <1>5, <1>6, <1>7 DEF Forms

-----------------------------------------------------------------------------
(* Drafts, what is stored of them, and the index of the conversations. *)

Wrapped(x) == x.body = IF x.form = "sealed" THEN Absent ELSE x.text

\* What a goroutine is about to store: a new message under an id of its own.
DraftsGood ==
    \A t \in DOMAIN drafts :
        /\ \E id \in MessageIDs, from \in Users, to \in Users, online \in BOOLEAN :
              drafts[t].msg = NewMessage(id, from, to, NoDevice, online)
        /\ drafts[t].msg.id \notin Stored
        /\ \A r \in DOMAIN drafts : drafts[r].msg.id = drafts[t].msg.id => r = t
        /\ drafts[t].content.sentAt \in Nat
        /\ Wrapped(drafts[t].content)

ContentGood ==
    /\ clock \in Nat
    /\ Stored \subseteq DOMAIN content
    /\ \A id \in Stored :
          /\ content[id].sentAt \in Nat
          /\ Wrapped(content[id])
          /\ messageByID[id].status = "read" => messageByID[id].readAt

\* An index lists a message once, and only to a user who sent it or was sent it.
IndexGood ==
    \A u \in Users :
        /\ \A i, j \in DOMAIN messageIDs[u] : messageIDs[u][i] = messageIDs[u][j] => i = j
        /\ \A id \in Listed(messageIDs[u]) :
              u \in {messageByID[id].sender, messageByID[id].recipient}

\* What the first part of a send drafts.
LEMMA BeginEffect ==
    ASSUME NEW t, Begin(t), ContentGood
    PROVE  /\ t \notin DOMAIN drafts /\ UNCHANGED <<serviceVars, content>>
           /\ clock' \in Nat
           /\ DOMAIN drafts' = DOMAIN drafts \cup {t}
           /\ \A r \in DOMAIN drafts : drafts'[r] = drafts[r]
           /\ drafts'[t].content.sentAt \in Nat /\ Wrapped(drafts'[t].content)
           /\ \E id \in MessageIDs, from \in Users, to \in Users, online \in BOOLEAN :
                 /\ id \notin Stored /\ \A r \in DOMAIN drafts : drafts[r].msg.id # id
                 /\ drafts'[t].msg = NewMessage(id, from, to, NoDevice, online)
<1>1. PICK from \in Users, to \in Users, id \in MessageIDs, c \in Conversations, text \in Texts :
         LET form == FormOf[<<from, to>>]
             p == Payload(form, text, id, c, to)
             x == Parsed(p, id)
         IN  /\ Acceptable(p)
             /\ id \notin Stored \cup {drafts[r].msg.id : r \in DOMAIN drafts}
             /\ x.to \in Users
             /\ drafts' = Put(drafts, t,
                   [msg |-> NewMessage(x.id, from, x.to, NoDevice, x.to \in Present),
                    content |-> [conversation |-> x.conversation, sentAt |-> clock,
                                 body |-> x.body, text |-> text, form |-> form]])
  BY DEF Begin
<1> DEFINE form == FormOf[<<from, to>>]
           x == Parsed(Payload(form, text, id, c, to), id)
           y == [conversation |-> x.conversation, sentAt |-> clock, body |-> x.body,
                 text |-> text, form |-> form]
           online == x.to \in Present
<1>2. form \in Forms
  BY ConversationAssumption
<1>3. x.id = id /\ x.body = IF form = "sealed" THEN Absent ELSE text
  BY <1>2, ParsedPayload
<1>4. /\ id \notin Stored /\ \A r \in DOMAIN drafts : drafts[r].msg.id # id
      /\ x.to \in Users
      /\ drafts' = Put(drafts, t, [msg |-> NewMessage(x.id, from, x.to, NoDevice, online),
                                   content |-> y])
  BY <1>1
<1>5. t \notin DOMAIN drafts /\ UNCHANGED <<serviceVars, content>>
      /\ clock' \in {clock, clock + 1}
  BY DEF Begin
<1> HIDE DEF x, form
<1>6. y.sentAt \in Nat /\ Wrapped(y)
  BY <1>3 DEF ContentGood, Wrapped
<1>7. online \in BOOLEAN /\ clock' \in Nat
  BY <1>5 DEF ContentGood
<1> HIDE DEF y, online
<1> DEFINE d == [msg |-> NewMessage(x.id, from, x.to, NoDevice, online), content |-> y]
<1>8. d.msg = NewMessage(id, from, x.to, NoDevice, online) /\ d.content = y
  BY <1>3
<1> HIDE DEF d
<1>9. /\ DOMAIN drafts' = DOMAIN drafts \cup {t} /\ drafts'[t] = d
      /\ \A r \in DOMAIN drafts : drafts'[r] = drafts[r]
  BY <1>4, <1>5 DEF Put, d
<1> QED
  BY <1>4, <1>5, <1>6, <1>7, <1>8, <1>9

\* A draft is the next step of the service, and of its type.
LEMMA DraftType ==
    ASSUME DraftsGood, NEW t \in DOMAIN drafts
    PROVE  drafts[t].msg \in Message
<1>1. PICK id \in MessageIDs, from \in Users, to \in Users, online \in BOOLEAN :
         drafts[t].msg = NewMessage(id, from, to, NoDevice, online)
  BY DEF DraftsGood
<1>2. NoDevice \in DeviceRefs
  BY DEF DeviceRefs
<1> QED
  BY <1>1, <1>2, NewMessageType

\* Every step is one of the message service, or leaves it alone.
LEMMA ServiceStep ==
    ASSUME DraftsGood, [Next]_vars
    PROVE  [ServiceNext]_serviceVars
<1>1. NoDevice \in DeviceRefs
  BY DEF DeviceRefs
<1>2. ASSUME NEW t \in Callers, Begin(t)
      PROVE  UNCHANGED serviceVars
  BY <1>2 DEF Begin
<1>3. ASSUME NEW t \in Callers, StoreDraft(t)
      PROVE  ServiceNext
  <2>1. t \in DOMAIN drafts /\ Store(t, drafts[t].msg)
    BY <1>3 DEF StoreDraft
  <2>2. PICK id \in MessageIDs, from \in Users, to \in Users, online \in BOOLEAN :
           drafts[t].msg = NewMessage(id, from, to, NoDevice, online)
    BY <2>1 DEF DraftsGood
  <2>3. Store(t, NewMessage(id, from, to, NoDevice, online))
    BY <2>1, <2>2
  <2> QED
    BY <1>1, <2>3 DEF ServiceNext
<1>4. ASSUME NEW t \in Callers, Finish(t)
      PROVE  ServiceNext
  BY <1>4 DEF Finish, ServiceNext
<1>5. ASSUME NEW id \in MessageIDs, NEW u \in Users, NEW st \in AckStatuses, Report(id, u, st)
      PROVE  ServiceNext
  BY <1>1, <1>5 DEF Report, ServiceNext
<1>6. CASE UNCHANGED vars
  BY <1>6 DEF vars
<1> QED
  BY <1>2, <1>3, <1>4, <1>5, <1>6 DEF Next

\* What the second part of a send stores.
LEMMA StoreDraftEffect ==
    ASSUME DraftsGood, NEW t \in Callers, StoreDraft(t)
    PROVE  /\ t \in DOMAIN drafts
           /\ drafts[t].msg \in Message /\ drafts[t].msg.status # "read"
           /\ drafts[t].msg.id \notin Stored
           /\ Store(t, drafts[t].msg)
           /\ DOMAIN content' = DOMAIN content \cup {drafts[t].msg.id}
           /\ content'[drafts[t].msg.id] = drafts[t].content
           /\ \A id \in DOMAIN content : id # drafts[t].msg.id => content'[id] = content[id]
           /\ DOMAIN drafts' = DOMAIN drafts \ {t}
           /\ \A r \in DOMAIN drafts' : drafts'[r] = drafts[r]
           /\ clock' = clock
<1>1. t \in DOMAIN drafts /\ Store(t, drafts[t].msg) /\ clock' = clock
      /\ content' = Put(content, drafts[t].msg.id, drafts[t].content)
      /\ drafts' = Without(drafts, t)
  BY DEF StoreDraft
<1>2. drafts[t].msg.id \notin Stored
  BY <1>1 DEF DraftsGood
<1>3. PICK id \in MessageIDs, from \in Users, to \in Users, online \in BOOLEAN :
         drafts[t].msg = NewMessage(id, from, to, NoDevice, online)
  BY <1>1 DEF DraftsGood
<1>4. drafts[t].msg.status # "read"
  BY <1>3 DEF NewMessage
<1> DEFINE m == drafts[t].msg
           x == drafts[t].content
<1> HIDE DEF m, x
<1>5. /\ DOMAIN Put(content, m.id, x) = DOMAIN content \cup {m.id}
      /\ Put(content, m.id, x)[m.id] = x
      /\ \A k \in DOMAIN content : k # m.id => Put(content, m.id, x)[k] = content[k]
  BY DEF Put
<1>6. /\ DOMAIN Without(drafts, t) = DOMAIN drafts \ {t}
      /\ \A r \in DOMAIN drafts \ {t} : Without(drafts, t)[r] = drafts[r]
  BY DEF Without
<1> QED
  BY <1>1, <1>2, <1>4, <1>5, <1>6, DraftType DEF m, x

\* A goroutine's draft stays fit to be stored until it is.
LEMMA DraftsStep ==
    ASSUME ServiceTypeOK, DraftsGood, ContentGood, [Next]_vars
    PROVE  DraftsGood'
<1>1. ASSUME NEW t \in Callers, Begin(t)
      PROVE  DraftsGood'
  <2>1. Stored' = Stored
    BY <1>1, BeginEffect DEF serviceVars, storeVars, Stored
  <2>2. PICK id \in MessageIDs, from \in Users, to \in Users, online \in BOOLEAN :
           /\ id \notin Stored /\ \A r \in DOMAIN drafts : drafts[r].msg.id # id
           /\ drafts'[t].msg = NewMessage(id, from, to, NoDevice, online)
    BY <1>1, BeginEffect
  <2>3. NewMessage(id, from, to, NoDevice, online).id = id
    BY DEF NewMessage
  <2>4. drafts'[t].msg.id = id
    BY <2>2, <2>3
  <2>5. /\ t \notin DOMAIN drafts
        /\ DOMAIN drafts' = DOMAIN drafts \cup {t}
        /\ \A r \in DOMAIN drafts : drafts'[r] = drafts[r]
        /\ drafts'[t].content.sentAt \in Nat /\ Wrapped(drafts'[t].content)
    BY <1>1, BeginEffect
  <2>6. \A r \in DOMAIN drafts : drafts'[r].msg.id # id
    BY <2>2, <2>5
  <2>7. ASSUME NEW r \in DOMAIN drafts'
        PROVE  /\ \E i \in MessageIDs, f \in Users, o \in Users, b \in BOOLEAN :
                     drafts'[r].msg = NewMessage(i, f, o, NoDevice, b)
               /\ drafts'[r].msg.id \notin Stored'
               /\ \A v \in DOMAIN drafts' : drafts'[v].msg.id = drafts'[r].msg.id => v = r
               /\ drafts'[r].content.sentAt \in Nat
               /\ Wrapped(drafts'[r].content)
    <3>1. CASE r = t
      BY <2>1, <2>2, <2>4, <2>5, <2>6, <3>1
    <3>2. CASE r \in DOMAIN drafts
      <4>1. /\ \E i \in MessageIDs, f \in Users, o \in Users, b \in BOOLEAN :
                  drafts[r].msg = NewMessage(i, f, o, NoDevice, b)
            /\ drafts[r].msg.id \notin Stored
            /\ \A v \in DOMAIN drafts : drafts[v].msg.id = drafts[r].msg.id => v = r
            /\ drafts[r].content.sentAt \in Nat
            /\ Wrapped(drafts[r].content)
        BY <3>2 DEF DraftsGood
      <4>2. ASSUME NEW v \in DOMAIN drafts', drafts'[v].msg.id = drafts'[r].msg.id
            PROVE  v = r
        <5>1. v # t
          BY <2>4, <2>5, <2>6, <3>2, <4>2
        <5> QED
          BY <2>5, <3>2, <4>1, <4>2, <5>1
      <4> QED
        BY <2>1, <2>5, <3>2, <4>1, <4>2
    <3> QED
      BY <2>5, <3>1, <3>2
  <2> QED
    BY <2>7 DEF DraftsGood, Wrapped
<1>2. ASSUME NEW t \in Callers, StoreDraft(t)
      PROVE  DraftsGood'
  <2>1. /\ t \in DOMAIN drafts
        /\ Stored' = Stored \cup {drafts[t].msg.id}
        /\ DOMAIN drafts' = DOMAIN drafts \ {t}
        /\ \A r \in DOMAIN drafts' : drafts'[r] = drafts[r]
    BY <1>2, StoreDraftEffect, StoreEffect
  <2>2. \A r \in DOMAIN drafts' : drafts[r].msg.id # drafts[t].msg.id
    BY <2>1 DEF DraftsGood
  <2> QED
    BY <2>1, <2>2 DEF DraftsGood, Wrapped
<1>3. ASSUME UNCHANGED drafts, Stored' = Stored
      PROVE  DraftsGood'
  BY <1>3 DEF DraftsGood, Wrapped
<1>4. ASSUME NEW t \in Callers, Finish(t)
      PROVE  DraftsGood'
  BY <1>3, <1>4 DEF Finish, Return, contentVars, storeVars, Stored
<1>5. ASSUME NEW id \in MessageIDs, NEW u \in Users, NEW st \in AckStatuses, Report(id, u, st)
      PROVE  DraftsGood'
  <2>1. NoDevice \in DeviceRefs /\ st \in Statuses
    BY ServiceAssumption DEF DeviceRefs
  <2>2. Stored' = Stored /\ UNCHANGED drafts
    BY <1>5, <2>1, AcknowledgeEffect DEF Report, contentVars
  <2> QED
    BY <1>3, <2>2
<1>6. CASE UNCHANGED vars
  BY <1>3, <1>6 DEF vars, serviceVars, storeVars, contentVars, Stored
<1> QED
  BY <1>1, <1>2, <1>4, <1>5, <1>6 DEF Next

\* A report keeps the stamp of a message that was read, and of no other status.
LEMMA ReportEffect ==
    ASSUME ServiceTypeOK, NEW id \in MessageIDs, NEW u \in Users, NEW st \in AckStatuses,
           Report(id, u, st)
    PROVE  /\ id \in Stored /\ messageByID[id].recipient = u
           /\ Stored' = Stored /\ messageIDs' = messageIDs /\ UNCHANGED contentVars
           /\ \A x \in Stored :
                 /\ messageByID'[x].sender = messageByID[x].sender
                 /\ messageByID'[x].recipient = messageByID[x].recipient
                 /\ messageByID[x].readAt => messageByID'[x].readAt
                 /\ x # id => messageByID'[x].status = messageByID[x].status
           /\ messageByID'[id].status = st
           /\ st = "read" => messageByID'[id].readAt
<1>1. NoDevice \in DeviceRefs /\ st \in Statuses
  BY ServiceAssumption DEF DeviceRefs
<1>2. Acknowledge(id, u, NoDevice, st) /\ UNCHANGED contentVars
  BY DEF Report
<1>3. /\ Stored' = Stored /\ messageIDs' = messageIDs
      /\ \A x \in Stored :
            /\ messageByID'[x].sender = messageByID[x].sender
            /\ messageByID'[x].recipient = messageByID[x].recipient
            /\ messageByID[x].readAt => messageByID'[x].readAt
  BY <1>1, <1>2, AcknowledgeEffect
<1>4. /\ id \in Stored /\ messageByID[id] \in Message /\ messageByID[id].recipient = u
      /\ messageByID' = [messageByID EXCEPT ![id] = Acked(messageByID[id], NoDevice, st)]
  BY <1>2 DEF Acknowledge, CanAcknowledge, ServiceTypeOK
<1>5. /\ messageByID'[id] = Acked(messageByID[id], NoDevice, st)
      /\ \A x \in Stored : x # id => messageByID'[x] = messageByID[x]
  BY <1>4 DEF Stored
<1>6. /\ Acked(messageByID[id], NoDevice, st).status = st
      /\ st = "read" => Acked(messageByID[id], NoDevice, st).readAt
  BY <1>4 DEF Acked, Message
<1> QED
  BY <1>2, <1>3, <1>4, <1>5, <1>6

\* What is stored came from a draft, and a report of "read" stamps it.
LEMMA ContentStep ==
    ASSUME ServiceTypeOK, DraftsGood, ContentGood, [Next]_vars
    PROVE  ContentGood'
<1>1. ASSUME NEW t \in Callers, Begin(t)
      PROVE  ContentGood'
  <2>1. clock' \in Nat /\ UNCHANGED <<messageByID, content>>
    BY <1>1, BeginEffect DEF serviceVars, storeVars
  <2> QED
    BY <2>1 DEF ContentGood, Wrapped, Stored
<1>2. ASSUME NEW t \in Callers, StoreDraft(t)
      PROVE  ContentGood'
  <2> DEFINE m == drafts[t].msg
             x == drafts[t].content
  <2>1. /\ t \in DOMAIN drafts /\ m \in Message /\ m.status # "read" /\ m.id \notin Stored
        /\ Store(t, m)
        /\ DOMAIN content' = DOMAIN content \cup {m.id} /\ content'[m.id] = x
        /\ \A id \in DOMAIN content : id # m.id => content'[id] = content[id]
        /\ clock' = clock
    BY <1>2, StoreDraftEffect
  <2>2. x.sentAt \in Nat /\ Wrapped(x)
    BY <2>1 DEF DraftsGood
  <2> HIDE DEF m, x
  <2>3. /\ Stored' = Stored \cup {m.id}
        /\ \A id \in Stored' : messageByID'[id] = IF id = m.id THEN m ELSE messageByID[id]
    BY <2>1, StoreEffect
  <2>4. ASSUME NEW id \in Stored'
        PROVE  /\ id \in DOMAIN content'
               /\ content'[id].sentAt \in Nat
               /\ Wrapped(content'[id])
               /\ messageByID'[id].status = "read" => messageByID'[id].readAt
    <3>1. CASE id = m.id
      BY <2>1, <2>2, <2>3, <3>1
    <3>2. CASE id # m.id
      <4>1. id \in Stored /\ messageByID'[id] = messageByID[id]
        BY <2>3, <3>2
      <4>2. id \in DOMAIN content /\ content'[id] = content[id]
        BY <2>1, <3>2, <4>1 DEF ContentGood
      <4>3. /\ content[id].sentAt \in Nat /\ Wrapped(content[id])
            /\ messageByID[id].status = "read" => messageByID[id].readAt
        BY <4>1 DEF ContentGood
      <4> QED
        BY <2>1, <4>1, <4>2, <4>3
    <3> QED
      BY <3>1, <3>2
  <2>5. clock' \in Nat
    BY <2>1 DEF ContentGood
  <2> QED
    BY <2>4, <2>5 DEF ContentGood, Wrapped
<1>3. ASSUME NEW t \in Callers, Finish(t)
      PROVE  ContentGood'
  BY <1>3 DEF Finish, Return, contentVars, storeVars, ContentGood, Wrapped, Stored
<1>4. ASSUME NEW id \in MessageIDs, NEW u \in Users, NEW st \in AckStatuses, Report(id, u, st)
      PROVE  ContentGood'
  <2>1. \A x \in Stored : messageByID'[x].status = "read" => messageByID'[x].readAt
    BY <1>4, ReportEffect DEF ContentGood
  <2>2. Stored' = Stored /\ UNCHANGED <<clock, content>>
    BY <1>4, ReportEffect DEF contentVars
  <2> QED
    BY <2>1, <2>2 DEF ContentGood, Wrapped
<1>5. CASE UNCHANGED vars
  BY <1>5 DEF vars, serviceVars, storeVars, contentVars, ContentGood, Wrapped, Stored
<1> QED
  BY <1>1, <1>2, <1>3, <1>4, <1>5 DEF Next

\* The indexes of conversations list what they should, once.
LEMMA IndexGoodStep ==
    ASSUME ServiceTypeOK, IndexesAgree, DraftsGood, IndexGood, [Next]_vars
    PROVE  IndexGood'
<1>1. ASSUME UNCHANGED storeVars
      PROVE  IndexGood'
  BY <1>1 DEF storeVars, IndexGood, Listed
<1>2. ASSUME NEW t \in Callers, StoreDraft(t)
      PROVE  IndexGood'
  <2> DEFINE m == drafts[t].msg
  <2>1. m \in Message /\ m.id \notin Stored /\ Store(t, m)
    BY <1>2, StoreDraftEffect
  <2> HIDE DEF m
  <2>2. /\ m.id \in MessageIDs
        /\ Stored' = Stored \cup {m.id}
        /\ \A id \in Stored' : messageByID'[id] = IF id = m.id THEN m ELSE messageByID[id]
        /\ \A u \in Users : Listed(messageIDs'[u]) =
              Listed(messageIDs[u]) \cup IF u \in {m.sender, m.recipient} THEN {m.id} ELSE {}
    BY <2>1, StoreEffect
  <2>3. \A u \in Users : Listed(messageIDs[u]) \subseteq Stored
    BY DEF IndexesAgree
  <2>4. ASSUME NEW u \in Users
        PROVE  \A i, j \in DOMAIN messageIDs'[u] : messageIDs'[u][i] = messageIDs'[u][j] => i = j
    <3>1. /\ messageIDs'[u] = IF u \in {m.sender, m.recipient}
                              THEN Append(messageIDs[u], m.id) ELSE messageIDs[u]
          /\ messageIDs[u] \in Seq(MessageIDs)
      BY <2>1 DEF Store, Indexed, Parties, ServiceTypeOK
    <3>2. m.id \notin Listed(messageIDs[u])
      BY <2>1, <2>3
    <3>3. \A i, j \in DOMAIN messageIDs[u] : messageIDs[u][i] = messageIDs[u][j] => i = j
      BY DEF IndexGood
    <3> QED
      BY <2>2, <3>1, <3>2, <3>3, AppendOnce
  <2>5. ASSUME NEW u \in Users, NEW id \in Listed(messageIDs'[u])
        PROVE  u \in {messageByID'[id].sender, messageByID'[id].recipient}
    <3>1. CASE id = m.id
      <4>1. id \notin Listed(messageIDs[u])
        BY <2>1, <2>3, <3>1
      <4>2. u \in {m.sender, m.recipient}
        BY <2>2, <2>5, <4>1
      <4> QED
        BY <2>2, <3>1, <4>2
    <3>2. CASE id # m.id
      <4>1. id \in Listed(messageIDs[u])
        BY <2>2, <2>5, <3>2
      <4>2. id \in Stored /\ u \in {messageByID[id].sender, messageByID[id].recipient}
        BY <2>3, <4>1 DEF IndexGood
      <4> QED
        BY <2>2, <3>2, <4>2
    <3> QED
      BY <3>1, <3>2
  <2> QED
    BY <2>4, <2>5 DEF IndexGood, Listed
<1>3. ASSUME NEW id \in MessageIDs, NEW u \in Users, NEW st \in AckStatuses, Report(id, u, st)
      PROVE  IndexGood'
  <2>1. /\ messageIDs' = messageIDs
        /\ \A x \in Stored : /\ messageByID'[x].sender = messageByID[x].sender
                             /\ messageByID'[x].recipient = messageByID[x].recipient
    BY <1>3, ReportEffect
  <2>2. \A v \in Users : Listed(messageIDs[v]) \subseteq Stored
    BY DEF IndexesAgree
  <2> QED
    BY <2>1, <2>2 DEF IndexGood, Listed
<1>4. ASSUME NEW t \in Callers, Begin(t) \/ Finish(t)
      PROVE  UNCHANGED storeVars
  BY <1>4 DEF Begin, Finish, Return, serviceVars
<1>5. CASE UNCHANGED vars
  BY <1>1, <1>5 DEF vars, serviceVars
<1> QED
  BY <1>1, <1>2, <1>3, <1>4, <1>5 DEF Next

\* The inductive invariant.
Sound == ServiceTypeOK /\ IndexesAgree /\ DraftsGood /\ ContentGood /\ IndexGood

\* Every step keeps the invariant.
LEMMA SoundStep ==
    ASSUME Sound, [Next]_vars
    PROVE  Sound'
<1>1. [ServiceNext]_serviceVars
  BY ServiceStep DEF Sound
<1> QED
  BY <1>1, TypeStep, IndexStep, DraftsStep, ContentStep, IndexGoodStep DEF Sound

\* It holds in every state.
LEMMA SoundAlways == Spec => []Sound
<1>1. Init => Sound
  <2> SUFFICES ASSUME Init PROVE Sound
    OBVIOUS
  <2>1. ServiceInit /\ DOMAIN drafts = {} /\ clock = 0
    BY DEF Init
  <2>2. ServiceTypeOK
    BY <2>1 DEF ServiceInit, ServiceTypeOK, Stored
  <2>3. IndexesAgree
    BY <2>1 DEF ServiceInit, IndexesAgree, Stored, Listed
  <2>4. DraftsGood /\ ContentGood
    BY <2>1 DEF ServiceInit, DraftsGood, ContentGood, Stored
  <2>5. IndexGood
    BY <2>1 DEF ServiceInit, IndexGood, Listed
  <2> QED
    BY <2>2, <2>3, <2>4, <2>5 DEF Sound
<1>2. Sound /\ [Next]_vars => Sound'
  BY SoundStep
<1> QED
  BY <1>1, <1>2, PTL DEF Spec

\* Sending with payloads, and asking for conversations, uses the message service as
\* any of its callers may: what is proved of the service holds here.
THEOREM ConversationsUseService == Spec => ServiceSpec
<1>1. Init => ServiceInit
  BY DEF Init
<1>2. Sound /\ [Next]_vars => [ServiceNext]_serviceVars
  BY ServiceStep DEF Sound
<1> QED
  BY <1>1, <1>2, SoundAlways, PTL DEF Spec, ServiceSpec

\* A stored message shows its recipient the text its sender wrote, however the
\* client wrapped it, or nothing if it was sealed.
THEOREM TextShown == Spec => []BodyKept
<1>1. Sound => BodyKept
  BY DEF Sound, ContentGood, BodyKept, Wrapped
<1> QED
  BY <1>1, SoundAlways, PTL

-----------------------------------------------------------------------------
(* The loop over an index. *)

\* One round of it.
Round(q, u, after, n) ==
    IF n = 0 THEN NoSummaries
    ELSE IF q[n] \notin Stored THEN after[n - 1]
    ELSE Merged(after[n - 1], q[n], u)

\* The recursive function of the loop exists: if it does up to k, one more round
\* gives it up to k + 1.
LEMMA RoundsExist ==
    ASSUME NEW q, NEW u, NEW m \in Nat
    PROVE  \E f : f = [n \in 0..m |-> Round(q, u, f, n)]
<1> DEFINE T == {k \in Nat : \E f : f = [n \in 0..k |-> Round(q, u, f, n)]}
<1>1. 0 \in T
  <2> DEFINE f == [n \in 0..0 |-> NoSummaries]
  <2>1. f = [n \in 0..0 |-> Round(q, u, f, n)]
    BY DEF Round
  <2>2. \E g : g = [n \in 0..0 |-> Round(q, u, g, n)]
    BY <2>1
  <2> QED
    BY <2>2
<1>2. ASSUME NEW k \in Nat, k \in T PROVE k + 1 \in T
  <2>1. PICK f : f = [n \in 0..k |-> Round(q, u, f, n)]
    BY <1>2
  <2> DEFINE g == [n \in 0..(k + 1) |-> IF n = k + 1 THEN Round(q, u, f, n) ELSE f[n]]
  <2>2. ASSUME NEW n \in 0..(k + 1)
        PROVE  g[n] = Round(q, u, g, n)
    <3>1. CASE n = k + 1
      <4>1. g[n - 1] = f[n - 1]
        BY <3>1
      <4> QED
        BY <3>1, <4>1 DEF Round
    <3>2. CASE n \in 0..k
      <4>1. g[n] = f[n] /\ (n # 0 => g[n - 1] = f[n - 1])
        BY <3>2
      <4>2. f[n] = Round(q, u, f, n)
        BY <2>1, <3>2
      <4> QED
        BY <4>1, <4>2 DEF Round
    <3> QED
      BY <3>1, <3>2
  <2>3. g = [n \in 0..(k + 1) |-> g[n]]
    OBVIOUS
  <2> HIDE DEF g
  <2>4. g = [n \in 0..(k + 1) |-> Round(q, u, g, n)]
    BY <2>2, <2>3
  <2>5. (\E h : h = [n \in 0..(k + 1) |-> Round(q, u, h, n)]) /\ k + 1 \in Nat
    BY <2>4
  <2> QED
    BY <2>5, Zenon
<1> HIDE DEF T
<1>3. m \in T
  BY <1>1, <1>2, Induction
<1> QED
  BY <1>3 DEF T

\* The answer is what the last round leaves.
LEMMA ListedRounds ==
    ASSUME NEW u, Len(messageIDs[u]) \in Nat
    PROVE  \E f : /\ f = [n \in 0..Len(messageIDs[u]) |-> Round(messageIDs[u], u, f, n)]
                  /\ ListConversations(u) = f[Len(messageIDs[u])]
<1> DEFINE q == messageIDs[u]
           after[n \in 0..Len(q)] ==
              IF n = 0 THEN NoSummaries
              ELSE IF q[n] \notin Stored THEN after[n - 1]
              ELSE LET summaries == after[n - 1] IN Merged(summaries, q[n], u)
<1>1. \E f : f = [n \in 0..Len(q) |-> Round(q, u, f, n)]
  BY RoundsExist
<1>2. \E f : f = [n \in 0..Len(q) |->
                     IF n = 0 THEN NoSummaries
                     ELSE IF q[n] \notin Stored THEN f[n - 1]
                     ELSE Merged(f[n - 1], q[n], u)]
  BY <1>1 DEF Round
<1>3. after = [n \in 0..Len(q) |->
                 IF n = 0 THEN NoSummaries
                 ELSE IF q[n] \notin Stored THEN after[n - 1]
                 ELSE Merged(after[n - 1], q[n], u)]
  BY <1>2, Zenon
<1>4. ListConversations(u) = after[Len(q)]
  BY Zenon DEF ListConversations
<1> HIDE DEF after
<1>5. after = [n \in 0..Len(q) |-> Round(q, u, after, n)]
  BY <1>3 DEF Round
<1> QED
  BY <1>4, <1>5

\* The messages of a conversation among some, and those of them u has not read.
InConv(A, c) == {id \in A : content[id].conversation = c}

UnreadOf(A, u) == {id \in A : Unread(messageByID[id], u)}

\* A summary is what the messages of B amount to for u.
SumsUp(s, B, u) ==
    /\ DOMAIN s = {"last", "at", "peer", "preview", "status", "count", "unread"}
    /\ s.last \in B
    /\ s.at = content[s.last].sentAt
    /\ s.peer = Peer(messageByID[s.last], u)
    /\ s.preview = content[s.last].body
    /\ s.status = messageByID[s.last].status
    /\ \A id \in B : content[id].sentAt <= s.at
    /\ s.count = Cardinality(B)
    /\ s.unread = Cardinality(UnreadOf(B, u))

Summarises(list, A, u) ==
    /\ DOMAIN list = {content[id].conversation : id \in A}
    /\ \A c \in DOMAIN list : SumsUp(list[c], InConv(A, c), u)

\* The entry of a message sums that message up.
LEMMA EntryAlone ==
    ASSUME NEW u, NEW id, content[id].sentAt \in Nat
    PROVE  SumsUp(Entry(id, u), {id}, u)
<1> DEFINE e == Entry(id, u)
<1>1. /\ DOMAIN e = {"last", "at", "peer", "preview", "status", "count", "unread"}
      /\ e.last = id /\ e.at = content[id].sentAt /\ e.peer = Peer(messageByID[id], u)
      /\ e.preview = content[id].body /\ e.status = messageByID[id].status
      /\ e.count = 1 /\ e.unread = IF Unread(messageByID[id], u) THEN 1 ELSE 0
  BY DEF Entry
<1>2. Cardinality({id}) = 1 /\ Cardinality({}) = 0
  BY FS_Singleton, FS_EmptySet
<1>3. UnreadOf({id}, u) = IF Unread(messageByID[id], u) THEN {id} ELSE {}
  BY DEF UnreadOf
<1>4. Cardinality(UnreadOf({id}, u)) = IF Unread(messageByID[id], u) THEN 1 ELSE 0
  BY <1>2, <1>3
<1> HIDE DEF e
<1> QED
  BY <1>1, <1>2, <1>4 DEF SumsUp, e

\* The entry of one more message added to a summary sums up all of them.
LEMMA EntryAdded ==
    ASSUME NEW u, NEW B, IsFiniteSet(B), NEW id, id \notin B, content[id].sentAt \in Nat,
           \A x \in B : content[x].sentAt \in Nat,
           NEW s, SumsUp(s, B, u)
    PROVE  LET e == Entry(id, u)
               newest == IF Newer(e, s) THEN e ELSE s
           IN  SumsUp([newest EXCEPT !.count = s.count + 1, !.unread = s.unread + e.unread],
                      B \cup {id}, u)
<1> DEFINE e == Entry(id, u)
           newest == IF Newer(e, s) THEN e ELSE s
           r == [newest EXCEPT !.count = s.count + 1, !.unread = s.unread + e.unread]
           fields == {"last", "at", "peer", "preview", "status", "count", "unread"}
<1>1. /\ DOMAIN e = fields
      /\ e.last = id /\ e.at = content[id].sentAt /\ e.peer = Peer(messageByID[id], u)
      /\ e.preview = content[id].body /\ e.status = messageByID[id].status
      /\ e.unread = IF Unread(messageByID[id], u) THEN 1 ELSE 0
  BY DEF Entry
<1>2. Cardinality(B \cup {id}) = Cardinality(B) + 1
  BY FS_AddElement
<1>3. Cardinality(UnreadOf(B \cup {id}, u)) = Cardinality(UnreadOf(B, u)) + e.unread
  <2>1. UnreadOf(B, u) \subseteq B
    BY DEF UnreadOf
  <2>2. IsFiniteSet(UnreadOf(B, u)) /\ id \notin UnreadOf(B, u)
    BY <2>1, FS_Subset
  <2>3. Cardinality(UnreadOf(B, u)) \in Nat
    BY <2>2, FS_CardinalityType
  <2>4. Cardinality(UnreadOf(B, u) \cup {id}) = Cardinality(UnreadOf(B, u)) + 1
    BY <2>2, FS_AddElement
  <2>5. UnreadOf(B \cup {id}, u) = IF Unread(messageByID[id], u) THEN UnreadOf(B, u) \cup {id}
                                   ELSE UnreadOf(B, u)
    BY DEF UnreadOf
  <2> HIDE DEF e
  <2> QED
    BY <1>1, <2>3, <2>4, <2>5
<1>4. /\ DOMAIN s = fields /\ s.last \in B /\ s.at = content[s.last].sentAt
      /\ s.peer = Peer(messageByID[s.last], u) /\ s.preview = content[s.last].body
      /\ s.status = messageByID[s.last].status
      /\ \A x \in B : content[x].sentAt <= s.at
      /\ s.count = Cardinality(B) /\ s.unread = Cardinality(UnreadOf(B, u))
  BY DEF SumsUp
<1>5. s.at \in Nat /\ e.at \in Nat
  BY <1>1, <1>4
<1>6. newest = IF e.at > s.at THEN e ELSE s
  BY DEF Newer
<1> HIDE DEF e
<1>7. DOMAIN newest = fields
  BY <1>1, <1>4, <1>6
<1> HIDE DEF newest
<1>8. /\ DOMAIN r = fields /\ r.last = newest.last /\ r.at = newest.at /\ r.peer = newest.peer
      /\ r.preview = newest.preview /\ r.status = newest.status
      /\ r.count = s.count + 1 /\ r.unread = s.unread + e.unread
  BY <1>7
<1> HIDE DEF r
<1>9. /\ newest.last \in B \cup {id} /\ newest.at = content[newest.last].sentAt
      /\ newest.peer = Peer(messageByID[newest.last], u)
      /\ newest.preview = content[newest.last].body
      /\ newest.status = messageByID[newest.last].status
  BY <1>1, <1>4, <1>6
<1>10. ASSUME NEW x \in B \cup {id} PROVE content[x].sentAt <= newest.at
  <2>1. CASE x = id
    BY <1>1, <1>5, <1>6, <2>1
  <2>2. CASE x \in B
    <3>1. content[x].sentAt \in Nat /\ content[x].sentAt <= s.at
      BY <1>4, <2>2
    <3> QED
      BY <1>5, <1>6, <3>1
  <2> QED
    BY <2>1, <2>2
<1>11. SumsUp(r, B \cup {id}, u)
  BY <1>2, <1>3, <1>4, <1>8, <1>9, <1>10 DEF SumsUp
<1> QED
  BY <1>11 DEF r, newest, e

\* A round that meets a message merges it.
LEMMA MergedOne ==
    ASSUME NEW u, NEW A, IsFiniteSet(A), NEW id, id \notin A,
           \A x \in A \cup {id} : content[x].sentAt \in Nat,
           NEW list, Summarises(list, A, u)
    PROVE  Summarises(Merged(list, id, u), A \cup {id}, u)
<1> DEFINE c == content[id].conversation
           e == Entry(id, u)
           s == list[c]
           newest == IF Newer(e, s) THEN e ELSE s
           r == [newest EXCEPT !.count = s.count + 1, !.unread = s.unread + e.unread]
           v == IF c \notin DOMAIN list THEN e ELSE r
           more == Merged(list, id, u)
<1>1. more = Put(list, c, v)
  BY Zenon DEF Merged
<1>2. \A d : InConv(A \cup {id}, d) = IF d = c THEN InConv(A, c) \cup {id} ELSE InConv(A, d)
  BY DEF InConv
<1>3. DOMAIN list = {content[x].conversation : x \in A}
  BY DEF Summarises
<1>4. SumsUp(v, InConv(A \cup {id}, c), u)
  <2>1. CASE c \notin DOMAIN list
    <3>1. InConv(A, c) = {}
      BY <1>3, <2>1 DEF InConv
    <3>2. InConv(A \cup {id}, c) = {id}
      BY <1>2, <3>1
    <3>3. SumsUp(e, {id}, u)
      BY EntryAlone
    <3> QED
      BY <2>1, <3>2, <3>3
  <2>2. CASE c \in DOMAIN list
    <3>1. SumsUp(s, InConv(A, c), u)
      BY <2>2 DEF Summarises
    <3>2. InConv(A, c) \subseteq A
      BY DEF InConv
    <3>3. IsFiniteSet(InConv(A, c)) /\ id \notin InConv(A, c)
      BY <3>2, FS_Subset
    <3>4. \A x \in InConv(A, c) : content[x].sentAt \in Nat
      BY <3>2
    <3>5. SumsUp(r, InConv(A, c) \cup {id}, u)
      BY <3>1, <3>3, <3>4, EntryAdded
    <3>6. v = r
      BY <2>2
    <3> HIDE DEF v, r
    <3> QED
      BY <1>2, <3>5, <3>6
  <2> QED
    BY <2>1, <2>2
<1> HIDE DEF v, more
<1>5. /\ DOMAIN more = DOMAIN list \cup {c} /\ more[c] = v
      /\ \A d \in DOMAIN list : d # c => more[d] = list[d]
  BY <1>1 DEF Put
<1>6. DOMAIN more = {content[x].conversation : x \in A \cup {id}}
  BY <1>3, <1>5
<1>7. ASSUME NEW d \in DOMAIN more PROVE SumsUp(more[d], InConv(A \cup {id}, d), u)
  <2>1. CASE d = c
    BY <1>4, <1>5, <2>1
  <2>2. CASE d # c
    BY <1>2, <1>5, <2>2 DEF Summarises
  <2> QED
    BY <2>1, <2>2
<1> QED
  BY <1>6, <1>7 DEF Summarises, more

\* The answer sums up the messages the user's index lists.
LEMMA Summarised ==
    ASSUME Sound, NEW u \in Users
    PROVE  /\ IsFiniteSet(Listed(messageIDs[u]))
           /\ Summarises(ListConversations(u), Listed(messageIDs[u]), u)
<1> DEFINE q == messageIDs[u]
           Upto(n) == {q[i] : i \in 1..n}
<1>1. /\ q \in Seq(MessageIDs) /\ Listed(q) \subseteq Stored
      /\ \A i, j \in DOMAIN q : q[i] = q[j] => i = j
      /\ \A id \in Stored : content[id].sentAt \in Nat
  BY DEF Sound, ServiceTypeOK, IndexesAgree, IndexGood, ContentGood
<1> HIDE DEF q
<1>2. Len(q) \in Nat /\ DOMAIN q = 1..Len(q)
  BY <1>1
<1>3. PICK f : /\ f = [n \in 0..Len(q) |-> Round(q, u, f, n)]
               /\ ListConversations(u) = f[Len(q)]
  BY <1>2, ListedRounds DEF q
<1> DEFINE T == {n \in Nat : n <= Len(q) =>
                    IsFiniteSet(Upto(n)) /\ Summarises(f[n], Upto(n), u)}
<1>4. 0 \in T
  <2>1. f[0] = NoSummaries
    BY <1>2, <1>3 DEF Round
  <2>2. Upto(0) = {} /\ DOMAIN f[0] = {}
    BY <2>1 DEF NoSummaries
  <2>3. IsFiniteSet(Upto(0)) /\ Summarises(f[0], Upto(0), u)
    BY <2>2, FS_EmptySet DEF Summarises
  <2> QED
    BY <2>3
<1>5. ASSUME NEW n \in Nat, n \in T PROVE n + 1 \in T
  <2> SUFFICES ASSUME n + 1 <= Len(q)
               PROVE  IsFiniteSet(Upto(n + 1)) /\ Summarises(f[n + 1], Upto(n + 1), u)
    OBVIOUS
  <2>1. IsFiniteSet(Upto(n)) /\ Summarises(f[n], Upto(n), u)
    BY <1>2, <1>5
  <2>2. n + 1 \in 0..Len(q) /\ n + 1 # 0 /\ (n + 1) - 1 = n /\ n + 1 \in DOMAIN q
    BY <1>2
  <2>3. q[n + 1] \in Stored
    BY <1>1, <2>2 DEF Listed
  <2>4. f[n + 1] = Merged(f[n], q[n + 1], u)
    BY <1>3, <2>2, <2>3 DEF Round
  <2>5. Upto(n + 1) = Upto(n) \cup {q[n + 1]}
    <3>1. \A i : i \in 1..(n + 1) <=> i \in 1..n \/ i = n + 1
      OBVIOUS
    <3> QED
      BY <3>1
  <2>6. q[n + 1] \notin Upto(n)
    <3>1. \A i \in 1..n : i \in DOMAIN q /\ i # n + 1
      BY <1>2, <2>2
    <3> QED
      BY <1>1, <2>2, <3>1
  <2>7. Upto(n) \cup {q[n + 1]} \subseteq Stored
    <3>1. \A i \in 1..n : i \in DOMAIN q
      BY <1>2, <2>2
    <3> QED
      BY <1>1, <2>3, <3>1 DEF Listed
  <2> DEFINE A == Upto(n)
             id == q[n + 1]
  <2>8. \A x \in A \cup {id} : content[x].sentAt \in Nat
    BY <1>1, <2>7
  <2> HIDE DEF A, id
  <2>9. Summarises(Merged(f[n], id, u), A \cup {id}, u)
    BY <2>1, <2>6, <2>8, MergedOne DEF A, id
  <2>10. IsFiniteSet(A \cup {id})
    BY <2>1, FS_AddElement DEF A
  <2> QED
    BY <2>4, <2>5, <2>9, <2>10 DEF A, id
<1> HIDE DEF T
<1>6. Len(q) \in T
  BY <1>2, <1>4, <1>5, Induction
<1>7. Listed(q) = Upto(Len(q))
  BY <1>2 DEF Listed
<1>8. IsFiniteSet(Upto(Len(q))) /\ Summarises(f[Len(q)], Upto(Len(q)), u)
  BY <1>2, <1>6 DEF T
<1> HIDE DEF Upto
<1>9. ListConversations(u) = f[Len(q)]
  BY <1>3
<1> QED
  BY <1>7, <1>8, <1>9 DEF q

\* A summary is exactly what its messages amount to.
LEMMA SummariesAreExact ==
    ASSUME Sound
    PROVE  SummariesExact
<1> SUFFICES ASSUME NEW u \in Users, NEW list \in {ListConversations(u)}
             PROVE  LET In(c) == {id \in Listed(messageIDs[u]) : content[id].conversation = c}
                    IN  /\ DOMAIN list = {content[id].conversation : id \in Listed(messageIDs[u])}
                        /\ \A c \in DOMAIN list :
                              LET s == list[c]
                                  m == messageByID[s.last]
                              IN  /\ s.count = Cardinality(In(c))
                                  /\ s.unread = Cardinality({id \in In(c) :
                                        messageByID[id].recipient = u
                                        /\ messageByID[id].sender # u
                                        /\ messageByID[id].status # "read"})
                                  /\ s.last \in In(c)
                                  /\ \A id \in In(c) :
                                        content[id].sentAt <= content[s.last].sentAt
                                  /\ s.status = m.status
                                  /\ {u, s.peer} = {m.sender, m.recipient}
                                  /\ s.preview = content[s.last].body
  BY DEF SummariesExact
<1> DEFINE In(c) == {id \in Listed(messageIDs[u]) : content[id].conversation = c}
           Unseen(c) == {id \in In(c) : messageByID[id].recipient = u
                                        /\ messageByID[id].sender # u
                                        /\ messageByID[id].status # "read"}
<1>1. Summarises(list, Listed(messageIDs[u]), u)
  BY Summarised
<1>2. \A c : In(c) = InConv(Listed(messageIDs[u]), c)
  BY DEF InConv
<1>3. \A id \in Listed(messageIDs[u]) : u \in {messageByID[id].sender, messageByID[id].recipient}
  BY DEF Sound, IndexGood
<1>4. \A c : Unseen(c) = UnreadOf(In(c), u)
  BY <1>3 DEF UnreadOf, Unread
<1>5. DOMAIN list = {content[id].conversation : id \in Listed(messageIDs[u])}
  BY <1>1 DEF Summarises
<1>6. ASSUME NEW c \in DOMAIN list
      PROVE  LET s == list[c]
                 m == messageByID[s.last]
             IN  /\ s.count = Cardinality(In(c))
                 /\ s.unread = Cardinality(Unseen(c))
                 /\ s.last \in In(c)
                 /\ \A id \in In(c) : content[id].sentAt <= content[s.last].sentAt
                 /\ s.status = m.status
                 /\ {u, s.peer} = {m.sender, m.recipient}
                 /\ s.preview = content[s.last].body
  <2> DEFINE s == list[c]
  <2>1. SumsUp(s, In(c), u)
    BY <1>1, <1>2, <1>6 DEF Summarises
  <2>2. In(c) \subseteq Listed(messageIDs[u])
    OBVIOUS
  <2>3. Unseen(c) = UnreadOf(In(c), u)
    BY <1>4
  <2> HIDE DEF s, In, Unseen
  <2>4. u \in {messageByID[s.last].sender, messageByID[s.last].recipient}
    BY <1>3, <2>1, <2>2 DEF SumsUp
  <2>5. {u, s.peer} = {messageByID[s.last].sender, messageByID[s.last].recipient}
    BY <2>1, <2>4 DEF SumsUp, Peer
  <2> QED
    BY <2>1, <2>3, <2>5 DEF SumsUp, s
<1> QED
  BY <1>5, <1>6

\* A user's summaries are what his messages amount to, in whatever order they were
\* listed.
THEOREM SummariesCorrect == Spec => []SummariesExact
<1>1. Sound => SummariesExact
  BY SummariesAreExact
<1> QED
  BY <1>1, SoundAlways, PTL

-----------------------------------------------------------------------------
(* How unread counts change. *)

\* What u has not read of a conversation.
UnreadSet(u, c) == UnreadOf(InConv(Listed(messageIDs[u]), c), u)

CountsRight ==
    \A u \in Users : \A c :
        /\ IsFiniteSet(UnreadSet(u, c))
        /\ UnreadIn(ListConversations(u), c) = Cardinality(UnreadSet(u, c))

\* An unread count, of a conversation listed or not, is the number of its messages
\* the user has not read.
LEMMA CountsAreRight ==
    ASSUME Sound
    PROVE  CountsRight
<1> SUFFICES ASSUME NEW u \in Users, NEW c
             PROVE  /\ IsFiniteSet(UnreadSet(u, c))
                    /\ UnreadIn(ListConversations(u), c) = Cardinality(UnreadSet(u, c))
  BY DEF CountsRight
<1> DEFINE list == ListConversations(u)
           A == Listed(messageIDs[u])
<1>1. IsFiniteSet(A) /\ Summarises(list, A, u)
  BY Summarised
<1>2. UnreadSet(u, c) = UnreadOf(InConv(A, c), u)
  BY DEF UnreadSet
<1> HIDE DEF list, A
<1>3. UnreadSet(u, c) \subseteq A
  BY <1>2 DEF UnreadOf, InConv
<1>4. IsFiniteSet(UnreadSet(u, c))
  BY <1>1, <1>3, FS_Subset
<1>5. CASE c \in DOMAIN list
  <2>1. list[c].unread = Cardinality(UnreadOf(InConv(A, c), u))
    BY <1>1, <1>5 DEF Summarises, SumsUp
  <2>2. UnreadIn(list, c) = list[c].unread
    BY <1>5 DEF UnreadIn
  <2> QED
    BY <1>2, <1>4, <2>1, <2>2 DEF list
<1>6. CASE c \notin DOMAIN list
  <2>1. InConv(A, c) = {}
    BY <1>1, <1>6 DEF Summarises, InConv
  <2>2. UnreadSet(u, c) = {}
    BY <1>2, <2>1 DEF UnreadOf
  <2>3. UnreadIn(list, c) = 0
    BY <1>6 DEF UnreadIn
  <2> QED
    BY <1>4, <2>2, <2>3, FS_EmptySet DEF list
<1> QED
  BY <1>5, <1>6

\* Every step keeps what is stored, whose it is and what it says, and lists no
\* message anew but one it stores.
LEMMA StoredKept ==
    ASSUME Sound, [Next]_vars
    PROVE  /\ Stored \subseteq Stored'
           /\ \A id \in Stored : /\ content'[id] = content[id]
                                 /\ messageByID'[id].sender = messageByID[id].sender
                                 /\ messageByID'[id].recipient = messageByID[id].recipient
           /\ \A u \in Users :
                 /\ Listed(messageIDs[u]) \subseteq Stored
                 /\ Listed(messageIDs[u]) \subseteq Listed(messageIDs'[u])
                 /\ Listed(messageIDs'[u]) \subseteq
                       Listed(messageIDs[u]) \cup (Stored' \ Stored)
<1> DEFINE Kept ==
        /\ Stored \subseteq Stored'
        /\ \A id \in Stored : /\ content'[id] = content[id]
                              /\ messageByID'[id].sender = messageByID[id].sender
                              /\ messageByID'[id].recipient = messageByID[id].recipient
        /\ \A u \in Users :
              /\ Listed(messageIDs[u]) \subseteq Listed(messageIDs'[u])
              /\ Listed(messageIDs'[u]) \subseteq Listed(messageIDs[u]) \cup (Stored' \ Stored)
<1>1. ServiceTypeOK /\ DraftsGood /\ Stored \subseteq DOMAIN content
      /\ \A u \in Users : Listed(messageIDs[u]) \subseteq Stored
  BY DEF Sound, ContentGood, IndexesAgree
<1>2. ASSUME NEW t \in Callers, StoreDraft(t)
      PROVE  Kept
  <2> DEFINE m == drafts[t].msg
  <2>1. /\ m \in Message /\ m.id \notin Stored /\ Store(t, m)
        /\ \A id \in DOMAIN content : id # m.id => content'[id] = content[id]
    BY <1>1, <1>2, StoreDraftEffect
  <2> HIDE DEF m
  <2>2. /\ Stored' = Stored \cup {m.id}
        /\ \A id \in Stored' : messageByID'[id] = IF id = m.id THEN m ELSE messageByID[id]
        /\ \A u \in Users : Listed(messageIDs'[u]) =
              Listed(messageIDs[u]) \cup IF u \in {m.sender, m.recipient} THEN {m.id} ELSE {}
    BY <1>1, <2>1, StoreEffect
  <2>3. ASSUME NEW id \in Stored
        PROVE  content'[id] = content[id] /\ messageByID'[id] = messageByID[id]
    BY <1>1, <2>1, <2>2
  <2>4. Stored' \ Stored = {m.id}
    BY <2>1, <2>2
  <2>5. \A u \in Users :
              /\ Listed(messageIDs[u]) \subseteq Listed(messageIDs'[u])
              /\ Listed(messageIDs'[u]) \subseteq Listed(messageIDs[u]) \cup (Stored' \ Stored)
    BY <2>2, <2>4
  <2> QED
    BY <2>2, <2>3, <2>5
<1>3. ASSUME NEW id \in MessageIDs, NEW u \in Users, NEW st \in AckStatuses, Report(id, u, st)
      PROVE  Kept
  <2>1. /\ Stored' = Stored /\ messageIDs' = messageIDs /\ content' = content
        /\ \A x \in Stored : /\ messageByID'[x].sender = messageByID[x].sender
                             /\ messageByID'[x].recipient = messageByID[x].recipient
    BY <1>1, <1>3, ReportEffect DEF contentVars
  <2> QED
    BY <2>1 DEF Listed
<1>4. ASSUME UNCHANGED storeVars, UNCHANGED content
      PROVE  Kept
  BY <1>4 DEF storeVars, Stored, Listed
<1> HIDE DEF Kept
<1>5. ASSUME NEW t \in Callers, Begin(t) \/ Finish(t)
      PROVE  Kept
  BY <1>4, <1>5 DEF Begin, Finish, Return, serviceVars, contentVars
<1>6. ASSUME UNCHANGED vars
      PROVE  Kept
  BY <1>4, <1>6 DEF vars, serviceVars, contentVars
<1>7. Kept
  BY <1>2, <1>3, <1>5, <1>6 DEF Next
<1> QED
  BY <1>1, <1>7 DEF Kept

\* A message that becomes unread for u was just stored for him, or he had read it and
\* reports another status; one that is no longer unread he reports as read.
LEMMA UnreadMoves ==
    ASSUME Sound, Sound', [Next]_vars, NEW u \in Users, NEW c
    PROVE  /\ \A id \in UnreadSet(u, c)' \ UnreadSet(u, c) :
                 /\ messageByID'[id].recipient = u
                 /\ \/ id \in Stored' \ Stored
                    \/ /\ id \in Stored /\ messageByID[id].recipient = u
                       /\ messageByID'[id].status # messageByID[id].status
                       /\ messageByID[id].readAt
           /\ \A id \in UnreadSet(u, c) \ UnreadSet(u, c)' :
                 /\ id \in Stored /\ messageByID[id].recipient = u
                 /\ messageByID'[id].status # messageByID[id].status
                 /\ messageByID'[id].status = "read"
<1>1. /\ Stored \subseteq Stored'
      /\ \A id \in Stored : /\ content'[id] = content[id]
                            /\ messageByID'[id].sender = messageByID[id].sender
                            /\ messageByID'[id].recipient = messageByID[id].recipient
      /\ Listed(messageIDs[u]) \subseteq Stored
      /\ Listed(messageIDs[u]) \subseteq Listed(messageIDs'[u])
      /\ Listed(messageIDs'[u]) \subseteq Listed(messageIDs[u]) \cup (Stored' \ Stored)
  BY StoredKept
<1>2. /\ \A id \in Listed(messageIDs[u]) : u \in {messageByID[id].sender, messageByID[id].recipient}
      /\ \A id \in Stored : messageByID[id].status = "read" => messageByID[id].readAt
  BY DEF Sound, IndexGood, ContentGood
<1>3. \A id \in Listed(messageIDs'[u]) :
         u \in {messageByID'[id].sender, messageByID'[id].recipient}
  BY DEF Sound, IndexGood, Listed
<1>4. \A id : id \in UnreadSet(u, c) <=>
         /\ id \in Listed(messageIDs[u]) /\ content[id].conversation = c
         /\ messageByID[id].sender # u /\ messageByID[id].status # "read"
  BY DEF UnreadSet, UnreadOf, InConv, Unread
<1>5. \A id : id \in UnreadSet(u, c)' <=>
         /\ id \in Listed(messageIDs'[u]) /\ content'[id].conversation = c
         /\ messageByID'[id].sender # u /\ messageByID'[id].status # "read"
  BY DEF UnreadSet, UnreadOf, InConv, Unread, Listed
<1>6. ASSUME NEW id \in UnreadSet(u, c)', id \notin UnreadSet(u, c)
      PROVE  /\ messageByID'[id].recipient = u
             /\ \/ id \in Stored' \ Stored
                \/ /\ id \in Stored /\ messageByID[id].recipient = u
                   /\ messageByID'[id].status # messageByID[id].status
                   /\ messageByID[id].readAt
  BY <1>1, <1>2, <1>3, <1>4, <1>5, <1>6
<1>7. ASSUME NEW id \in UnreadSet(u, c), id \notin UnreadSet(u, c)'
      PROVE  /\ id \in Stored /\ messageByID[id].recipient = u
             /\ messageByID'[id].status # messageByID[id].status
             /\ messageByID'[id].status = "read"
  BY <1>1, <1>2, <1>4, <1>5, <1>7
<1> QED
  BY <1>6, <1>7

\* An unread count goes up only with a message to its user, or with his report on one
\* he had read, and down only when he reads one.
THEOREM UnreadCounts == Spec => UnreadChanges
<1> DEFINE Turned(id, u) == /\ messageByID[id].recipient = u
                            /\ messageByID'[id].status # messageByID[id].status
           Moves(u, old, new) ==
              \A c \in DOMAIN new :
                 /\ UnreadIn(new, c) > UnreadIn(old, c) =>
                       \/ \E id \in Stored' \ Stored : messageByID'[id].recipient = u
                       \/ \E id \in Stored : Turned(id, u) /\ messageByID[id].readAt
                 /\ UnreadIn(new, c) < UnreadIn(old, c) =>
                       \E id \in Stored : Turned(id, u) /\ messageByID'[id].status = "read"
           Change == UNCHANGED storeVars \/ \A u \in Users :
              \A old \in {ListConversations(u)}, new \in {ListConversations(u)'} :
                 Moves(u, old, new)
<1>1. ASSUME Sound, Sound', CountsRight, CountsRight', [Next]_vars
      PROVE  Change
  <2> SUFFICES ASSUME NEW u \in Users, NEW c
               PROVE  LET old == ListConversations(u)
                          new == ListConversations(u)'
                      IN  /\ UnreadIn(new, c) > UnreadIn(old, c) =>
                                \/ \E id \in Stored' \ Stored : messageByID'[id].recipient = u
                                \/ \E id \in Stored : Turned(id, u) /\ messageByID[id].readAt
                          /\ UnreadIn(new, c) < UnreadIn(old, c) =>
                                \E id \in Stored : Turned(id, u) /\ messageByID'[id].status = "read"
    OBVIOUS
  <2> DEFINE before == UnreadSet(u, c)
             after == UnreadSet(u, c)'
             wasCount == UnreadIn(ListConversations(u), c)
             isCount == UnreadIn(ListConversations(u)', c)
  <2>1. IsFiniteSet(before) /\ wasCount = Cardinality(before)
    BY <1>1 DEF CountsRight
  <2>2. IsFiniteSet(after) /\ isCount = Cardinality(after)
    <3>1. (\A v \in Users : \A d : /\ IsFiniteSet(UnreadSet(v, d))
                                   /\ UnreadIn(ListConversations(v), d)
                                         = Cardinality(UnreadSet(v, d)))'
      BY <1>1 DEF CountsRight
    <3> QED
      BY <3>1 DEF UnreadIn
  <2>3. /\ \A id \in after \ before :
              /\ messageByID'[id].recipient = u
              /\ \/ id \in Stored' \ Stored
                 \/ id \in Stored /\ Turned(id, u) /\ messageByID[id].readAt
        /\ \A id \in before \ after :
              id \in Stored /\ Turned(id, u) /\ messageByID'[id].status = "read"
    BY <1>1, UnreadMoves
  <2> HIDE DEF before, after, wasCount, isCount, Turned
  <2>4. Cardinality(before) \in Nat /\ Cardinality(after) \in Nat
    BY <2>1, <2>2, FS_CardinalityType
  <2>5. ASSUME isCount > wasCount
        PROVE  \/ \E id \in Stored' \ Stored : messageByID'[id].recipient = u
               \/ \E id \in Stored : Turned(id, u) /\ messageByID[id].readAt
    <3>1. ~(after \subseteq before)
      BY <2>1, <2>2, <2>4, <2>5, FS_Subset
    <3> QED
      BY <2>3, <3>1
  <2>6. ASSUME isCount < wasCount
        PROVE  \E id \in Stored : Turned(id, u) /\ messageByID'[id].status = "read"
    <3>1. ~(before \subseteq after)
      BY <2>1, <2>2, <2>4, <2>6, FS_Subset
    <3> QED
      BY <2>3, <3>1
  <2> QED
    BY <2>5, <2>6 DEF wasCount, isCount
<1>2. Sound => CountsRight
  BY CountsAreRight
<1>3. Change => (UNCHANGED storeVars \/ \A u \in Users :
       \A old \in {ListConversations(u)}, new \in {ListConversations(u)'} :
          LET T(id) == /\ messageByID[id].recipient = u
                       /\ messageByID'[id].status # messageByID[id].status
          IN  \A c \in DOMAIN new :
              /\ UnreadIn(new, c) > UnreadIn(old, c) =>
                    \/ \E id \in Stored' \ Stored : messageByID'[id].recipient = u
                    \/ \E id \in Stored : T(id) /\ messageByID[id].readAt
              /\ UnreadIn(new, c) < UnreadIn(old, c) =>
                    \E id \in Stored : T(id) /\ messageByID'[id].status = "read")
  OBVIOUS
<1> HIDE DEF Change
<1> QED
  BY <1>1, <1>2, <1>3, SoundAlways, PTL DEF Spec, UnreadChanges

=============================================================================
