------------------------------- MODULE Client -------------------------------
(***************************************************************************)
(* The client: the app controller (app/app_controller.dart), its chat      *)
(* repository (chat_api_repository.dart) and its socket (ws_client.dart).  *)
(*                                                                         *)
(* Dart runs one callback at a time, so what a handler does between two    *)
(* waits for the network is one step.  A button starts a job; isBusy       *)
(* disables most buttons, but some can always be pressed, and every job    *)
(* that ends sets isBusy to FALSE, also while another one is under way.    *)
(*                                                                         *)
(* The server is an environment: one account whose messages and devices    *)
(* other clients change too, and that answers a request, or not, some time *)
(* after it was made.  A closed socket may still bring what was on its way.*)
(***************************************************************************)
EXTENDS Integers, FiniteSets

CONSTANTS Jobs,       \* bound: jobs under way at one time
          Devices,    \* device ids
          Incoming,   \* messages to the account
          Outgoing,   \* messages from the account
          MaxSockets, \* bound: connections the client opens
          MaxLogins,  \* bound: logins
          Limits,     \* bounds of which a behaviour has one, see Limit
          None,       \* no device
          Address,    \* the account's address, as the server has it
          Spellings,  \* what may be typed for it: its case is kept
          Peer,       \* the address of those the account talks to
          NoAddress   \* the empty string

Messages == Incoming \cup Outgoing
Sockets == 1..MaxSockets

\* How many jobs wait for the network, how many connections are opened, how many
\* devices there are, how many messages are sent, how many events about messages
\* there are, new messages for the account included, and what is typed at a login.
Limit == [jobs : Nat, sockets : Nat, devices : Nat, sends : Nat, news : Nat,
          typed : SUBSET Spellings]

ASSUME ClientAssumption ==
    /\ Incoming \cap Outgoing = {}
    /\ IsFiniteSet(Messages)
    /\ MaxSockets \in Nat
    /\ MaxLogins \in Nat
    /\ Limits \subseteq Limit
    /\ None \notin Devices
    /\ {Peer, NoAddress} \cap (Spellings \cup {Address}) = {}
    /\ Peer # NoAddress

VARIABLES
    stage,          \* "auth" or "home"
    session,        \* the login whose AuthSession the controller holds, or 0
    token,          \* the login whose tokens the token store holds, or 0
    ownEmail,       \* session?.user.email ?? ''
    isBusy,
    isRealtimeConnected,
    devices,        \* the device list as last fetched
    currentDevice,  \* currentDeviceId
    inbox,          \* inboxMessages: a MessageRecord for each
    sent,           \* sentMessages
    conversation,   \* the record of the conversation, see NoRecord
    job,            \* what each job waits for
    socket,         \* _socket, or 0
    link,           \* state of each connection
    bind,           \* the session.bind sent on it
    heard,          \* the connections on which session.bound was heard
    mail,           \* server: what it has of each message
    registered,     \* server: the devices of the account
    logins,         \* server: logins so far
    begun,          \* jobs so far
    news,           \* events about messages so far
    limit,          \* the bounds of this behaviour
    overlapped      \* history: two jobs were under way at one time

loginVars  == <<stage, session, token, ownEmail>>
flagVars   == <<isBusy, isRealtimeConnected>>
deviceVars == <<devices, currentDevice>>
listVars   == <<inbox, sent, conversation>>
socketVars == <<socket, link, bind, heard>>
serverVars == <<mail, registered, logins>>
boundVars  == <<begun, news, limit>>
vars == <<loginVars, flagVars, deviceVars, listVars, job, socketVars, serverVars,
          boundVars, overlapped>>

Idle == [at |-> "idle"]
NoMessages == [m \in {} |-> {}]
NoDevices == [d \in Devices |-> "none"]

\* A record has the number of messages and of unread ones; it has one message at
\* least, so that a record of none stands for no record.
NoRecord == [count |-> 0, unread |-> 0]

\* What the lists keep of a message.
MessageRecord(st, from) == [status |-> st, senderEmail |-> from]

Init ==
    /\ stage = "auth" /\ session = 0 /\ token = 0 /\ ownEmail = NoAddress
    /\ isBusy = FALSE /\ isRealtimeConnected = FALSE
    /\ devices = NoDevices /\ currentDevice = None
    /\ inbox = NoMessages /\ sent = NoMessages
    /\ conversation = NoRecord
    /\ job = [j \in Jobs |-> Idle]
    /\ socket = 0 /\ link = [s \in Sockets |-> "new"]
    /\ bind = [s \in {} |-> {}] /\ heard = {}
    /\ mail = [m \in Messages |-> "none"]
    /\ registered = NoDevices
    /\ logins = 0
    /\ begun = 0 /\ news = 0 /\ limit \in Limits
    /\ overlapped = FALSE

-----------------------------------------------------------------------------
(* The message lists and the conversation record. *)

\* _unreadFlagForMessage: a message is another's unless its sender's address is the
\* one typed at the login of the session, letter for letter; with no session all are.
Unread(r) == IF r.senderEmail # ownEmail /\ r.status # "read" THEN 1 ELSE 0

With(list, m, r) == [n \in DOMAIN list \cup {m} |-> IF n = m THEN r ELSE list[n]]

\* The unread flag of what the list has of m so far.
UnreadBefore(list, m) == IF m \in DOMAIN list THEN Unread(list[m]) ELSE 0

\* Mutant: an update counts as a message of its own.
Synced_CountsUpdates(list, m, r) ==
    LET now == conversation.unread + Unread(r) - UnreadBefore(list, m)
    IN  IF conversation = NoRecord
        THEN [count |-> 1, unread |-> Unread(r)]
        ELSE [count |-> conversation.count + 1, unread |-> IF now < 0 THEN 0 ELSE now]

\* Mutant: nothing keeps the counter above zero.
Synced_Unclamped(list, m, r) ==
    IF conversation = NoRecord
    THEN [count |-> 1, unread |-> Unread(r)]
    ELSE [count  |-> conversation.count + (IF m \in DOMAIN list THEN 0 ELSE 1),
          unread |-> conversation.unread + Unread(r) - UnreadBefore(list, m)]

\* _syncConversationFromMessage, for a record r of m that enters the list.  Without
\* a conversation record one is made for this message alone, be m in the list or not.
Synced(list, m, r) ==
    LET now == conversation.unread + Unread(r) - UnreadBefore(list, m)
    IN  IF conversation = NoRecord
        THEN [count |-> 1, unread |-> Unread(r)]
        ELSE [count  |-> conversation.count + (IF m \in DOMAIN list THEN 0 ELSE 1),
              unread |-> IF now < 0 THEN 0 ELSE now]

UpsertInbox(m, st) ==
    LET r == MessageRecord(st, Peer)
    IN  /\ inbox' = With(inbox, m, r)
        /\ conversation' = Synced(inbox, m, r)
        /\ UNCHANGED sent

UpsertSent(m, r) == /\ sent' = With(sent, m, r)
                    /\ conversation' = Synced(sent, m, r)
                    /\ UNCHANGED inbox

\* What the server answers to the two fetches of messages.
StoredIn(S) == {m \in S : mail[m] \notin {"none", "out"}}
InboxNow == [m \in StoredIn(Incoming) |-> MessageRecord(mail[m], Peer)]
ConversationNow ==
    [count  |-> Cardinality(StoredIn(Messages)),
     unread |-> Cardinality({m \in StoredIn(Incoming) : mail[m] # "read"})]

-----------------------------------------------------------------------------
(* Jobs: the actions that _run wraps. *)

\* The button of a job is pressed; it is disabled while isBusy.
Press(j) == /\ ~isBusy
            /\ job[j] = Idle

Begin(j, r) ==
    /\ begun < limit.jobs
    /\ begun' = begun + 1 /\ UNCHANGED <<news, limit>>
    /\ job' = [job EXCEPT ![j] = r]
    /\ isBusy' = TRUE
    /\ overlapped' = (overlapped \/ \E k \in Jobs \ {j} : job[k] # Idle)

End(j) ==
    /\ job' = [job EXCEPT ![j] = Idle]
    /\ isBusy' = FALSE
    /\ UNCHANGED <<boundVars, overlapped>>

\* A request under the token of the store.
Ask(at) == [at |-> at, login |-> token]

Await(j, r) ==
    /\ job' = [job EXCEPT ![j] = r]
    /\ UNCHANGED <<isBusy, boundVars, overlapped>>

\* A job starts with a wait, or goes on to the next one.
Proceed(j, r) == IF job[j] = Idle THEN Begin(j, r) ELSE Await(j, r)

At(j, at) == job[j].at = at
Asked(j, at) == At(j, at) /\ job[j].login # 0

\* Mutant: the socket that is replaced stays open.
AfterDisconnect_Kept == link

\* IoWsClient.disconnect: the links after it.
AfterDisconnect ==
    [s \in Sockets |-> IF s = socket /\ link[s] = "open" THEN "closing" ELSE link[s]]

Disconnect == /\ socket' = 0
              /\ link' = AfterDisconnect
              /\ UNCHANGED <<bind, heard>>

\* _connectRealtime for device d, and then the fetch of the inbox or the end of
\* the job.
Connect(j, d, fetch) ==
    /\ isRealtimeConnected' = FALSE
    /\ \/ /\ session = 0 \/ d = None
          /\ IF fetch THEN Proceed(j, Ask("inbox")) ELSE End(j)
          /\ UNCHANGED socketVars
       \/ /\ session # 0 /\ d # None /\ token = 0
          /\ End(j)
          /\ UNCHANGED socketVars
       \/ /\ session # 0 /\ d # None /\ token # 0
          /\ \E s \in Sockets :
               /\ s <= limit.sockets /\ link[s] = "new"
               /\ \A t \in 1..(s - 1) : link[t] # "new"
               /\ Proceed(j, [at |-> "connect", socket |-> s, device |-> d,
                               user |-> session, login |-> token, fetch |-> fetch])
               /\ socket' = 0
               /\ link' = [AfterDisconnect EXCEPT ![s] = "connecting"]
          /\ UNCHANGED <<bind, heard>>

\* Mutant: the token is read once the socket is open.
SocketOpens_TokenNow(j) ==
    /\ At(j, "connect")
    /\ LET r == job[j] IN
         /\ socket' = r.socket
         /\ link' = [link EXCEPT ![r.socket] = "open"]
         /\ bind' = With(bind, r.socket,
                         [user |-> r.user, login |-> token, device |-> r.device])
         /\ IF r.fetch THEN Await(j, Ask("inbox")) ELSE End(j)
    /\ UNCHANGED <<loginVars, isRealtimeConnected, deviceVars, listVars, heard, serverVars>>

\* The connection is there: it becomes the socket, and the bind is sent.
SocketOpens(j) ==
    /\ At(j, "connect")
    /\ LET r == job[j] IN
         /\ socket' = r.socket
         /\ link' = [link EXCEPT ![r.socket] = "open"]
         /\ bind' = With(bind, r.socket,
                         [user |-> r.user, login |-> r.login, device |-> r.device])
         /\ IF r.fetch THEN Await(j, Ask("inbox")) ELSE End(j)
    /\ UNCHANGED <<loginVars, isRealtimeConnected, deviceVars, listVars, heard, serverVars>>

\* A request or a connection fails: the job ends where it is.
Fails(j) ==
    /\ job[j] # Idle
    /\ End(j)
    /\ link' = IF At(j, "connect") THEN [link EXCEPT ![job[j].socket] = "done"] ELSE link
    /\ UNCHANGED <<loginVars, isRealtimeConnected, deviceVars, listVars, socket, bind,
                   heard, serverVars>>

-----------------------------------------------------------------------------
(* Logging in and out. *)

PressLogin(j) ==
    /\ Press(j) /\ stage = "auth" /\ logins < MaxLogins
    /\ Begin(j, [at |-> "login"])
    /\ UNCHANGED <<loginVars, isRealtimeConnected, deviceVars, listVars, socketVars,
                   serverVars>>

\* login: the tokens are saved, the session kept, with the address as typed, and
\* the devices asked for.
LoginAnswered(j) ==
    /\ At(j, "login") /\ logins < MaxLogins
    /\ logins' = logins + 1
    /\ session' = logins' /\ token' = logins' /\ stage' = "home"
    /\ ownEmail' \in limit.typed
    /\ Await(j, [at |-> "devices", login |-> token'])
    /\ UNCHANGED <<isRealtimeConnected, deviceVars, listVars, socketVars, mail,
                   registered>>

PressLogout(j) ==
    /\ Press(j) /\ stage = "home" /\ session # 0
    /\ Begin(j, [at |-> "logout"])
    /\ Disconnect
    /\ UNCHANGED <<loginVars, isRealtimeConnected, deviceVars, listVars, serverVars>>

Forget ==
    /\ session' = 0 /\ token' = 0 /\ ownEmail' = NoAddress /\ stage' = "auth"
    /\ isRealtimeConnected' = FALSE
    /\ devices' = NoDevices /\ currentDevice' = None
    /\ inbox' = NoMessages /\ sent' = NoMessages
    /\ conversation' = NoRecord

LogoutAnswered(j) ==
    /\ At(j, "logout")
    /\ Forget
    /\ End(j)
    /\ UNCHANGED <<socketVars, serverVars>>

-----------------------------------------------------------------------------
(* Devices and the realtime connection. *)

PressRefresh(j) ==
    /\ Press(j) /\ stage = "home"
    /\ Begin(j, Ask("devices"))
    /\ UNCHANGED <<loginVars, isRealtimeConnected, deviceVars, listVars, socketVars,
                   serverVars>>

\* The server works out the answer to a fetch, which arrives later.
Fetches == {"devices", "conversations", "inbox"}

ServerAnswers(j) ==
    /\ \E at \in Fetches : Asked(j, at)
    /\ "answer" \notin DOMAIN job[j]
    /\ Await(j, [at |-> job[j].at, login |-> job[j].login,
                 answer |-> CASE At(j, "devices")       -> registered
                              [] At(j, "conversations") -> ConversationNow
                              [] At(j, "inbox")         -> InboxNow])
    /\ UNCHANGED <<loginVars, isRealtimeConnected, deviceVars, listVars, socketVars,
                   serverVars>>

Answered(j, at) == At(j, at) /\ "answer" \in DOMAIN job[j]

DevicesAnswered(j) ==
    /\ Answered(j, "devices")
    /\ devices' = job[j].answer
    /\ Await(j, Ask("conversations"))
    /\ UNCHANGED <<loginVars, isRealtimeConnected, currentDevice, listVars, socketVars,
                   serverVars>>

\* Mutant: a device in use that is listed as revoked is kept.
Reconciled_Revoked ==
    LET active == {d \in Devices : devices[d] = "active"}
    IN  IF currentDevice # None /\ devices[currentDevice] # "none" THEN {currentDevice}
        ELSE IF active = {} THEN {None} ELSE active

\* _reconcileCurrentDeviceId: the device in use, or the first active one.
Reconciled ==
    LET active == {d \in Devices : devices[d] = "active"}
    IN  IF currentDevice \in active THEN {currentDevice}
        ELSE IF active = {} THEN {None} ELSE active

\* The rest of _refreshDevicesAndMaybeConnect: with no device the socket is closed.
ConversationsAnswered(j) ==
    /\ Answered(j, "conversations")
    /\ conversation' = job[j].answer
    /\ \E d \in Reconciled :
         /\ currentDevice' = d
         /\ \/ /\ d # None
               /\ Connect(j, d, TRUE)
            \/ /\ d = None
               /\ Disconnect
               /\ Await(j, [at |-> "leave"])
               /\ UNCHANGED isRealtimeConnected
    /\ UNCHANGED <<loginVars, devices, inbox, sent, serverVars>>

\* What follows once it is closed, whatever happened meanwhile.
LeaveClosed(j) ==
    /\ At(j, "leave")
    /\ isRealtimeConnected' = FALSE
    /\ inbox' = NoMessages
    /\ End(j)
    /\ UNCHANGED <<loginVars, deviceVars, sent, conversation, socketVars, serverVars>>

InboxAnswered(j) ==
    /\ Answered(j, "inbox")
    /\ inbox' = job[j].answer
    /\ End(j)
    /\ UNCHANGED <<loginVars, isRealtimeConnected, deviceVars, sent, conversation,
                   socketVars, serverVars>>

PressConnect(j) ==
    /\ Press(j) /\ stage = "home"
    /\ Connect(j, currentDevice, FALSE)
    /\ UNCHANGED <<loginVars, deviceVars, listVars, serverVars>>

SelectDevice(j, d) ==
    /\ Press(j) /\ stage = "home"
    /\ devices[d] = "active" /\ d # currentDevice
    /\ currentDevice' = d
    /\ Connect(j, d, TRUE)
    /\ UNCHANGED <<loginVars, devices, listVars, serverVars>>

PressRegister(j) ==
    /\ Press(j) /\ stage = "home"
    /\ Begin(j, Ask("register"))
    /\ UNCHANGED <<loginVars, isRealtimeConnected, deviceVars, listVars, socketVars,
                   serverVars>>

RoomForDevice ==
    Cardinality({d \in Devices : registered[d] # "none"}) < limit.devices

RegisterAnswered(j, d) ==
    /\ Asked(j, "register") /\ registered[d] = "none" /\ RoomForDevice
    /\ registered' = [registered EXCEPT ![d] = "active"]
    /\ devices' = [devices EXCEPT ![d] = "active"]
    /\ currentDevice' = d
    /\ Connect(j, d, TRUE)
    /\ UNCHANGED <<loginVars, listVars, mail, logins>>

PressRevoke(j, d) ==
    /\ Press(j) /\ stage = "home" /\ devices[d] # "none"
    /\ Begin(j, [at |-> "revoke", login |-> token, device |-> d])
    /\ UNCHANGED <<loginVars, isRealtimeConnected, deviceVars, listVars, socketVars,
                   serverVars>>

RevokeAnswered(j) ==
    /\ Asked(j, "revoke")
    /\ LET d == job[j].device IN
         /\ registered[d] = "active"
         /\ registered' = [registered EXCEPT ![d] = "revoked"]
         /\ \/ /\ d = currentDevice
               /\ currentDevice' = None
               /\ isRealtimeConnected' = FALSE
               /\ Disconnect
               /\ Await(j, [at |-> "revoked"])
            \/ /\ d # currentDevice
               /\ Await(j, Ask("devices"))
               /\ UNCHANGED <<currentDevice, isRealtimeConnected, socketVars>>
    /\ UNCHANGED <<loginVars, devices, listVars, mail, logins>>

\* The socket of the device that was in use is closed, and the refresh begins.
RevokeClosed(j) ==
    /\ At(j, "revoked")
    /\ Await(j, Ask("devices"))
    /\ UNCHANGED <<loginVars, isRealtimeConnected, deviceVars, listVars, socketVars,
                   serverVars>>

-----------------------------------------------------------------------------
(* Messages. *)

\* sendMessage: the optimistic record, then the socket, or else HTTP.
PressSend(j, m) ==
    /\ Press(j) /\ stage = "home" /\ session # 0 /\ currentDevice # None
    /\ m \in Outgoing /\ mail[m] = "none"
    /\ Cardinality({n \in Outgoing : mail[n] # "none"}) < limit.sends
    /\ mail' = [mail EXCEPT ![m] = "out"]
    /\ UpsertSent(m, MessageRecord("pending", ownEmail))
    /\ IF socket # 0 /\ link[socket] = "open"
       THEN End(j)
       ELSE Begin(j, [at |-> "post", login |-> token, message |-> m])
    /\ UNCHANGED <<loginVars, isRealtimeConnected, deviceVars, socketVars, registered,
                   logins>>

\* The server's record has the account's own address.
PostAnswered(j) ==
    /\ Asked(j, "post")
    /\ LET m == job[j].message IN
         /\ mail' = [mail EXCEPT ![m] = "stored"]
         /\ UpsertSent(m, MessageRecord("stored", Address))
    /\ End(j)
    /\ UNCHANGED <<loginVars, isRealtimeConnected, deviceVars, socketVars, registered,
                   logins>>

\* markMessageRead: a tap on a message, also while isBusy; without a socket it
\* fails.  The server may refuse the receipt or lose it.
MarkMessageRead(m) ==
    /\ stage = "home" /\ m \in DOMAIN inbox /\ inbox[m].status # "read"
    /\ IF socket # 0 /\ link[socket] = "open"
       THEN /\ UpsertInbox(m, "read")
            /\ mail' \in {mail, [mail EXCEPT ![m] = "read"]}
       ELSE UNCHANGED <<listVars, mail>>
    /\ isBusy' = FALSE
    /\ UNCHANGED <<loginVars, isRealtimeConnected, deviceVars, job, socketVars,
                   registered, logins, boundVars, overlapped>>

\* acceptContact and rejectContact: their buttons can be pressed while isBusy.
PressContact(j) ==
    /\ job[j] = Idle /\ stage = "home"
    /\ Begin(j, [at |-> "contact"])
    /\ UNCHANGED <<loginVars, isRealtimeConnected, deviceVars, listVars, socketVars,
                   serverVars>>

ContactAnswered(j) ==
    /\ At(j, "contact")
    /\ End(j)
    /\ UNCHANGED <<loginVars, isRealtimeConnected, deviceVars, listVars, socketVars,
                   serverVars>>

-----------------------------------------------------------------------------
(* Events of the relay, _handleChatEvent. *)

Told == news < limit.news /\ news' = news + 1

\* A connection that may still bring events, bound or not.
Speaks(s) == link[s] \in {"open", "closing"}

\* A connection on which the server has something to say about messages.
Brings(s) == /\ Speaks(s) /\ s \in DOMAIN bind
             /\ Told

HearBound(s) ==
    /\ Speaks(s) /\ s \in DOMAIN bind /\ s \notin heard
    /\ heard' = heard \cup {s}
    /\ isRealtimeConnected' = TRUE
    /\ UNCHANGED <<loginVars, isBusy, deviceVars, listVars, job, socket, link, bind,
                   serverVars, boundVars, overlapped>>

\* A mailbox item, with the status the server had when it was written.
HearMailbox(s, m) ==
    /\ Brings(s) /\ m \in StoredIn(Incoming)
    /\ \E st \in {"stored", mail[m]} : UpsertInbox(m, st)
    /\ UNCHANGED <<loginVars, flagVars, deviceVars, job, socketVars, serverVars,
                   begun, limit, overlapped>>

\* A live message is shown as delivered, and that is acknowledged.
HearDelivered(s, m) ==
    /\ Brings(s) /\ m \in StoredIn(Incoming)
    /\ UpsertInbox(m, "delivered")
    /\ mail' \in {mail} \cup
          (IF socket # 0 /\ link[socket] = "open" /\ mail[m] = "stored"
           THEN {[mail EXCEPT ![m] = "delivered"]} ELSE {})
    /\ UNCHANGED <<loginVars, flagVars, deviceVars, job, socketVars, registered,
                   logins, begun, limit, overlapped>>

\* News of a message this client sent, in whatever order the relay sends them.
HearAck(s, m, st) ==
    /\ Brings(s)
    /\ m \in StoredIn(Outgoing) /\ m \in DOMAIN sent
    /\ UpsertSent(m, [sent[m] EXCEPT !.status = st])
    /\ UNCHANGED <<loginVars, flagVars, deviceVars, job, socketVars, serverVars,
                   begun, limit, overlapped>>

\* Mutant: the end of a connection that was replaced is not passed on.
HearDone_CurrentOnly(s) ==
    /\ Speaks(s)
    /\ link' = [link EXCEPT ![s] = "done"]
    /\ isRealtimeConnected' = (isRealtimeConnected /\ s # socket)
    /\ UNCHANGED <<loginVars, isBusy, deviceVars, listVars, job, socket, bind, heard,
                   serverVars, boundVars, overlapped>>

\* __disconnected__, of whichever connection.
HearDone(s) ==
    /\ Speaks(s)
    /\ link' = [link EXCEPT ![s] = "done"]
    /\ isRealtimeConnected' = FALSE
    /\ UNCHANGED <<loginVars, isBusy, deviceVars, listVars, job, socket, bind, heard,
                   serverVars, boundVars, overlapped>>

-----------------------------------------------------------------------------
(* What others do at the server. *)

\* A message for the account is stored.
MailComes(m) ==
    /\ m \in Incoming /\ mail[m] = "none"
    /\ mail' = [mail EXCEPT ![m] = "stored"]
    /\ Told
    /\ UNCHANGED <<loginVars, flagVars, deviceVars, listVars, job, socketVars,
                   registered, logins, begun, limit, overlapped>>

\* A message that went out on a socket, or in a request whose answer is not here
\* yet, is stored.
MailTaken(m) ==
    /\ m \in Outgoing /\ mail[m] = "out"
    /\ mail' = [mail EXCEPT ![m] = "stored"]
    /\ UNCHANGED <<loginVars, flagVars, deviceVars, listVars, job, socketVars,
                   registered, logins, boundVars, overlapped>>

\* Another client of the account registers a device or revokes one.
DeviceChanges(d) ==
    /\ registered' \in {[registered EXCEPT ![d] = "active"],
                        [registered EXCEPT ![d] = "revoked"]}
    /\ registered[d] # "revoked" /\ registered' # registered
    /\ registered[d] = "none" => RoomForDevice
    /\ UNCHANGED <<loginVars, flagVars, deviceVars, listVars, job, socketVars, mail,
                   logins, boundVars, overlapped>>

-----------------------------------------------------------------------------

JobStep(j) ==
    \/ Fails(j) \/ ServerAnswers(j) \/ LoginAnswered(j) \/ LogoutAnswered(j)
    \/ DevicesAnswered(j) \/ ConversationsAnswered(j) \/ InboxAnswered(j)
    \/ LeaveClosed(j) \/ SocketOpens(j) \/ RevokeAnswered(j) \/ RevokeClosed(j)
    \/ PostAnswered(j) \/ ContactAnswered(j)
    \/ \E d \in Devices : RegisterAnswered(j, d)

Pressed(j) ==
    \/ PressLogin(j) \/ PressLogout(j) \/ PressRefresh(j) \/ PressConnect(j)
    \/ PressRegister(j) \/ PressContact(j)
    \/ \E d \in Devices : SelectDevice(j, d) \/ PressRevoke(j, d)
    \/ \E m \in Outgoing : PressSend(j, m)

EventHeard(s) ==
    \/ HearBound(s) \/ HearDone(s)
    \/ \E m \in Incoming : HearMailbox(s, m) \/ HearDelivered(s, m)
    \/ \E m \in Outgoing, st \in {"stored", "delivered", "read"} : HearAck(s, m, st)

Next ==
    \/ \E j \in Jobs : JobStep(j) \/ Pressed(j)
    \/ \E m \in Incoming : MarkMessageRead(m)
    \/ \E s \in Sockets : EventHeard(s)
    \/ \E m \in Messages : MailComes(m) \/ MailTaken(m)
    \/ \E d \in Devices : DeviceChanges(d)

Spec == Init /\ [][Next]_vars

-----------------------------------------------------------------------------
(* Properties. *)

Shown == {"pending", "stored", "delivered", "read"}
DeviceStates == {"none", "active", "revoked"}
Emails == Spellings \cup {Address, NoAddress}

\* Types; the unread counter never goes below zero whatever a fetch or an event
\* did to the lists before.
ClientTypeOK ==
    /\ stage \in {"auth", "home"}
    /\ session \in 0..MaxLogins /\ token \in 0..MaxLogins
    /\ isBusy \in BOOLEAN /\ isRealtimeConnected \in BOOLEAN
    /\ devices \in [Devices -> DeviceStates]
    /\ currentDevice \in Devices \cup {None}
    /\ DOMAIN inbox \subseteq Incoming /\ DOMAIN sent \subseteq Outgoing
    /\ ownEmail \in Emails
    /\ \A m \in DOMAIN inbox : inbox[m] \in [status : Shown, senderEmail : {Peer}]
    /\ \A m \in DOMAIN sent : sent[m] \in [status : Shown, senderEmail : Emails]
    /\ conversation \in [count : Nat, unread : Nat]
    /\ socket \in 0..MaxSockets
    /\ link \in [Sockets -> {"new", "connecting", "open", "closing", "done"}]
    /\ DOMAIN bind \subseteq Sockets /\ heard \subseteq DOMAIN bind

\* The session the controller shows and the tokens its requests carry are of one
\* login, and so are the user and the token of every session.bind, also when the
\* user logs out, and in again, while a connection is being opened.
LoginsNotMixed ==
    /\ session = token
    /\ \A s \in DOMAIN bind : bind[s].user = bind[s].login

\* "Realtime connected" is shown only while a connection on which session.bound
\* was heard has not ended, in whatever order the events of a connection that is
\* closed and of the one that replaces it come.
ConnectedMeansBound ==
    isRealtimeConnected => \E s \in heard : Speaks(s)

\* While no two jobs overlapped, at most one connection is open or being opened,
\* it is the one the controller can close, and none is after a logout.
OneConnection ==
    ~overlapped =>
        \A s \in Sockets :
            link[s] \in {"connecting", "open"} =>
                /\ stage = "home"
                /\ \/ s = socket
                   \/ link[s] = "connecting" /\ socket = 0
                /\ \A t \in Sockets \ {s} : link[t] \notin {"connecting", "open"}

\* The device in use is one the selector offers (circle_link_app.dart:409-412).
InSelector == currentDevice # None => devices[currentDevice] = "active"

\* A step on the answer to a fetch, other than its failure.
Takes(j, at) == Answered(j, at) /\ job'[j] # job[j] /\ job'[j] # Idle

\* The selector never loses the device in use, but when a refresh lists it as
\* revoked by another client (or when two jobs overlapped); and as soon as that
\* refresh has the conversations too, the device in use is one that can be selected
\* again, whatever events and failed refreshes came before.
SelectorFollows ==
    [][/\ InSelector => \/ InSelector'
                        \/ \E j \in Jobs : /\ Takes(j, "devices")
                                           /\ overlapped \/ devices'[currentDevice] = "revoked"
       /\ (\E j \in Jobs : Takes(j, "conversations")) => InSelector']_vars

\* The conversation record says what the lists hold.
Counted ==
    LET unread == {m \in DOMAIN inbox : inbox[m].status # "read"}
    IN  conversation = [count  |-> Cardinality(DOMAIN inbox) + Cardinality(DOMAIN sent),
                        unread |-> Cardinality(unread)]

\* A refresh replaces the record alone, or the inbox alone.
Replaces(j) == /\ \/ At(j, "leave")
                  \/ \E at \in {"conversations", "inbox"} : Answered(j, at)
               /\ job'[j] # job[j]

\* The client takes what it sent for its own: not so after a logout, nor once the
\* server has answered a user who typed the address with another case.
KnowsOwn == \A m \in DOMAIN sent : sent[m].senderEmail = ownEmail

\* If the record agrees with the lists, then every event, send, answer and receipt
\* keeps it so, and every login and logout, as long as the client knows its own
\* messages; only a refresh, which replaces one without the other, does not.
CountKept ==
    [][Counted /\ KnowsOwn /\ KnowsOwn' => Counted' \/ \E j \in Jobs : Replaces(j)]_vars
=============================================================================
