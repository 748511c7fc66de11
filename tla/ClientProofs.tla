------------------------------ MODULE ClientProofs ------------------------------
(***************************************************************************)
(* The client's controller, for every set of jobs, devices and messages,   *)
(* any number of connections and logins and every bound: its variables     *)
(* have their types, the session and the tokens are of one login, what is  *)
(* shown as connected is, while no two jobs overlapped there is one        *)
(* connection, the selector keeps showing the device in use, and the       *)
(* record of the conversation goes on counting what the lists hold.        *)
(***************************************************************************)
EXTENDS Client, FiniteSetTheorems, TLAPS

-----------------------------------------------------------------------------
(* What a job waits for. *)

Logins == 0..MaxLogins
InRecord == [status : Shown, senderEmail : {Peer}]
OutRecord == [status : Shown, senderEmail : Emails]
Lists(S) == UNION {[T -> InRecord] : T \in SUBSET S}
Record == [count : Nat, unread : Nat]

Plain == [at : {"idle", "login", "logout", "contact", "leave", "revoked"}]
Asking == [at : Fetches \cup {"register"}, login : Logins]
Fetched == [at : {"devices"}, login : Logins, answer : [Devices -> DeviceStates]]
              \cup [at : {"conversations"}, login : Logins, answer : Record]
              \cup [at : {"inbox"}, login : Logins, answer : Lists(Incoming)]
Changing == [at : {"revoke"}, login : Logins, device : Devices]
              \cup [at : {"post"}, login : Logins, message : Outgoing]
Connecting == [at : {"connect"}, socket : Sockets, device : Devices, user : Logins,
               login : Logins, fetch : BOOLEAN]
JobType == Plain \cup Asking \cup Fetched \cup Changing \cup Connecting

\* The parts of the state by what they are about.
LoginsTyped ==
    /\ stage \in {"auth", "home"}
    /\ session \in Logins /\ token = session /\ logins \in Logins
    /\ stage = "home" <=> session # 0
    /\ ownEmail \in Emails

FlagsTyped == /\ isBusy \in BOOLEAN /\ isRealtimeConnected \in BOOLEAN /\ overlapped \in BOOLEAN
              /\ limit \in Limit

DevicesTyped ==
    /\ devices \in [Devices -> DeviceStates] /\ registered \in [Devices -> DeviceStates]
    /\ currentDevice \in Devices \cup {None}

ListsTyped ==
    /\ DOMAIN inbox \subseteq Incoming /\ DOMAIN sent \subseteq Outgoing
    /\ \A m \in DOMAIN inbox : inbox[m] \in InRecord
    /\ \A m \in DOMAIN sent : sent[m] \in OutRecord
    /\ conversation \in Record
    /\ mail \in [Messages -> Shown \cup {"none", "out"}]
    /\ \A m \in Incoming : mail[m] # "out"

SocketsTyped ==
    /\ socket \in 0..MaxSockets
    /\ link \in [Sockets -> {"new", "connecting", "open", "closing", "done"}]
    /\ DOMAIN bind \subseteq Sockets /\ heard \subseteq DOMAIN bind
    /\ \A s \in DOMAIN bind : bind[s].user = bind[s].login

JobsTyped ==
    /\ job \in [Jobs -> JobType]
    /\ \A j \in Jobs : At(j, "connect") => job[j].user = job[j].login

Typed == LoginsTyped /\ FlagsTyped /\ DevicesTyped /\ ListsTyped /\ SocketsTyped /\ JobsTyped

\* A job's record tells its kind.
LEMMA JobKinds ==
    ASSUME JobsTyped, NEW j \in Jobs
    PROVE  /\ At(j, "idle") <=> job[j] = Idle
           /\ At(j, "connect") <=> job[j] \in Connecting
           /\ job[j].at \in Fetches /\ "answer" \in DOMAIN job[j] => job[j] \in Fetched
           /\ job[j].at \in Fetches /\ "answer" \notin DOMAIN job[j] => job[j] \in Asking
           /\ At(j, "revoke") => job[j].device \in Devices
           /\ At(j, "post") => job[j].message \in Outgoing
<1>1. job[j] \in JobType
  BY DEF JobsTyped
<1>2. CASE job[j] \in Plain
  BY <1>2 DEF Plain, At, Idle, Connecting, Fetches
<1>3. CASE job[j] \in Asking
  BY <1>3 DEF Asking, At, Idle, Connecting, Fetches
<1>4. CASE job[j] \in Fetched
  BY <1>4 DEF Fetched, At, Idle, Connecting, Fetches
<1>5. CASE job[j] \in Changing
  BY <1>5 DEF Changing, At, Idle, Connecting, Fetches
<1>6. CASE job[j] \in Connecting
  BY <1>6 DEF At, Idle, Connecting, Fetches
<1> QED
  BY <1>1, <1>2, <1>3, <1>4, <1>5, <1>6 DEF JobType

\* One job moves on; a job that starts while another is under way overlaps it.
Moves(j, r) ==
    /\ job' = [job EXCEPT ![j] = r]
    /\ isBusy' \in BOOLEAN
    /\ limit' = limit
    /\ \/ overlapped' = overlapped /\ (job[j] # Idle \/ r = Idle)
       \/ overlapped' = (overlapped \/ \E k \in Jobs \ {j} : job[k] # Idle)

\* Every way in which a job changes its state is such a move.
LEMMA Moving ==
    ASSUME FlagsTyped, NEW j \in Jobs, NEW r
    PROVE  /\ Begin(j, r) => Moves(j, r)
           /\ End(j) => Moves(j, Idle)
           /\ Await(j, r) /\ job[j] # Idle => Moves(j, r)
           /\ Proceed(j, r) => Moves(j, r)
BY DEF FlagsTyped, Begin, End, Await, Proceed, Moves, boundVars

\* What asks is a job that asks.
LEMMA AskType ==
    ASSUME LoginsTyped
    PROVE  \A at \in Fetches \cup {"register"} : Ask(at) \in Asking /\ Ask(at).at = at
BY DEF LoginsTyped, Ask, Asking

\* Job j opens a connection for the login and the device of now.
Opening(j) ==
    /\ stage = "home"
    /\ \E r \in Connecting :
          /\ r.user = session /\ r.login = token
          /\ link[r.socket] = "new"
          /\ Moves(j, r)
          /\ link' = [AfterDisconnect EXCEPT ![r.socket] = "connecting"]
    /\ job[j].at # "connect"
    /\ socket' = 0
    /\ UNCHANGED <<bind, heard>>

\* What _connectRealtime does: nothing, or open a connection.
LEMMA ConnectEffect ==
    ASSUME Typed, NEW j \in Jobs, job[j].at # "connect",
           NEW d \in Devices \cup {None}, NEW fetch \in BOOLEAN, Connect(j, d, fetch)
    PROVE  /\ isRealtimeConnected' = FALSE
           /\ \/ /\ \E r \in Plain \cup Asking : Moves(j, r) /\ (fetch => r = Idle \/ r = Ask("inbox"))
                                                 /\ (~fetch => r = Idle)
                 /\ UNCHANGED socketVars
                 /\ stage = "auth" \/ d = None
              \/ Opening(j)
<1> USE DEF Typed, LoginsTyped
<1>1. Idle \in Plain /\ Ask("inbox") \in Asking
  BY AskType DEF Idle, Plain, Fetches
<1>2. CASE session = 0 \/ d = None
  <2>1. /\ IF fetch THEN Proceed(j, Ask("inbox")) ELSE End(j)
        /\ UNCHANGED socketVars /\ isRealtimeConnected' = FALSE
    BY <1>2 DEF Connect
  <2> QED
    BY <1>1, <1>2, <2>1, Moving
<1>3. CASE session # 0 /\ d # None
  <2>1. PICK s \in Sockets :
           /\ link[s] = "new"
           /\ Proceed(j, [at |-> "connect", socket |-> s, device |-> d, user |-> session,
                          login |-> token, fetch |-> fetch])
           /\ socket' = 0
           /\ link' = [AfterDisconnect EXCEPT ![s] = "connecting"]
           /\ UNCHANGED <<bind, heard>> /\ isRealtimeConnected' = FALSE
    BY <1>3 DEF Connect
  <2> DEFINE r == [at |-> "connect", socket |-> s, device |-> d, user |-> session,
                   login |-> token, fetch |-> fetch]
  <2>2. r \in Connecting /\ r.socket = s /\ r.user = session /\ r.login = token
    BY <1>3 DEF Connecting
  <2>3. Moves(j, r)
    BY <2>1, Moving
  <2>4. stage = "home"
    BY <1>3
  <2> HIDE DEF r
  <2> QED
    BY <2>1, <2>2, <2>3, <2>4 DEF Opening
<1> QED
  BY <1>2, <1>3

-----------------------------------------------------------------------------
(* Types. *)

\* What a step does to the jobs.
Still == job' = job /\ isBusy' \in BOOLEAN /\ overlapped' = overlapped /\ limit' = limit
Other(j) == \E r \in JobType \ Connecting : Moves(j, r)
Quiet(j) == \E r \in (Plain \ {[at |-> "logout"]}) \cup Asking \cup Changing : Moves(j, r)
Settles(j) == Other(j) /\ (Quiet(j) \/ ServerAnswers(j) \/ PressLogout(j))

\* The answers of the server.
LEMMA AnswerTypes ==
    ASSUME Typed
    PROVE  InboxNow \in Lists(Incoming) /\ ConversationNow \in Record
<1>1. InboxNow \in Lists(Incoming)
  <2>1. StoredIn(Incoming) \subseteq Incoming /\ StoredIn(Incoming) \subseteq Messages
    BY DEF StoredIn, Messages
  <2>2. \A m \in StoredIn(Incoming) : mail[m] \in Shown
    BY <2>1 DEF StoredIn, Typed, ListsTyped
  <2>3. InboxNow \in [StoredIn(Incoming) -> InRecord]
    BY <2>2 DEF InboxNow, MessageRecord, InRecord
  <2> QED
    BY <2>1, <2>3 DEF Lists
<1>2. ConversationNow \in Record
  <2>1. IsFiniteSet(StoredIn(Messages))
    BY ClientAssumption, FS_Subset DEF StoredIn
  <2>2. IsFiniteSet({m \in StoredIn(Incoming) : mail[m] # "read"})
    BY ClientAssumption, FS_Subset DEF StoredIn, Messages
  <2> QED
    BY <2>1, <2>2, FS_CardinalityType DEF ConversationNow, Record
<1> QED
  BY <1>1, <1>2

\* No two records of jobs of different kinds are equal, and those that start none
\* of the connections are these.
LEMMA Unconnected ==
    ASSUME Typed
    PROVE  /\ Plain \cup Asking \cup Fetched \cup Changing \subseteq JobType \ Connecting
           /\ Idle \in Plain \ {[at |-> "logout"]}
BY DEF JobType, Plain, Asking, Fetched, Changing, Connecting, Idle, Fetches

\* The steps of jobs.
LEMMA JobMoves ==
    ASSUME Typed, NEW j \in Jobs, JobStep(j) \/ Pressed(j)
    PROVE  Settles(j) \/ Opening(j)
<1> USE DEF Other, Quiet, Settles
<1>1. /\ Plain \cup Asking \cup Fetched \cup Changing \subseteq JobType \ Connecting
      /\ Idle \in Plain \ {[at |-> "logout"]}
      /\ \A at \in Fetches \cup {"register"} : Ask(at) \in Asking
      /\ FlagsTyped /\ LoginsTyped /\ JobsTyped
  BY Unconnected, AskType DEF Typed
<1>2. CASE End(j)
  BY <1>1, <1>2, Moving
<1>3. ASSUME NEW r \in (Plain \ {[at |-> "logout"]}) \cup Asking \cup Changing, Begin(j, r)
      PROVE  Settles(j)
  BY <1>1, <1>3, Moving
<1>4. ASSUME NEW r \in (Plain \ {[at |-> "logout"]}) \cup Asking \cup Changing, Await(j, r), job[j] # Idle
      PROVE  Settles(j)
  BY <1>1, <1>4, Moving
<1>5. ASSUME NEW d \in Devices \cup {None}, NEW fetch \in BOOLEAN, Connect(j, d, fetch),
             job[j].at # "connect"
      PROVE  Settles(j) \/ Opening(j)
  <2>1. (\E r \in {Idle} \cup Asking : Moves(j, r)) \/ Opening(j)
    BY <1>1, <1>5, ConnectEffect DEF Fetches
  <2> QED
    BY <1>1, <2>1
<1>6. CASE JobStep(j)
  <2>1. CASE \/ Fails(j) \/ LogoutAnswered(j) \/ InboxAnswered(j) \/ LeaveClosed(j)
             \/ PostAnswered(j) \/ ContactAnswered(j)
    BY <1>2, <2>1 DEF Fails, LogoutAnswered, InboxAnswered, LeaveClosed, PostAnswered, ContactAnswered
  <2>2. CASE ServerAnswers(j)
    <3>1. job[j] \in Asking /\ job[j] # Idle /\ job[j].at \in Fetches /\ job[j].login \in Logins
      BY <1>1, <2>2, JobKinds DEF ServerAnswers, Asked, At, Asking, Idle, Fetches
    <3>2. DevicesTyped /\ InboxNow \in Lists(Incoming) /\ ConversationNow \in Record
      BY AnswerTypes DEF Typed
    <3> DEFINE r == [at |-> job[j].at, login |-> job[j].login,
                     answer |-> CASE At(j, "devices")       -> registered
                                  [] At(j, "conversations") -> ConversationNow
                                  [] At(j, "inbox")         -> InboxNow]
    <3>3. r \in Fetched
      BY <3>1, <3>2 DEF At, Fetches, Fetched, DevicesTyped
    <3>4. Await(j, r)
      BY <2>2 DEF ServerAnswers
    <3> HIDE DEF r
    <3> QED
      BY <1>1, <2>2, <3>1, <3>3, <3>4, Moving
  <2>3. CASE LoginAnswered(j)
    <3>1. Await(j, [at |-> "devices", login |-> logins + 1]) /\ At(j, "login") /\ logins < MaxLogins
      BY <2>3 DEF LoginAnswered
    <3>2. [at |-> "devices", login |-> logins + 1] \in Asking /\ job[j] # Idle
      BY <1>1, <3>1, ClientAssumption DEF Asking, Fetches, LoginsTyped, Logins, At, Idle
    <3> QED
      BY <1>4, <3>1, <3>2
  <2>4. CASE DevicesAnswered(j) \/ RevokeAnswered(j) \/ RevokeClosed(j)
    <3>1. \/ Await(j, Ask("conversations")) \/ Await(j, Ask("devices"))
          \/ Await(j, [at |-> "revoked"])
      BY <2>4 DEF DevicesAnswered, RevokeAnswered, RevokeClosed
    <3>2. job[j] # Idle
      BY <2>4 DEF DevicesAnswered, RevokeAnswered, RevokeClosed, Answered, Asked, At, Idle
    <3>3. [at |-> "revoked"] \in Plain \ {[at |-> "logout"]}
      BY DEF Plain
    <3> QED
      BY <1>1, <1>4, <3>1, <3>2, <3>3 DEF Fetches
  <2>5. CASE SocketOpens(j)
    <3>1. (Await(j, Ask("inbox")) \/ End(j)) /\ job[j] # Idle
      BY <2>5 DEF SocketOpens, At, Idle
    <3> QED
      BY <1>1, <1>2, <1>4, <3>1 DEF Fetches
  <2>6. CASE ConversationsAnswered(j)
    <3>1. PICK d \in Reconciled :
             \/ d # None /\ Connect(j, d, TRUE)
             \/ Await(j, [at |-> "leave"])
      BY <2>6 DEF ConversationsAnswered
    <3>2. d \in Devices \cup {None}
      BY DEF Reconciled, Typed, DevicesTyped
    <3>3. job[j].at # "connect" /\ job[j] # Idle
      BY <2>6 DEF ConversationsAnswered, Answered, At, Idle
    <3>4. [at |-> "leave"] \in Plain \ {[at |-> "logout"]}
      BY DEF Plain
    <3> QED
      BY <1>4, <1>5, <3>1, <3>2, <3>3, <3>4
  <2>7. ASSUME NEW d \in Devices, RegisterAnswered(j, d)
        PROVE  Settles(j) \/ Opening(j)
    <3>1. Connect(j, d, TRUE) /\ job[j].at # "connect"
      BY <2>7 DEF RegisterAnswered, Asked, At
    <3> QED
      BY <1>5, <3>1
  <2> QED
    BY <1>6, <2>1, <2>2, <2>3, <2>4, <2>5, <2>6, <2>7 DEF JobStep
<1>7. CASE Pressed(j)
  <2>1. CASE PressLogin(j) \/ PressContact(j)
    <3>1. Begin(j, [at |-> "login"]) \/ Begin(j, [at |-> "contact"])
      BY <2>1 DEF PressLogin, PressContact
    <3>2. {[at |-> "login"], [at |-> "contact"]} \subseteq Plain \ {[at |-> "logout"]}
      BY DEF Plain
    <3> QED
      BY <1>3, <3>1, <3>2
  <2>7. CASE PressLogout(j)
    <3>1. Begin(j, [at |-> "logout"])
      BY <2>7 DEF PressLogout
    <3>2. [at |-> "logout"] \in Plain
      BY DEF Plain
    <3> QED
      BY <1>1, <2>7, <3>1, <3>2, Moving
  <2>2. CASE PressRefresh(j) \/ PressRegister(j)
    <3>1. Begin(j, Ask("devices")) \/ Begin(j, Ask("register"))
      BY <2>2 DEF PressRefresh, PressRegister
    <3> QED
      BY <1>1, <1>3, <3>1 DEF Fetches
  <2>3. CASE PressConnect(j)
    <3>1. Connect(j, currentDevice, FALSE) /\ job[j] = Idle
      BY <2>3 DEF PressConnect, Press
    <3>2. job[j].at # "connect"
      BY <3>1 DEF Idle
    <3>3. currentDevice \in Devices \cup {None}
      BY DEF Typed, DevicesTyped
    <3> QED
      BY <1>5, <3>1, <3>2, <3>3
  <2>4. ASSUME NEW d \in Devices, SelectDevice(j, d)
        PROVE  Settles(j) \/ Opening(j)
    <3>1. Connect(j, d, TRUE) /\ job[j] = Idle
      BY <2>4 DEF SelectDevice, Press
    <3>2. job[j].at # "connect"
      BY <3>1 DEF Idle
    <3> QED
      BY <1>5, <3>1, <3>2
  <2>5. ASSUME NEW d \in Devices, PressRevoke(j, d)
        PROVE  Settles(j)
    <3>1. Begin(j, [at |-> "revoke", login |-> token, device |-> d])
      BY <2>5 DEF PressRevoke
    <3>2. [at |-> "revoke", login |-> token, device |-> d] \in Changing
      BY <1>1 DEF LoginsTyped, Changing
    <3> QED
      BY <1>3, <3>1, <3>2
  <2>6. ASSUME NEW m \in Outgoing, PressSend(j, m)
        PROVE  Settles(j) \/ Opening(j)
    <3>1. End(j) \/ Begin(j, [at |-> "post", login |-> token, message |-> m])
      BY <2>6 DEF PressSend
    <3>2. [at |-> "post", login |-> token, message |-> m] \in Changing
      BY <1>1 DEF LoginsTyped, Changing
    <3> QED
      BY <1>2, <1>3, <3>1, <3>2
  <2> QED
    BY <1>7, <2>1, <2>2, <2>3, <2>4, <2>5, <2>6, <2>7 DEF Pressed
<1> QED
  BY <1>6, <1>7

\* Every step moves one job or leaves them all.
LEMMA JobSteps ==
    ASSUME Typed, [Next]_vars
    PROVE  Still \/ \E j \in Jobs : Settles(j) \/ Opening(j)
<1> USE DEF flagVars, boundVars
<1>1. ASSUME NEW m \in Incoming, MarkMessageRead(m)
      PROVE  Still
  BY <1>1 DEF MarkMessageRead, Still
<1>2. ASSUME NEW s \in Sockets, EventHeard(s)
      PROVE  Still
  BY <1>2 DEF EventHeard, HearBound, HearDone, HearMailbox, HearDelivered, HearAck, Still,
              Brings, Told, Typed, FlagsTyped
<1>3. ASSUME NEW m \in Messages, MailComes(m) \/ MailTaken(m)
      PROVE  Still
  BY <1>3 DEF MailComes, MailTaken, Told, Still, Typed, FlagsTyped
<1>4. ASSUME NEW d \in Devices, DeviceChanges(d)
      PROVE  Still
  BY <1>4 DEF DeviceChanges, Still, Typed, FlagsTyped
<1>5. CASE UNCHANGED vars
  BY <1>5 DEF vars, Still, Typed, FlagsTyped
<1> QED
  BY <1>1, <1>2, <1>3, <1>4, <1>5, JobMoves DEF Next

\* The login changes by logging in and out.
LEMMA LoginSteps ==
    ASSUME [Next]_vars
    PROVE  \/ UNCHANGED <<loginVars, logins>>
           \/ \E j \in Jobs : LoginAnswered(j) \/ LogoutAnswered(j)
<1> USE DEF serverVars
<1>1. ASSUME NEW j \in Jobs, JobStep(j), ~LoginAnswered(j), ~LogoutAnswered(j)
      PROVE  UNCHANGED <<loginVars, logins>>
  BY <1>1 DEF JobStep, Fails, ServerAnswers, DevicesAnswered, ConversationsAnswered, InboxAnswered,
              LeaveClosed, SocketOpens, RevokeAnswered, RevokeClosed, PostAnswered, ContactAnswered,
              RegisterAnswered
<1>2. ASSUME NEW j \in Jobs, Pressed(j)
      PROVE  UNCHANGED <<loginVars, logins>>
  BY <1>2 DEF Pressed, PressLogin, PressLogout, PressRefresh, PressConnect, PressRegister,
              PressContact, SelectDevice, PressRevoke, PressSend
<1>3. ASSUME NEW m \in Incoming, MarkMessageRead(m)
      PROVE  UNCHANGED <<loginVars, logins>>
  BY <1>3 DEF MarkMessageRead
<1>4. ASSUME NEW s \in Sockets, EventHeard(s)
      PROVE  UNCHANGED <<loginVars, logins>>
  BY <1>4 DEF EventHeard, HearBound, HearDone, HearMailbox, HearDelivered, HearAck
<1>5. ASSUME NEW m \in Messages, MailComes(m) \/ MailTaken(m)
      PROVE  UNCHANGED <<loginVars, logins>>
  BY <1>5 DEF MailComes, MailTaken
<1>6. ASSUME NEW d \in Devices, DeviceChanges(d)
      PROVE  UNCHANGED <<loginVars, logins>>
  BY <1>6 DEF DeviceChanges
<1>7. CASE UNCHANGED vars
  BY <1>7 DEF vars
<1> QED
  BY <1>1, <1>2, <1>3, <1>4, <1>5, <1>6, <1>7 DEF Next

\* The logins keep their types: a token and a session are set and cleared together.
LEMMA LoginsTypedStep ==
    ASSUME Typed, [Next]_vars
    PROVE  LoginsTyped'
<1> USE DEF Typed, LoginsTyped
<1>1. CASE UNCHANGED <<loginVars, logins>>
  BY <1>1 DEF loginVars
<1>2. ASSUME NEW j \in Jobs, LoginAnswered(j)
      PROVE  LoginsTyped'
  <2>1. ownEmail' \in Emails
    BY <1>2 DEF LoginAnswered, FlagsTyped, Limit, Emails
  <2> QED
    BY <1>2, <2>1, ClientAssumption DEF LoginAnswered, Logins
<1>3. ASSUME NEW j \in Jobs, LogoutAnswered(j)
      PROVE  LoginsTyped'
  BY <1>3, ClientAssumption DEF LogoutAnswered, Forget, Logins, Emails, serverVars
<1> QED
  BY <1>1, <1>2, <1>3, LoginSteps

\* No job starts or ends to wait for a connection.
SameConnects ==
    \A j \in Jobs : job[j].at = "connect" \/ job'[j].at = "connect" => job'[j] = job[j]

\* What a step does to the connections: nothing, or close the socket, open a
\* connection, or hear from one.  The flag goes up when session.bound is heard.
LEMMA LinkSteps ==
    ASSUME Typed, [Next]_vars
    PROVE  \/ /\ SameConnects /\ isRealtimeConnected' \in {isRealtimeConnected, FALSE}
              /\ UNCHANGED socketVars \/ Disconnect
           \/ \E j \in Jobs : /\ isRealtimeConnected' = FALSE
                              /\ Opening(j)
           \/ \E j \in Jobs : SocketOpens(j) \/ (Fails(j) /\ At(j, "connect"))
           \/ \E s \in Sockets : SameConnects /\ (HearBound(s) \/ HearDone(s))
<1> DEFINE Goal ==
       \/ /\ SameConnects /\ isRealtimeConnected' \in {isRealtimeConnected, FALSE}
          /\ UNCHANGED socketVars \/ Disconnect
       \/ \E j \in Jobs : isRealtimeConnected' = FALSE /\ Opening(j)
       \/ \E j \in Jobs : SocketOpens(j) \/ (Fails(j) /\ At(j, "connect"))
       \/ \E s \in Sockets : SameConnects /\ (HearBound(s) \/ HearDone(s))
<1>2. ASSUME NEW j \in Jobs, Other(j), job[j].at # "connect"
      PROVE  SameConnects
  <2>1. PICK r \in JobType \ Connecting : Moves(j, r)
    BY <1>2 DEF Other
  <2>2. r.at # "connect"
    BY DEF JobType, Plain, Asking, Fetched, Changing, Fetches
  <2>3. job' = [job EXCEPT ![j] = r] /\ job = [k \in Jobs |-> job[k]]
    BY <2>1 DEF Moves, Typed, JobsTyped
  <2> QED
    BY <1>2, <2>2, <2>3 DEF SameConnects
<1>3. ASSUME NEW j \in Jobs, NEW d \in Devices \cup {None}, NEW fetch \in BOOLEAN,
             Connect(j, d, fetch), job[j].at # "connect"
      PROVE  Goal
  <2>1. /\ isRealtimeConnected' = FALSE
        /\ \/ Opening(j)
           \/ UNCHANGED socketVars /\ \E r \in Plain \cup Asking : Moves(j, r)
    BY <1>3, ConnectEffect
  <2>2. Plain \cup Asking \subseteq JobType \ Connecting
    BY Unconnected
  <2>3. Opening(j) \/ (UNCHANGED socketVars /\ Other(j))
    BY <2>1, <2>2 DEF Other
  <2> QED
    BY <1>2, <1>3, <2>1, <2>3
<1> HIDE DEF Goal
<1>4. ASSUME NEW j \in Jobs, Other(j), job[j].at # "connect",
             isRealtimeConnected' \in {isRealtimeConnected, FALSE}, UNCHANGED socketVars \/ Disconnect
      PROVE  Goal
  BY <1>2, <1>4 DEF Goal
<1>5. ASSUME NEW j \in Jobs, JobStep(j)
      PROVE  Goal
  <2>1. CASE SocketOpens(j)
    BY <2>1 DEF Goal
  <2>2. CASE Fails(j)
    <3>1. CASE At(j, "connect")
      BY <2>2, <3>1 DEF Goal
    <3>2. CASE ~At(j, "connect")
      <4>1. UNCHANGED socketVars /\ isRealtimeConnected' = isRealtimeConnected
        BY <2>2, <3>2 DEF Fails, socketVars
      <4>2. Other(j)
        <5>1. End(j) /\ FlagsTyped
          BY <2>2 DEF Fails, Typed
        <5> QED
          BY <5>1, Moving, Unconnected DEF Other
      <4> QED
        BY <1>4, <3>2, <4>1, <4>2 DEF At
    <3> QED
      BY <3>1, <3>2
  <2>3. CASE ConversationsAnswered(j)
    <3>1. PICK d \in Reconciled :
             \/ d # None /\ Connect(j, d, TRUE)
             \/ /\ Disconnect /\ isRealtimeConnected' = isRealtimeConnected
                /\ Await(j, [at |-> "leave"])
      BY <2>3 DEF ConversationsAnswered
    <3>2. d \in Devices \cup {None}
      BY DEF Reconciled, Typed, DevicesTyped
    <3>3. job[j].at # "connect" /\ job[j] # Idle
      BY <2>3 DEF ConversationsAnswered, Answered, At, Idle
    <3>4. Await(j, [at |-> "leave"]) => Other(j)
      <4>1. [at |-> "leave"] \in Plain
        BY DEF Plain
      <4> QED
        BY <3>3, <4>1, Moving, Unconnected DEF Other, Typed
    <3> QED
      BY <1>3, <1>4, <3>1, <3>2, <3>3, <3>4
  <2>4. ASSUME NEW d \in Devices, RegisterAnswered(j, d)
        PROVE  Goal
    BY <1>3, <2>4 DEF RegisterAnswered, Asked, At
  <2>5. ASSUME \/ ServerAnswers(j) \/ LoginAnswered(j) \/ LogoutAnswered(j) \/ DevicesAnswered(j)
               \/ InboxAnswered(j) \/ LeaveClosed(j) \/ RevokeAnswered(j) \/ RevokeClosed(j)
               \/ PostAnswered(j) \/ ContactAnswered(j)
        PROVE  Goal
    <3>1. job[j].at # "connect"
      BY <2>5 DEF ServerAnswers, LoginAnswered, LogoutAnswered, DevicesAnswered, InboxAnswered,
                  LeaveClosed, RevokeAnswered, RevokeClosed, PostAnswered, ContactAnswered,
                  Answered, Asked, At, Fetches
    <3>2. ~Opening(j) => Other(j)
      BY <1>5, JobMoves DEF Settles
    <3>3. isRealtimeConnected' \in {isRealtimeConnected, FALSE}
          /\ (UNCHANGED socketVars \/ Disconnect)
      BY <2>5 DEF ServerAnswers, LoginAnswered, LogoutAnswered, Forget, DevicesAnswered,
                  InboxAnswered, LeaveClosed, RevokeAnswered, RevokeClosed, PostAnswered,
                  ContactAnswered, socketVars
    <3>4. CASE Opening(j)
      <4>1. job'[j].at = "connect" /\ link' # link
        <5>1. PICK r \in Connecting : link[r.socket] = "new" /\ Moves(j, r)
                                      /\ link' = [AfterDisconnect EXCEPT ![r.socket] = "connecting"]
          BY <3>4 DEF Opening
        <5>2. r.socket \in Sockets /\ r.at = "connect"
          BY DEF Connecting
        <5>3. link'[r.socket] = "connecting"
          BY <5>1, <5>2 DEF AfterDisconnect
        <5>4. job'[j] = r
          BY <5>1 DEF Moves, Typed, JobsTyped
        <5> QED
          BY <5>1, <5>2, <5>3, <5>4
      <4>2. job'[j].at # "connect"
        <5>1. End(j) \/ \E r : Await(j, r) /\ r.at # "connect"
          BY <2>5 DEF ServerAnswers, LoginAnswered, LogoutAnswered, DevicesAnswered, InboxAnswered,
                      LeaveClosed, RevokeAnswered, RevokeClosed, PostAnswered, ContactAnswered,
                      Ask, Asked, At, Fetches
        <5> QED
          BY <5>1 DEF End, Await, Idle, Typed, JobsTyped
      <4> QED
        BY <4>1, <4>2
    <3> QED
      BY <1>4, <3>1, <3>2, <3>3, <3>4
  <2> QED
    BY <1>5, <2>1, <2>2, <2>3, <2>4, <2>5 DEF JobStep
<1>6. ASSUME NEW j \in Jobs, Pressed(j)
      PROVE  Goal
  <2>1. ASSUME NEW d \in Devices, SelectDevice(j, d)
        PROVE  Goal
    <3>1. Connect(j, d, TRUE) /\ job[j] = Idle
      BY <2>1 DEF SelectDevice, Press
    <3>2. job[j].at # "connect"
      BY <3>1 DEF Idle
    <3> QED
      BY <1>3, <3>1, <3>2
  <2>2. CASE PressConnect(j)
    <3>1. Connect(j, currentDevice, FALSE) /\ job[j] = Idle
      BY <2>2 DEF PressConnect, Press
    <3>2. job[j].at # "connect"
      BY <3>1 DEF Idle
    <3>3. currentDevice \in Devices \cup {None}
      BY DEF Typed, DevicesTyped
    <3> QED
      BY <1>3, <3>1, <3>2, <3>3
  <2>3. ASSUME \/ PressLogin(j) \/ PressLogout(j) \/ PressRefresh(j) \/ PressRegister(j)
               \/ PressContact(j)
               \/ \E d \in Devices : PressRevoke(j, d)
               \/ \E m \in Outgoing : PressSend(j, m)
        PROVE  Goal
    <3>1. job[j].at # "connect"
      <4>1. job[j] = Idle
        BY <2>3 DEF PressLogin, PressLogout, PressRefresh, PressRegister, PressContact, PressRevoke,
                    PressSend, Press
      <4> QED
        BY <4>1 DEF Idle
    <3>2. isRealtimeConnected' = isRealtimeConnected /\ (UNCHANGED socketVars \/ Disconnect)
      BY <2>3 DEF PressLogin, PressLogout, PressRefresh, PressRegister, PressContact, PressRevoke,
                  PressSend
    <3>3. \A r : Begin(j, r) => job'[j] = r
      BY DEF Begin, Typed, JobsTyped
    <3>4. job'[j].at # "connect"
      <4>1. CASE PressLogin(j) \/ PressLogout(j) \/ PressContact(j)
        BY <3>3, <4>1 DEF PressLogin, PressLogout, PressContact
      <4>2. CASE PressRefresh(j) \/ PressRegister(j)
        BY <3>3, <4>2 DEF PressRefresh, PressRegister, Ask
      <4>3. CASE \E d \in Devices : PressRevoke(j, d)
        BY <3>3, <4>3 DEF PressRevoke
      <4>4. CASE \E m \in Outgoing : PressSend(j, m)
        BY <3>3, <4>4 DEF PressSend, End, Idle, Typed, JobsTyped
      <4> QED
        BY <2>3, <4>1, <4>2, <4>3, <4>4
    <3>5. ~Opening(j)
      <4> SUFFICES ASSUME Opening(j) PROVE FALSE
        OBVIOUS
      <4>1. PICK r \in Connecting : Moves(j, r)
        BY DEF Opening
      <4> QED
        BY <3>4, <4>1 DEF Moves, Connecting, Typed, JobsTyped
    <3> QED
      BY <1>4, <1>6, <3>1, <3>2, <3>5, JobMoves DEF Settles
  <2> QED
    BY <1>6, <2>1, <2>2, <2>3 DEF Pressed
<1>7. ASSUME NEW m \in Incoming, MarkMessageRead(m)
      PROVE  Goal
  BY <1>7 DEF MarkMessageRead, SameConnects, Goal
<1>8. ASSUME NEW s \in Sockets, EventHeard(s)
      PROVE  Goal
  <2>1. job' = job
    BY <1>8 DEF EventHeard, HearBound, HearDone, HearMailbox, HearDelivered, HearAck
  <2>2. SameConnects
    BY <2>1 DEF SameConnects
  <2>3. CASE HearBound(s) \/ HearDone(s)
    BY <2>2, <2>3 DEF Goal
  <2>4. CASE ~HearBound(s) /\ ~HearDone(s)
    <3>1. UNCHANGED <<flagVars, socketVars>>
      BY <1>8, <2>4 DEF EventHeard, HearMailbox, HearDelivered, HearAck
    <3> QED
      BY <2>2, <3>1 DEF Goal, flagVars
  <2> QED
    BY <2>3, <2>4
<1>9. ASSUME NEW m \in Messages, MailComes(m) \/ MailTaken(m)
      PROVE  Goal
  BY <1>9 DEF MailComes, MailTaken, SameConnects, Goal, flagVars
<1>10. ASSUME NEW d \in Devices, DeviceChanges(d)
      PROVE  Goal
  BY <1>10 DEF DeviceChanges, SameConnects, Goal, flagVars
<1>11. ASSUME UNCHANGED vars
       PROVE  Goal
  BY <1>11 DEF vars, flagVars, SameConnects, Goal
<1>12. Goal
  BY <1>5, <1>6, <1>7, <1>8, <1>9, <1>10, <1>11 DEF Next
<1> QED
  BY <1>12 DEF Goal

\* So do the jobs, and a connection is opened for the login that asked for it.
LEMMA JobsTypedStep ==
    ASSUME Typed, [Next]_vars
    PROVE  JobsTyped'
<1> USE DEF Typed
<1>1. CASE Still
  BY <1>1 DEF Still, JobsTyped, At
<1>2. ASSUME NEW j \in Jobs, NEW r \in JobType, Moves(j, r), r.at = "connect" => r.user = r.login
      PROVE  JobsTyped'
  <2>1. job' = [job EXCEPT ![j] = r] /\ job \in [Jobs -> JobType]
    BY <1>2 DEF Moves, JobsTyped
  <2>2. job' \in [Jobs -> JobType]
    BY <2>1
  <2>3. \A k \in Jobs : job'[k] = IF k = j THEN r ELSE job[k]
    BY <2>1
  <2> QED
    BY <1>2, <2>2, <2>3 DEF JobsTyped, At
<1>3. ASSUME NEW j \in Jobs, Opening(j)
      PROVE  JobsTyped'
  <2>1. PICK r \in Connecting : r.user = session /\ r.login = token /\ Moves(j, r)
    BY <1>3 DEF Opening
  <2>2. r \in JobType /\ r.user = r.login
    BY <2>1 DEF JobType, LoginsTyped
  <2> QED
    BY <1>2, <2>1, <2>2
<1>4. ASSUME NEW j \in Jobs, Other(j)
      PROVE  JobsTyped'
  <2>1. PICK r \in JobType \ Connecting : Moves(j, r)
    BY <1>4 DEF Other
  <2>2. r.at # "connect"
    BY DEF JobType, Plain, Asking, Fetched, Changing, Fetches
  <2> QED
    BY <1>2, <2>1, <2>2
<1> QED
  BY <1>1, <1>3, <1>4, JobSteps DEF Settles

\* So do the flags.
LEMMA FlagsTypedStep ==
    ASSUME Typed, [Next]_vars
    PROVE  FlagsTyped'
<1> USE DEF Typed
<1>1. isBusy' \in BOOLEAN /\ overlapped' \in BOOLEAN /\ limit' \in Limit
  <2>1. ASSUME NEW j \in Jobs, NEW r, Moves(j, r)
        PROVE  isBusy' \in BOOLEAN /\ overlapped' \in BOOLEAN /\ limit' \in Limit
    BY <2>1 DEF Moves, FlagsTyped
  <2>2. CASE Still
    BY <2>2 DEF Still, FlagsTyped
  <2> QED
    BY <2>1, <2>2, JobSteps DEF Settles, Other, Opening
<1>2. isRealtimeConnected' \in BOOLEAN
  <2>1. ASSUME NEW j \in Jobs, SocketOpens(j) \/ Fails(j)
        PROVE  isRealtimeConnected' = isRealtimeConnected
    BY <2>1 DEF SocketOpens, Fails
  <2>2. ASSUME NEW s \in Sockets, HearBound(s) \/ HearDone(s)
        PROVE  isRealtimeConnected' \in BOOLEAN
    BY <2>2 DEF HearBound, HearDone
  <2> QED
    BY <2>1, <2>2, LinkSteps DEF FlagsTyped
<1> QED
  BY <1>1, <1>2 DEF FlagsTyped

\* What closing the socket does to the connections.
LEMMA Closing ==
    ASSUME SocketsTyped
    PROVE  /\ AfterDisconnect \in [Sockets -> {"new", "connecting", "open", "closing", "done"}]
           /\ \A s \in Sockets : AfterDisconnect[s] =
                 IF s = socket /\ link[s] = "open" THEN "closing" ELSE link[s]
BY DEF AfterDisconnect, SocketsTyped

\* What opening one does.
LEMMA OpenEffect ==
    ASSUME Typed, NEW j \in Jobs, Opening(j)
    PROVE  \E r \in Connecting :
              /\ link[r.socket] = "new" /\ r.socket \in Sockets /\ r.at = "connect"
              /\ \A k \in Jobs : job'[k] = IF k = j THEN r ELSE job[k]
              /\ link' \in [Sockets -> {"new", "connecting", "open", "closing", "done"}]
              /\ \A s \in Sockets : link'[s] = IF s = r.socket THEN "connecting"
                                               ELSE AfterDisconnect[s]
<1>1. PICK r \in Connecting : /\ link[r.socket] = "new" /\ Moves(j, r)
                              /\ link' = [AfterDisconnect EXCEPT ![r.socket] = "connecting"]
  BY DEF Opening
<1>2. r.socket \in Sockets /\ r.at = "connect"
  BY DEF Connecting
<1>3. \A k \in Jobs : job'[k] = IF k = j THEN r ELSE job[k]
  BY <1>1 DEF Moves, Typed, JobsTyped
<1>4. AfterDisconnect \in [Sockets -> {"new", "connecting", "open", "closing", "done"}]
  BY Closing DEF Typed
<1>5. /\ link' \in [Sockets -> {"new", "connecting", "open", "closing", "done"}]
      /\ \A s \in Sockets : link'[s] = IF s = r.socket THEN "connecting" ELSE AfterDisconnect[s]
  BY <1>1, <1>2, <1>4
<1> QED
  BY <1>1, <1>2, <1>3, <1>5

\* What a connection does when it is there.
LEMMA OpenedEffect ==
    ASSUME Typed, NEW j \in Jobs, SocketOpens(j)
    PROVE  LET s == job[j].socket
           IN  /\ s \in Sockets /\ At(j, "connect") /\ socket' = s /\ heard' = heard
               /\ link' = [link EXCEPT ![s] = "open"]
               /\ DOMAIN bind' = DOMAIN bind \cup {s}
               /\ bind'[s].user = job[j].user /\ bind'[s].login = job[j].login
               /\ \A x \in DOMAIN bind \ {s} : bind'[x] = bind[x]
               /\ isRealtimeConnected' = isRealtimeConnected
               /\ \A k \in Jobs \ {j} : job'[k] = job[k]
               /\ job'[j].at # "connect"
<1> DEFINE s == job[j].socket
           b == [user |-> job[j].user, login |-> job[j].login, device |-> job[j].device]
<1>1. At(j, "connect") /\ job[j] \in Connecting
  BY JobKinds DEF SocketOpens, Typed
<1>2. s \in Sockets
  BY <1>1 DEF Connecting
<1>3. /\ socket' = s /\ link' = [link EXCEPT ![s] = "open"] /\ heard' = heard
      /\ bind' = With(bind, s, b)
      /\ isRealtimeConnected' = isRealtimeConnected
      /\ Await(j, Ask("inbox")) \/ End(j)
  BY DEF SocketOpens
<1>7. b.user = job[j].user /\ b.login = job[j].login
  OBVIOUS
<1> HIDE DEF s, b
<1>4. /\ DOMAIN bind' = DOMAIN bind \cup {s}
      /\ bind'[s] = b
      /\ \A x \in DOMAIN bind \ {s} : bind'[x] = bind[x]
  BY <1>3 DEF With
<1>5. /\ \A k \in Jobs \ {j} : job'[k] = job[k]
      /\ job'[j].at # "connect"
  BY <1>3 DEF Await, End, Ask, Idle, Typed, JobsTyped
<1>6. bind'[s].user = job[j].user /\ bind'[s].login = job[j].login
  BY <1>4, <1>7
<1> QED
  BY <1>1, <1>2, <1>3, <1>4, <1>5, <1>6 DEF s

\* And what a failed one does.
LEMMA FailedEffect ==
    ASSUME Typed, NEW j \in Jobs, Fails(j), At(j, "connect")
    PROVE  LET s == job[j].socket
           IN  /\ s \in Sockets /\ link' = [link EXCEPT ![s] = "done"]
               /\ UNCHANGED <<socket, bind, heard, isRealtimeConnected>>
               /\ \A k \in Jobs \ {j} : job'[k] = job[k]
               /\ job'[j] = Idle
<1>1. job[j].socket \in Sockets
  BY JobKinds DEF Typed, Connecting
<1> QED
  BY <1>1 DEF Fails, End, Typed, JobsTyped

\* So do the sockets, and what is bound on one is its own login.
LEMMA SocketsTypedStep ==
    ASSUME Typed, [Next]_vars
    PROVE  SocketsTyped'
<1> DEFINE States == {"new", "connecting", "open", "closing", "done"}
<1>1. SocketsTyped /\ MaxSockets \in Nat /\ AfterDisconnect \in [Sockets -> States]
  BY Closing, ClientAssumption DEF Typed
<1>2. CASE UNCHANGED socketVars
  BY <1>1, <1>2 DEF socketVars, SocketsTyped
<1>3. CASE Disconnect
  BY <1>1, <1>3 DEF Disconnect, SocketsTyped
<1>4. ASSUME NEW j \in Jobs, Opening(j)
      PROVE  SocketsTyped'
  <2>1. link' \in [Sockets -> States]
    BY <1>4, OpenEffect
  <2>2. socket' = 0 /\ UNCHANGED <<bind, heard>>
    BY <1>4 DEF Opening
  <2> QED
    BY <1>1, <2>1, <2>2 DEF SocketsTyped
<1>5. ASSUME NEW j \in Jobs, SocketOpens(j)
      PROVE  SocketsTyped'
  <2> DEFINE s == job[j].socket
  <2>1. /\ s \in Sockets /\ socket' = s /\ link' = [link EXCEPT ![s] = "open"] /\ heard' = heard
        /\ DOMAIN bind' = DOMAIN bind \cup {s}
        /\ bind'[s].user = job[j].user /\ bind'[s].login = job[j].login
        /\ \A x \in DOMAIN bind \ {s} : bind'[x] = bind[x]
        /\ At(j, "connect")
    BY <1>5, OpenedEffect
  <2>2. job[j].user = job[j].login
    BY <2>1 DEF Typed, JobsTyped
  <2> HIDE DEF s
  <2>3. /\ socket' \in 0..MaxSockets /\ link' \in [Sockets -> States]
        /\ DOMAIN bind' \subseteq Sockets /\ heard' \subseteq DOMAIN bind'
    BY <1>1, <2>1 DEF SocketsTyped, Sockets
  <2>4. \A x \in DOMAIN bind' : bind'[x].user = bind'[x].login
    BY <1>1, <2>1, <2>2 DEF SocketsTyped
  <2> QED
    BY <2>3, <2>4 DEF SocketsTyped
<1>6. ASSUME NEW j \in Jobs, Fails(j), At(j, "connect")
      PROVE  SocketsTyped'
  BY <1>1, <1>6, FailedEffect DEF SocketsTyped
<1>7. ASSUME NEW s \in Sockets, HearBound(s) \/ HearDone(s)
      PROVE  SocketsTyped'
  BY <1>1, <1>7 DEF HearBound, HearDone, SocketsTyped
<1> QED
  BY <1>2, <1>3, <1>4, <1>5, <1>6, <1>7, LinkSteps

\* The device list, the device in use and the devices of the server change in
\* these steps.
LEMMA DeviceSteps ==
    ASSUME [Next]_vars
    PROVE  \/ UNCHANGED <<deviceVars, registered>>
           \/ \E j \in Jobs : \/ DevicesAnswered(j) \/ ConversationsAnswered(j)
                              \/ LogoutAnswered(j) \/ RevokeAnswered(j)
                              \/ \E d \in Devices : SelectDevice(j, d) \/ RegisterAnswered(j, d)
           \/ \E d \in Devices : DeviceChanges(d)
<1> USE DEF serverVars
<1>1. ASSUME NEW j \in Jobs,
             \/ Fails(j) \/ ServerAnswers(j) \/ LoginAnswered(j) \/ InboxAnswered(j)
             \/ LeaveClosed(j) \/ SocketOpens(j) \/ RevokeClosed(j) \/ PostAnswered(j)
             \/ ContactAnswered(j)
             \/ PressLogin(j) \/ PressLogout(j) \/ PressRefresh(j) \/ PressConnect(j)
             \/ PressRegister(j) \/ PressContact(j)
             \/ \E d \in Devices : PressRevoke(j, d)
             \/ \E m \in Outgoing : PressSend(j, m)
      PROVE  UNCHANGED <<deviceVars, registered>>
  BY <1>1 DEF Fails, ServerAnswers, LoginAnswered, InboxAnswered, LeaveClosed, SocketOpens,
              RevokeClosed, PostAnswered, ContactAnswered, PressLogin, PressLogout, PressRefresh,
              PressConnect, PressRegister, PressContact, PressRevoke, PressSend
<1>2. ASSUME NEW m \in Incoming, MarkMessageRead(m)
      PROVE  UNCHANGED <<deviceVars, registered>>
  BY <1>2 DEF MarkMessageRead
<1>3. ASSUME NEW s \in Sockets, EventHeard(s)
      PROVE  UNCHANGED <<deviceVars, registered>>
  BY <1>3 DEF EventHeard, HearBound, HearDone, HearMailbox, HearDelivered, HearAck
<1>4. ASSUME NEW m \in Messages, MailComes(m) \/ MailTaken(m)
      PROVE  UNCHANGED <<deviceVars, registered>>
  BY <1>4 DEF MailComes, MailTaken
<1>5. CASE UNCHANGED vars
  BY <1>5 DEF vars
<1> QED
  BY <1>1, <1>2, <1>3, <1>4, <1>5 DEF Next, JobStep, Pressed

\* So do the lists of devices.
LEMMA DevicesTypedStep ==
    ASSUME Typed, [Next]_vars
    PROVE  DevicesTyped'
<1>1. DevicesTyped
  BY DEF Typed
<1>2. CASE UNCHANGED <<deviceVars, registered>>
  BY <1>1, <1>2 DEF deviceVars, DevicesTyped
<1>3. ASSUME NEW j \in Jobs, DevicesAnswered(j)
      PROVE  DevicesTyped'
  <2>1. job[j] \in Fetched /\ job[j].at = "devices"
    BY <1>3, JobKinds DEF DevicesAnswered, Answered, At, Fetches, Typed
  <2>2. job[j].answer \in [Devices -> DeviceStates]
    BY <2>1 DEF Fetched
  <2> QED
    BY <1>1, <1>3, <2>2 DEF DevicesAnswered, DevicesTyped, serverVars
<1>4. ASSUME NEW j \in Jobs, ConversationsAnswered(j)
      PROVE  DevicesTyped'
  <2>1. currentDevice' \in Devices \cup {None} /\ UNCHANGED <<devices, registered>>
    BY <1>1, <1>4 DEF ConversationsAnswered, Reconciled, DevicesTyped, serverVars
  <2> QED
    BY <1>1, <2>1 DEF DevicesTyped
<1>5. ASSUME NEW j \in Jobs, LogoutAnswered(j)
      PROVE  DevicesTyped'
  BY <1>1, <1>5 DEF LogoutAnswered, Forget, NoDevices, DevicesTyped, DeviceStates, serverVars
<1>6. ASSUME NEW j \in Jobs, RevokeAnswered(j)
      PROVE  DevicesTyped'
  <2>1. /\ currentDevice' \in {currentDevice, None} /\ devices' = devices
        /\ registered' = [registered EXCEPT ![job[j].device] = "revoked"]
    BY <1>6 DEF RevokeAnswered
  <2> QED
    BY <1>1, <2>1 DEF DevicesTyped, DeviceStates
<1>7. ASSUME NEW j \in Jobs, NEW d \in Devices, SelectDevice(j, d) \/ RegisterAnswered(j, d)
      PROVE  DevicesTyped'
  BY <1>1, <1>7 DEF SelectDevice, RegisterAnswered, DevicesTyped, DeviceStates, serverVars
<1>8. ASSUME NEW d \in Devices, DeviceChanges(d)
      PROVE  DevicesTyped'
  BY <1>1, <1>8 DEF DeviceChanges, DevicesTyped, DeviceStates, deviceVars
<1> QED
  BY <1>2, <1>3, <1>4, <1>5, <1>6, <1>7, <1>8, DeviceSteps

\* A fetch of the conversations ends the wait for it.
LEMMA ConversationsEffect ==
    ASSUME Typed, NEW j \in Jobs, ConversationsAnswered(j)
    PROVE  /\ Answered(j, "conversations")
           /\ conversation' = job[j].answer /\ job[j].answer \in Record
           /\ inbox' = inbox /\ sent' = sent
           /\ job'[j].at \in {"idle", "inbox", "connect", "leave"}
<1>1. Answered(j, "conversations")
  BY DEF ConversationsAnswered
<1>2. job[j].answer \in Record
  <2>1. job[j] \in Fetched /\ job[j].at = "conversations"
    BY <1>1, JobKinds DEF Answered, At, Fetches, Typed
  <2> QED
    BY <2>1 DEF Fetched
<1>3. inbox' = inbox /\ sent' = sent /\ conversation' = job[j].answer
  BY DEF ConversationsAnswered
<1>4. job'[j].at \in {"idle", "inbox", "connect", "leave"}
  <2>1. PICK d \in Reconciled : \/ d # None /\ Connect(j, d, TRUE)
                                \/ Await(j, [at |-> "leave"])
    BY DEF ConversationsAnswered
  <2>2. d \in Devices \cup {None} /\ job[j].at # "connect"
    BY <1>1 DEF Reconciled, Typed, DevicesTyped, Answered, At
  <2>3. ASSUME NEW r, Moves(j, r)
        PROVE  job'[j] = r
    BY <2>3 DEF Moves, Typed, JobsTyped
  <2>4. CASE Await(j, [at |-> "leave"])
    BY <2>4 DEF Await, Typed, JobsTyped
  <2>5. CASE Connect(j, d, TRUE)
    <3>1. (\E r \in Plain \cup Asking : Moves(j, r) /\ (r = Idle \/ r = Ask("inbox"))) \/ Opening(j)
      BY <2>2, <2>5, ConnectEffect
    <3>2. Idle.at = "idle" /\ Ask("inbox").at = "inbox" /\ \A r \in Connecting : r.at = "connect"
      BY DEF Idle, Ask, Connecting
    <3> QED
      BY <2>3, <3>1, <3>2 DEF Opening
  <2> QED
    BY <2>1, <2>4, <2>5
<1> QED
  BY <1>1, <1>2, <1>3, <1>4

\* What a step does to the lists and to the record of the conversation: one
\* message gets a record, a logout or the end of the last device forgets them, or a
\* fetch is answered.
LEMMA ListSteps ==
    ASSUME Typed, [Next]_vars
    PROVE  \/ UNCHANGED listVars
           \/ \E m \in Incoming, st \in Shown : UpsertInbox(m, st)
           \/ \E m \in Outgoing, r \in OutRecord : UpsertSent(m, r) /\ ownEmail' = ownEmail
           \/ \E j \in Jobs : \/ ConversationsAnswered(j) \/ LeaveClosed(j)
                              \/ InboxAnswered(j) \/ LogoutAnswered(j)
<1> DEFINE Goal ==
       \/ UNCHANGED listVars
       \/ \E m \in Incoming, st \in Shown : UpsertInbox(m, st)
       \/ \E m \in Outgoing, r \in OutRecord : UpsertSent(m, r) /\ ownEmail' = ownEmail
       \/ \E j \in Jobs : \/ ConversationsAnswered(j) \/ LeaveClosed(j)
                          \/ InboxAnswered(j) \/ LogoutAnswered(j)
<1> USE DEF loginVars
<1>1. ASSUME NEW j \in Jobs,
             \/ Fails(j) \/ ServerAnswers(j) \/ LoginAnswered(j) \/ DevicesAnswered(j)
             \/ SocketOpens(j) \/ RevokeAnswered(j) \/ RevokeClosed(j) \/ ContactAnswered(j)
             \/ \E d \in Devices : RegisterAnswered(j, d)
             \/ PressLogin(j) \/ PressLogout(j) \/ PressRefresh(j) \/ PressConnect(j)
             \/ PressRegister(j) \/ PressContact(j)
             \/ \E d \in Devices : SelectDevice(j, d) \/ PressRevoke(j, d)
      PROVE  Goal
  BY <1>1 DEF Fails, ServerAnswers, LoginAnswered, DevicesAnswered, SocketOpens, RevokeAnswered,
              RevokeClosed, ContactAnswered, RegisterAnswered, PressLogin, PressLogout, PressRefresh,
              PressConnect, PressRegister, PressContact, SelectDevice, PressRevoke
<1>2. ASSUME NEW j \in Jobs, PostAnswered(j)
      PROVE  Goal
  <2>1. /\ job[j].message \in Outgoing /\ ownEmail' = ownEmail
        /\ UpsertSent(job[j].message, MessageRecord("stored", Address))
    BY <1>2, JobKinds DEF PostAnswered, Asked, Typed
  <2>2. MessageRecord("stored", Address) \in OutRecord
    BY DEF MessageRecord, OutRecord, Shown, Emails
  <2> QED
    BY <2>1, <2>2
<1>3. ASSUME NEW j \in Jobs, NEW m \in Outgoing, PressSend(j, m)
      PROVE  Goal
  <2>1. UpsertSent(m, MessageRecord("pending", ownEmail)) /\ ownEmail' = ownEmail
    BY <1>3 DEF PressSend
  <2>2. MessageRecord("pending", ownEmail) \in OutRecord
    BY DEF MessageRecord, OutRecord, Shown, Typed, LoginsTyped
  <2> QED
    BY <2>1, <2>2
<1>4. ASSUME NEW m \in Incoming, MarkMessageRead(m)
      PROVE  Goal
  <2>1. UpsertInbox(m, "read") \/ UNCHANGED listVars
    BY <1>4 DEF MarkMessageRead
  <2> QED
    BY <2>1 DEF Shown
<1>5. ASSUME NEW s \in Sockets, EventHeard(s)
      PROVE  Goal
  <2>1. CASE HearBound(s) \/ HearDone(s)
    BY <2>1 DEF HearBound, HearDone
  <2>2. ASSUME NEW m \in Incoming, HearMailbox(s, m) \/ HearDelivered(s, m)
        PROVE  Goal
    <3>1. mail[m] \in Shown
      BY <2>2 DEF HearMailbox, HearDelivered, StoredIn, Typed, ListsTyped, Messages
    <3>2. \E st \in {"stored", "delivered", mail[m]} : UpsertInbox(m, st)
      BY <2>2 DEF HearMailbox, HearDelivered
    <3>3. {"stored", "delivered", mail[m]} \subseteq Shown
      BY <3>1 DEF Shown
    <3> QED
      BY <3>2, <3>3
  <2>3. ASSUME NEW m \in Outgoing, NEW st \in {"stored", "delivered", "read"}, HearAck(s, m, st)
        PROVE  Goal
    <3>1. UpsertSent(m, [sent[m] EXCEPT !.status = st]) /\ ownEmail' = ownEmail /\ m \in DOMAIN sent
      BY <2>3 DEF HearAck
    <3>2. [sent[m] EXCEPT !.status = st] \in OutRecord
      BY <3>1 DEF OutRecord, Shown, Typed, ListsTyped
    <3> QED
      BY <3>1, <3>2
  <2> QED
    BY <1>5, <2>1, <2>2, <2>3 DEF EventHeard
<1>6. ASSUME NEW m \in Messages, MailComes(m) \/ MailTaken(m)
      PROVE  Goal
  BY <1>6 DEF MailComes, MailTaken
<1>7. ASSUME NEW d \in Devices, DeviceChanges(d)
      PROVE  Goal
  BY <1>7 DEF DeviceChanges
<1>8. ASSUME UNCHANGED vars
      PROVE  Goal
  BY <1>8 DEF vars
<1>9. ASSUME NEW j \in Jobs, \/ ConversationsAnswered(j) \/ LeaveClosed(j)
                               \/ InboxAnswered(j) \/ LogoutAnswered(j)
      PROVE  Goal
  BY <1>9
<1> HIDE DEF Goal
<1>10. Goal
  BY <1>1, <1>2, <1>3, <1>4, <1>5, <1>6, <1>7, <1>8, <1>9 DEF Next, JobStep, Pressed
<1> QED
  BY <1>10 DEF Goal

\* The server's messages keep their type; what came in was never on its way out.
LEMMA MailTyped ==
    ASSUME Typed, [Next]_vars
    PROVE  /\ mail' \in [Messages -> Shown \cup {"none", "out"}]
           /\ \A m \in Incoming : mail'[m] # "out"
<1> DEFINE Goal == /\ mail' \in [Messages -> Shown \cup {"none", "out"}]
                   /\ \A m \in Incoming : mail'[m] # "out"
<1> USE DEF serverVars
<1>1. /\ mail \in [Messages -> Shown \cup {"none", "out"}]
      /\ \A m \in Incoming : mail[m] # "out"
      /\ Incoming \cap Outgoing = {}
  BY ClientAssumption DEF Typed, ListsTyped
<1>2. ASSUME mail' = mail PROVE Goal
  BY <1>1, <1>2
<1>3. ASSUME NEW m \in Messages, NEW st \in Shown \cup {"none", "out"},
             mail' = [mail EXCEPT ![m] = st], st = "out" => m \in Outgoing
      PROVE  Goal
  BY <1>1, <1>3
<1> HIDE DEF Goal
<1>4. {"stored", "delivered", "read"} \subseteq Shown \cup {"none", "out"}
      /\ "out" \in Shown \cup {"none", "out"} /\ Incoming \cup Outgoing \subseteq Messages
  BY DEF Shown, Messages
<1>5. ASSUME NEW j \in Jobs, JobStep(j), ~PostAnswered(j)
      PROVE  mail' = mail
  BY <1>5 DEF JobStep, Fails, ServerAnswers, LoginAnswered, LogoutAnswered, DevicesAnswered,
              ConversationsAnswered, InboxAnswered, LeaveClosed, SocketOpens, RevokeAnswered,
              RevokeClosed, ContactAnswered, RegisterAnswered
<1>6. ASSUME NEW j \in Jobs, PostAnswered(j)
      PROVE  Goal
  <2>1. job[j].message \in Outgoing /\ mail' = [mail EXCEPT ![job[j].message] = "stored"]
    BY <1>6, JobKinds DEF PostAnswered, Asked, Typed
  <2> QED
    BY <1>3, <1>4, <2>1
<1>7. ASSUME NEW j \in Jobs, Pressed(j), \A m \in Outgoing : ~PressSend(j, m)
      PROVE  mail' = mail
  BY <1>7 DEF Pressed, PressLogin, PressLogout, PressRefresh, PressConnect, PressRegister,
              PressContact, SelectDevice, PressRevoke
<1>8. ASSUME NEW j \in Jobs, NEW m \in Outgoing, PressSend(j, m)
      PROVE  Goal
  <2>1. mail' = [mail EXCEPT ![m] = "out"]
    BY <1>8 DEF PressSend
  <2> QED
    BY <1>3, <1>4, <2>1
<1>9. ASSUME NEW m \in Incoming, MarkMessageRead(m)
      PROVE  Goal
  <2>1. mail' = mail \/ mail' = [mail EXCEPT ![m] = "read"]
    BY <1>9 DEF MarkMessageRead
  <2> QED
    BY <1>2, <1>3, <1>4, <2>1
<1>10. ASSUME NEW s \in Sockets, EventHeard(s)
       PROVE  Goal
  <2>1. ASSUME NEW m \in Incoming, HearDelivered(s, m)
        PROVE  mail' = mail \/ mail' = [mail EXCEPT ![m] = "delivered"]
    BY <2>1 DEF HearDelivered
  <2>2. CASE \A m \in Incoming : ~HearDelivered(s, m)
    <3>1. mail' = mail
      BY <1>10, <2>2 DEF EventHeard, HearBound, HearDone, HearMailbox, HearAck
    <3> QED
      BY <1>2, <3>1
  <2> QED
    BY <1>2, <1>3, <1>4, <2>1, <2>2
<1>11. ASSUME NEW m \in Messages, MailComes(m) \/ MailTaken(m)
       PROVE  Goal
  <2>1. mail' = [mail EXCEPT ![m] = "stored"]
    BY <1>11 DEF MailComes, MailTaken
  <2> QED
    BY <1>3, <1>4, <2>1
<1>12. ASSUME NEW d \in Devices, DeviceChanges(d)
       PROVE  mail' = mail
  BY <1>12 DEF DeviceChanges
<1>13. ASSUME UNCHANGED vars
       PROVE  mail' = mail
  BY <1>13 DEF vars
<1>14. Goal
  BY <1>2, <1>5, <1>6, <1>7, <1>8, <1>9, <1>10, <1>11, <1>12, <1>13 DEF Next
<1> QED
  BY <1>14 DEF Goal

\* An update keeps the record a record: the counter is clamped.
LEMMA SyncedType ==
    ASSUME conversation \in Record, NEW list, NEW m, NEW r
    PROVE  Synced(list, m, r) \in Record
<1>1. conversation.count \in Nat /\ conversation.unread \in Nat
  BY DEF Record
<1>2. \A x : Unread(x) \in {0, 1}
  BY DEF Unread
<1>3. UnreadBefore(list, m) \in {0, 1}
  BY <1>2 DEF UnreadBefore
<1> DEFINE now == conversation.unread + Unread(r) - UnreadBefore(list, m)
<1>4. now \in Int /\ (IF now < 0 THEN 0 ELSE now) \in Nat
      /\ conversation.count + (IF m \in DOMAIN list THEN 0 ELSE 1) \in Nat
  BY <1>1, <1>2, <1>3
<1>5. Synced(list, m, r) =
         IF conversation = NoRecord
         THEN [count |-> 1, unread |-> Unread(r)]
         ELSE [count  |-> conversation.count + (IF m \in DOMAIN list THEN 0 ELSE 1),
               unread |-> IF now < 0 THEN 0 ELSE now]
  BY DEF Synced
<1> HIDE DEF now
<1> QED
  BY <1>2, <1>4, <1>5 DEF Record

\* So do the inbox, the conversation and the mail.
LEMMA ListsTypedStep ==
    ASSUME Typed, [Next]_vars
    PROVE  ListsTyped'
<1>1. ListsTyped /\ /\ mail' \in [Messages -> Shown \cup {"none", "out"}]
                    /\ \A m \in Incoming : mail'[m] # "out"
  BY MailTyped DEF Typed
<1> DEFINE Goal == /\ DOMAIN inbox' \subseteq Incoming /\ DOMAIN sent' \subseteq Outgoing
                   /\ \A m \in DOMAIN inbox' : inbox'[m] \in InRecord
                   /\ \A m \in DOMAIN sent' : sent'[m] \in OutRecord
                   /\ conversation' \in Record
<1>2. ASSUME UNCHANGED listVars PROVE Goal
  BY <1>1, <1>2 DEF listVars, ListsTyped
<1>3. ASSUME NEW m \in Incoming, NEW st \in Shown, UpsertInbox(m, st) PROVE Goal
  <2> DEFINE r == MessageRecord(st, Peer)
  <2>1. conversation' \in Record
    BY <1>1, <1>3, SyncedType DEF UpsertInbox, ListsTyped
  <2>2. r \in InRecord
    BY DEF MessageRecord, InRecord
  <2>3. inbox' = With(inbox, m, r) /\ sent' = sent
    BY <1>3 DEF UpsertInbox
  <2> HIDE DEF r
  <2> QED
    BY <1>1, <2>1, <2>2, <2>3 DEF With, ListsTyped
<1>4. ASSUME NEW m \in Outgoing, NEW r \in OutRecord, UpsertSent(m, r) PROVE Goal
  <2>1. conversation' \in Record
    BY <1>1, <1>4, SyncedType DEF UpsertSent, ListsTyped
  <2> QED
    BY <1>1, <1>4, <2>1 DEF UpsertSent, With, ListsTyped
<1>5. ASSUME NEW j \in Jobs, ConversationsAnswered(j) PROVE Goal
  <2>1. conversation' \in Record /\ inbox' = inbox /\ sent' = sent
    BY <1>5, ConversationsEffect
  <2> QED
    BY <1>1, <2>1 DEF ListsTyped
<1>6. ASSUME NEW j \in Jobs, InboxAnswered(j) PROVE Goal
  <2>1. job[j] \in Fetched /\ job[j].at = "inbox"
    BY <1>6, JobKinds DEF InboxAnswered, Answered, At, Fetches, Typed
  <2>2. job[j].answer \in Lists(Incoming)
    BY <2>1 DEF Fetched
  <2>3. inbox' = job[j].answer /\ UNCHANGED <<sent, conversation>>
    BY <1>6 DEF InboxAnswered
  <2> QED
    BY <1>1, <2>2, <2>3 DEF Lists, ListsTyped
<1>7. ASSUME NEW j \in Jobs, LogoutAnswered(j) PROVE Goal
  BY <1>7 DEF LogoutAnswered, Forget, NoMessages, NoRecord, Record
<1>8. ASSUME NEW j \in Jobs, LeaveClosed(j) PROVE Goal
  BY <1>1, <1>8 DEF LeaveClosed, NoMessages, ListsTyped
<1> HIDE DEF Goal
<1>9. Goal
  BY <1>2, <1>3, <1>4, <1>5, <1>6, <1>7, <1>8, ListSteps
<1> QED
  BY <1>1, <1>9 DEF Goal, ListsTyped

\* The types hold at the start.
LEMMA TypedInit ==
    ASSUME Init
    PROVE  Typed
<1> USE DEF Init
<1>1. LoginsTyped /\ FlagsTyped
  <2>1. stage = "auth" /\ session = 0 /\ token = 0 /\ logins = 0 /\ MaxLogins \in Nat
    BY ClientAssumption
  <2>2. isBusy = FALSE /\ isRealtimeConnected = FALSE /\ overlapped = FALSE /\ limit \in Limit
    BY ClientAssumption
  <2>3. LoginsTyped
    BY <2>1 DEF LoginsTyped, Logins, Emails
  <2>4. FlagsTyped
    BY <2>2 DEF FlagsTyped
  <2> QED
    BY <2>3, <2>4
<1>2. DevicesTyped
  BY DEF DevicesTyped, NoDevices, DeviceStates
<1>3. ListsTyped
  <2>1. conversation \in Record
    BY DEF Record, NoRecord
  <2>2. mail \in [Messages -> Shown \cup {"none", "out"}] /\ \A m \in Incoming : mail[m] # "out"
    BY DEF Messages
  <2> QED
    BY <2>1, <2>2 DEF ListsTyped, NoMessages
<1>4. SocketsTyped
  BY ClientAssumption DEF SocketsTyped
<1>5. JobsTyped
  <2>1. Idle \in JobType /\ Idle.at # "connect"
    BY DEF JobType, Plain, Idle
  <2> QED
    BY <2>1 DEF JobsTyped, At
<1> QED
  BY <1>1, <1>2, <1>3, <1>4, <1>5 DEF Typed

\* So every step keeps all the types.
LEMMA TypedStep ==
    ASSUME Typed, [Next]_vars
    PROVE  Typed'
BY LoginsTypedStep, FlagsTypedStep, DevicesTypedStep, ListsTypedStep, SocketsTypedStep,
   JobsTypedStep DEF Typed

\* Every variable of the client has its type, and the unread counter never goes
\* below zero.
THEOREM ClientTypeCorrect == Spec => []ClientTypeOK
<1>1. Typed /\ [Next]_vars => Typed'
  BY TypedStep
<1>2. Typed => ClientTypeOK
  BY DEF Typed, LoginsTyped, FlagsTyped, DevicesTyped, ListsTyped, SocketsTyped, ClientTypeOK,
         Logins, Record, InRecord, OutRecord
<1> QED
  BY <1>1, <1>2, TypedInit, PTL DEF Spec

\* The session shown, the tokens that requests carry, and the user and the token of
\* every session.bind are of one login.
THEOREM LoginsKeptApart == Spec => []LoginsNotMixed
<1>1. Typed /\ [Next]_vars => Typed'
  BY TypedStep
<1>2. Typed => LoginsNotMixed
  BY DEF Typed, LoginsTyped, SocketsTyped, LoginsNotMixed
<1> QED
  BY <1>1, <1>2, TypedInit, PTL DEF Spec

-----------------------------------------------------------------------------
(* What is shown as connected is. *)

\* A connection is being opened while exactly one job waits for it, a session.bind
\* is sent on one that was open, and the flag is up while one where session.bound
\* was heard has not ended.
Links ==
    /\ \A s \in DOMAIN bind : link[s] \notin {"new", "connecting"}
    /\ \A j \in Jobs : At(j, "connect") => link[job[j].socket] = "connecting"
    /\ \A j, k \in Jobs :
          At(j, "connect") /\ At(k, "connect") /\ job[j].socket = job[k].socket => j = k
    /\ \A s \in Sockets : link[s] = "connecting" =>
          \E j \in Jobs : At(j, "connect") /\ job[j].socket = s
    /\ ConnectedMeansBound

\* A step that starts and opens no connection and binds none keeps all but the flag.
LEMMA LinksKept ==
    ASSUME Typed, Links, SameConnects, DOMAIN bind' = DOMAIN bind,
           \A s \in Sockets : link'[s] = "connecting" <=> link[s] = "connecting",
           \A s \in Sockets : link[s] # "new" => link'[s] # "new"
    PROVE  /\ \A s \in DOMAIN bind' : link'[s] \notin {"new", "connecting"}
           /\ \A j \in Jobs : job'[j].at = "connect" => link'[job'[j].socket] = "connecting"
           /\ \A j, k \in Jobs :
                 job'[j].at = "connect" /\ job'[k].at = "connect" /\ job'[j].socket = job'[k].socket
                    => j = k
           /\ \A s \in Sockets : link'[s] = "connecting" =>
                 \E j \in Jobs : job'[j].at = "connect" /\ job'[j].socket = s
<1>1. DOMAIN bind \subseteq Sockets /\ \A j \in Jobs : At(j, "connect") => job[j].socket \in Sockets
  BY JobKinds DEF Typed, SocketsTyped, Connecting
<1>2. \A j \in Jobs : (job'[j].at = "connect" <=> At(j, "connect"))
                      /\ (At(j, "connect") => job'[j] = job[j])
  BY DEF SameConnects, At
<1>3. \A s \in DOMAIN bind' : link'[s] \notin {"new", "connecting"}
  BY <1>1 DEF Links
<1>4. \A j \in Jobs : job'[j].at = "connect" => link'[job'[j].socket] = "connecting"
  BY <1>1, <1>2 DEF Links
<1>5. \A j, k \in Jobs :
         job'[j].at = "connect" /\ job'[k].at = "connect" /\ job'[j].socket = job'[k].socket => j = k
  BY <1>2 DEF Links
<1>6. ASSUME NEW s \in Sockets, link'[s] = "connecting"
      PROVE  \E j \in Jobs : job'[j].at = "connect" /\ job'[j].socket = s
  <2>1. PICK j \in Jobs : At(j, "connect") /\ job[j].socket = s
    BY <1>6 DEF Links
  <2> QED
    BY <1>2, <2>1
<1> QED
  BY <1>3, <1>4, <1>5, <1>6

\* The flag, if it was up before and a connection that speaks goes on doing so.
LEMMA FlagKept ==
    ASSUME ConnectedMeansBound, isRealtimeConnected' \in {isRealtimeConnected, FALSE},
           heard \subseteq heard', \A s \in heard : Speaks(s) => link'[s] \in {"open", "closing"}
    PROVE  ConnectedMeansBound'
BY DEF ConnectedMeansBound, Speaks

\* Every step keeps the links.
LEMMA LinksStep ==
    ASSUME Typed, Links, [Next]_vars
    PROVE  Links'
<1>1. /\ SocketsTyped /\ JobsTyped /\ ConnectedMeansBound
      /\ DOMAIN bind \subseteq Sockets /\ heard \subseteq DOMAIN bind
      /\ \A s \in Sockets : AfterDisconnect[s] =
            IF s = socket /\ link[s] = "open" THEN "closing" ELSE link[s]
      /\ \A j \in Jobs : At(j, "connect") => job[j].socket \in Sockets
  BY Closing, JobKinds DEF Typed, Links, SocketsTyped, Connecting
<1>2. CASE /\ SameConnects /\ isRealtimeConnected' \in {isRealtimeConnected, FALSE}
           /\ UNCHANGED socketVars \/ Disconnect
  <2>1. /\ bind' = bind /\ heard' = heard
        /\ \A s \in Sockets : link'[s] = link[s] \/ (link[s] = "open" /\ link'[s] = "closing")
    BY <1>1, <1>2 DEF Disconnect, socketVars
  <2>2. ConnectedMeansBound'
    BY <1>1, <1>2, <2>1, FlagKept DEF Speaks
  <2> QED
    BY <1>2, <2>1, <2>2, LinksKept DEF Links, At
<1>3. ASSUME NEW j \in Jobs, isRealtimeConnected' = FALSE, Opening(j)
      PROVE  Links'
  <2>1. PICK r \in Connecting :
           /\ link[r.socket] = "new" /\ r.socket \in Sockets /\ r.at = "connect"
           /\ \A k \in Jobs : job'[k] = IF k = j THEN r ELSE job[k]
           /\ \A s \in Sockets : link'[s] = IF s = r.socket THEN "connecting" ELSE AfterDisconnect[s]
    BY <1>3, OpenEffect
  <2>2. bind' = bind /\ job[j].at # "connect"
    BY <1>3 DEF Opening
  <2>3. \A s \in DOMAIN bind' : link'[s] \notin {"new", "connecting"}
    BY <1>1, <2>1, <2>2 DEF Links
  <2>4. \A k \in Jobs : job'[k].at = "connect" => link'[job'[k].socket] = "connecting"
    BY <1>1, <2>1 DEF Links, At
  <2>5. \A k, l \in Jobs :
           job'[k].at = "connect" /\ job'[l].at = "connect" /\ job'[k].socket = job'[l].socket => k = l
    BY <2>1 DEF Links, At
  <2>6. ASSUME NEW s \in Sockets, link'[s] = "connecting"
        PROVE  \E k \in Jobs : job'[k].at = "connect" /\ job'[k].socket = s
    <3>1. CASE s = r.socket
      BY <2>1, <3>1
    <3>2. CASE s # r.socket
      <4>1. link[s] = "connecting"
        BY <1>1, <2>1, <2>6, <3>2
      <4>2. PICK k \in Jobs : At(k, "connect") /\ job[k].socket = s
        BY <4>1 DEF Links
      <4>3. k # j
        BY <2>2, <4>2 DEF At
      <4> QED
        BY <2>1, <4>2, <4>3 DEF At
    <3> QED
      BY <3>1, <3>2
  <2>7. ConnectedMeansBound'
    BY <1>3 DEF ConnectedMeansBound
  <2> QED
    BY <2>3, <2>4, <2>5, <2>6, <2>7 DEF Links, At
<1>4. ASSUME NEW j \in Jobs, SocketOpens(j)
      PROVE  Links'
  <2> DEFINE s == job[j].socket
  <2>1. /\ s \in Sockets /\ At(j, "connect") /\ heard' = heard
        /\ link' = [link EXCEPT ![s] = "open"] /\ DOMAIN bind' = DOMAIN bind \cup {s}
        /\ isRealtimeConnected' = isRealtimeConnected
        /\ \A k \in Jobs \ {j} : job'[k] = job[k]
        /\ job'[j].at # "connect"
    BY <1>4, OpenedEffect
  <2>2. /\ \A k \in Jobs \ {j} : At(k, "connect") => job[k].socket # s
        /\ \A x \in Sockets : link'[x] = IF x = s THEN "open" ELSE link[x]
    BY <1>1, <2>1 DEF Links, SocketsTyped
  <2>3. \A x \in DOMAIN bind' : link'[x] \notin {"new", "connecting"}
    BY <1>1, <2>1, <2>2 DEF Links
  <2>4. \A k \in Jobs : job'[k].at = "connect" => link'[job'[k].socket] = "connecting"
    BY <1>1, <2>1, <2>2 DEF Links, At
  <2>5. \A k, l \in Jobs :
           job'[k].at = "connect" /\ job'[l].at = "connect" /\ job'[k].socket = job'[l].socket => k = l
    BY <2>1 DEF Links, At
  <2>6. ASSUME NEW x \in Sockets, link'[x] = "connecting"
        PROVE  \E k \in Jobs : job'[k].at = "connect" /\ job'[k].socket = x
    <3>1. link[x] = "connecting" /\ x # s
      BY <2>2, <2>6
    <3>2. PICK k \in Jobs : At(k, "connect") /\ job[k].socket = x
      BY <3>1 DEF Links
    <3> QED
      BY <2>1, <3>1, <3>2 DEF At
  <2>7. ConnectedMeansBound'
    BY <1>1, <2>1, <2>2, FlagKept DEF Speaks
  <2> QED
    BY <2>3, <2>4, <2>5, <2>6, <2>7 DEF Links, At
<1>5. ASSUME NEW j \in Jobs, Fails(j), At(j, "connect")
      PROVE  Links'
  <2> DEFINE s == job[j].socket
  <2>1. /\ s \in Sockets /\ link' = [link EXCEPT ![s] = "done"]
        /\ UNCHANGED <<bind, heard, isRealtimeConnected>>
        /\ \A k \in Jobs \ {j} : job'[k] = job[k]
        /\ job'[j] = Idle
    BY <1>5, FailedEffect
  <2>2. /\ \A k \in Jobs \ {j} : At(k, "connect") => job[k].socket # s
        /\ \A x \in Sockets : link'[x] = IF x = s THEN "done" ELSE link[x]
        /\ job'[j].at # "connect" /\ link[s] = "connecting"
    BY <1>1, <1>5, <2>1 DEF Links, SocketsTyped, Idle
  <2>3. \A x \in DOMAIN bind' : link'[x] \notin {"new", "connecting"}
    BY <1>1, <2>1, <2>2 DEF Links
  <2>4. \A k \in Jobs : job'[k].at = "connect" => link'[job'[k].socket] = "connecting"
    BY <1>1, <2>1, <2>2 DEF Links, At
  <2>5. \A k, l \in Jobs :
           job'[k].at = "connect" /\ job'[l].at = "connect" /\ job'[k].socket = job'[l].socket => k = l
    BY <2>1, <2>2 DEF Links, At
  <2>6. ASSUME NEW x \in Sockets, link'[x] = "connecting"
        PROVE  \E k \in Jobs : job'[k].at = "connect" /\ job'[k].socket = x
    <3>1. link[x] = "connecting" /\ x # s
      BY <2>2, <2>6
    <3>2. PICK k \in Jobs : At(k, "connect") /\ job[k].socket = x
      BY <3>1 DEF Links
    <3> QED
      BY <2>1, <3>1, <3>2 DEF At
  <2>7. ConnectedMeansBound'
    BY <1>1, <2>1, <2>2, FlagKept DEF Speaks
  <2> QED
    BY <2>3, <2>4, <2>5, <2>6, <2>7 DEF Links, At
<1>6. ASSUME NEW s \in Sockets, SameConnects, HearBound(s)
      PROVE  Links'
  <2>1. /\ UNCHANGED <<link, bind>> /\ Speaks(s) /\ heard' = heard \cup {s}
    BY <1>6 DEF HearBound
  <2>2. ConnectedMeansBound'
    BY <2>1 DEF ConnectedMeansBound, Speaks
  <2> QED
    BY <1>6, <2>1, <2>2, LinksKept DEF Links, At
<1>7. ASSUME NEW s \in Sockets, SameConnects, HearDone(s)
      PROVE  Links'
  <2>1. /\ bind' = bind /\ Speaks(s)
        /\ \A x \in Sockets : link'[x] = IF x = s THEN "done" ELSE link[x]
    BY <1>1, <1>7 DEF HearDone, SocketsTyped
  <2>2. ConnectedMeansBound'
    BY <1>7 DEF HearDone, ConnectedMeansBound
  <2> QED
    BY <1>7, <2>1, <2>2, LinksKept DEF Links, At, Speaks
<1> QED
  BY <1>2, <1>3, <1>4, <1>5, <1>6, <1>7, LinkSteps

\* Types and links hold at the start.
LEMMA LinksInit == Init => Typed /\ Links
<1> SUFFICES ASSUME Init PROVE Links
  BY TypedInit
<1>1. DOMAIN bind = {} /\ ~isRealtimeConnected /\ \A s \in Sockets : link[s] = "new"
  BY DEF Init
<1>2. \A j \in Jobs : ~At(j, "connect")
  BY DEF Init, At, Idle
<1> QED
  BY <1>1, <1>2 DEF Links, ConnectedMeansBound

\* The user is told that the realtime connection is up only while there is one that
\* was bound and has not ended.
THEOREM ConnectedIsBound == Spec => []ConnectedMeansBound
<1>1. Typed /\ Links /\ [Next]_vars => Typed' /\ Links'
  BY TypedStep, LinksStep
<1>2. Links => ConnectedMeansBound
  BY DEF Links
<1> QED
  BY <1>1, <1>2, LinksInit, PTL DEF Spec

-----------------------------------------------------------------------------
(* One connection, while no two jobs overlapped. *)

Sole == ~overlapped => \A j, k \in Jobs : job[j] # Idle /\ job[k] # Idle => j = k

\* What is open can be closed, nothing is while a connection is being opened or the
\* user is being logged out, and none is opened or left behind after a logout.
OneOpen ==
    ~overlapped =>
        /\ \A s \in Sockets : link[s] = "open" => s = socket /\ stage = "home"
        /\ \A j \in Jobs : At(j, "connect") => socket = 0 /\ stage = "home"
        /\ \A j \in Jobs : At(j, "logout") => socket = 0

\* At most one job moves, and one that starts alone is alone.
LEMMA OneMoves ==
    ASSUME Typed, [Next]_vars
    PROVE  \/ job' = job /\ overlapped' = overlapped
           \/ \E j \in Jobs :
                 /\ Settles(j) \/ Opening(j)
                 /\ \A k \in Jobs \ {j} : job'[k] = job[k]
                 /\ overlapped => overlapped'
                 /\ overlapped' \/ (job[j] # Idle \/ job'[j] = Idle)
                                \/ \A k \in Jobs \ {j} : job[k] = Idle
<1>1. CASE Still
  BY <1>1 DEF Still
<1>2. ASSUME NEW j \in Jobs, Settles(j) \/ Opening(j)
      PROVE  /\ \A k \in Jobs \ {j} : job'[k] = job[k]
             /\ overlapped => overlapped'
             /\ overlapped' \/ (job[j] # Idle \/ job'[j] = Idle)
                            \/ \A k \in Jobs \ {j} : job[k] = Idle
  <2>1. PICK r : Moves(j, r)
    BY <1>2 DEF Settles, Other, Opening
  <2>2. job \in [Jobs -> JobType] /\ overlapped \in BOOLEAN
    BY DEF Typed, JobsTyped, FlagsTyped
  <2>3. job'[j] = r /\ \A k \in Jobs \ {j} : job'[k] = job[k]
    BY <2>1, <2>2 DEF Moves
  <2>4. CASE overlapped' = overlapped /\ (job[j] # Idle \/ r = Idle)
    BY <2>3, <2>4
  <2>5. CASE overlapped' = (overlapped \/ \E k \in Jobs \ {j} : job[k] # Idle)
    BY <2>2, <2>3, <2>5
  <2> QED
    BY <2>1, <2>4, <2>5 DEF Moves
<1> QED
  BY <1>1, <1>2, JobSteps

\* While no two jobs have overlapped there is one at most, and an overlap is not
\* forgotten.
LEMMA SoleStep ==
    ASSUME Typed, Sole, [Next]_vars
    PROVE  Sole' /\ (overlapped => overlapped')
<1>1. CASE job' = job /\ overlapped' = overlapped
  BY <1>1 DEF Sole, Idle
<1>2. ASSUME NEW j \in Jobs, \A k \in Jobs \ {j} : job'[k] = job[k],
             overlapped => overlapped',
             overlapped' \/ (job[j] # Idle \/ job'[j] = Idle) \/ \A k \in Jobs \ {j} : job[k] = Idle
      PROVE  Sole'
  <2> SUFFICES ASSUME ~overlapped', NEW k \in Jobs, NEW l \in Jobs, job'[k] # Idle, job'[l] # Idle
               PROVE  k = l
    BY DEF Sole, Idle
  <2>1. \A x, y \in Jobs : job[x] # Idle /\ job[y] # Idle => x = y
    BY <1>2 DEF Sole
  <2> QED
    BY <1>2, <2>1
<1> QED
  BY <1>1, <1>2, OneMoves

\* The steps that log out.
LEMMA LogoutSteps ==
    ASSUME Typed, [Next]_vars, NEW k \in Jobs, job'[k].at = "logout"
    PROVE  job'[k] = job[k] \/ socket' = 0
<1>1. CASE job' = job
  BY <1>1
<1>2. ASSUME NEW j \in Jobs, Settles(j) \/ Opening(j), \A x \in Jobs \ {j} : job'[x] = job[x]
      PROVE  job'[k] = job[k] \/ socket' = 0
  <2>1. CASE k # j
    BY <1>2, <2>1
  <2>2. CASE k = j /\ Opening(j)
    BY <2>2 DEF Opening
  <2>3. CASE k = j /\ PressLogout(j)
    BY <2>3 DEF PressLogout, Disconnect
  <2>4. CASE k = j /\ ServerAnswers(j)
    <3>1. job'[j].at = job[j].at /\ job[j].at \in Fetches
      BY <2>4 DEF ServerAnswers, Await, Asked, At, Typed, JobsTyped
    <3> QED
      BY <2>4, <3>1 DEF Fetches
  <2>5. CASE k = j /\ Quiet(j)
    <3>1. PICK r \in (Plain \ {[at |-> "logout"]}) \cup Asking \cup Changing : Moves(j, r)
      BY <2>5 DEF Quiet
    <3>2. r.at # "logout"
      BY DEF Plain, Asking, Changing, Fetches
    <3> QED
      BY <2>5, <3>1, <3>2 DEF Moves, Typed, JobsTyped
  <2> QED
    BY <1>2, <2>1, <2>2, <2>3, <2>4, <2>5 DEF Settles
<1> QED
  BY <1>1, <1>2, OneMoves

\* No step logs out but a logout that is answered, and that one closes nothing.
LEMMA StageSteps ==
    ASSUME Typed, [Next]_vars
    PROVE  \/ stage = "home" => stage' = "home"
           \/ \E j \in Jobs : /\ At(j, "logout") /\ UNCHANGED socketVars
                              /\ job' = [job EXCEPT ![j] = Idle]
<1>1. CASE UNCHANGED loginVars
  BY <1>1 DEF loginVars
<1>2. ASSUME NEW j \in Jobs, LoginAnswered(j)
      PROVE  stage' = "home"
  BY <1>2 DEF LoginAnswered
<1>3. ASSUME NEW j \in Jobs, LogoutAnswered(j)
      PROVE  At(j, "logout") /\ UNCHANGED socketVars /\ job' = [job EXCEPT ![j] = Idle]
  BY <1>3 DEF LogoutAnswered, End
<1> QED
  BY <1>1, <1>2, <1>3, LoginSteps

\* While no two jobs have overlapped every step keeps at most one connection open.
LEMMA OneOpenStep ==
    ASSUME Typed, Links, Sole, OneOpen, [Next]_vars
    PROVE  OneOpen'
<1> SUFFICES ASSUME ~overlapped'
             PROVE  /\ \A s \in Sockets : link'[s] = "open" => s = socket' /\ stage' = "home"
                    /\ \A j \in Jobs : job'[j].at = "connect" => socket' = 0 /\ stage' = "home"
                    /\ \A j \in Jobs : job'[j].at = "logout" => socket' = 0
  BY DEF OneOpen, At
<1> DEFINE Open == \A s \in Sockets : link'[s] = "open" => s = socket' /\ stage' = "home"
           Connects == \A j \in Jobs : job'[j].at = "connect" => socket' = 0 /\ stage' = "home"
           Logouts == \A j \in Jobs : job'[j].at = "logout" => socket' = 0
<1>1. /\ ~overlapped
      /\ \A j, k \in Jobs : job[j] # Idle /\ job[k] # Idle => j = k
      /\ \A s \in Sockets : link[s] = "open" => s = socket /\ stage = "home"
      /\ \A j \in Jobs : job[j].at = "connect" => socket = 0 /\ stage = "home"
      /\ \A j \in Jobs : job[j].at = "logout" => socket = 0
  BY SoleStep DEF Sole, OneOpen, At
<1>2. /\ 0 \notin Sockets
      /\ \A s \in Sockets : AfterDisconnect[s] =
            IF s = socket /\ link[s] = "open" THEN "closing" ELSE link[s]
  BY Closing, ClientAssumption DEF Typed, Sockets
<1>3. \A j \in Jobs : job'[j].at = "logout" => job'[j] = job[j] \/ socket' = 0
  BY LogoutSteps
<1>4. ASSUME NEW j \in Jobs, At(j, "logout"), UNCHANGED socketVars, job' = [job EXCEPT ![j] = Idle]
      PROVE  Open /\ Connects /\ Logouts
  <2>1. socket = 0 /\ link' = link /\ socket' = 0
    BY <1>1, <1>4 DEF At, socketVars
  <2>2. \A s \in Sockets : link[s] # "open"
    BY <1>1, <1>2, <2>1
  <2>3. \A k \in Jobs : job'[k].at # "connect"
    <3>1. job[j] # Idle
      BY <1>4 DEF At, Idle
    <3>2. \A k \in Jobs \ {j} : job[k] = Idle
      BY <1>1, <3>1
    <3> QED
      BY <1>4, <3>2 DEF Idle, Typed, JobsTyped
  <2> QED
    BY <2>1, <2>2, <2>3
<1>5. ASSUME stage = "home" => stage' = "home"
      PROVE  Open /\ Connects /\ Logouts
  <2>1. CASE SameConnects /\ (UNCHANGED socketVars \/ Disconnect)
    <3>1. socket' \in {socket, 0}
          /\ \A s \in Sockets : link'[s] = "open" => link[s] = "open" /\ s = socket'
      BY <1>1, <1>2, <2>1 DEF Disconnect, socketVars
    <3>2. \A j \in Jobs : job'[j].at = "connect" => job[j].at = "connect"
      BY <2>1 DEF SameConnects
    <3> QED
      BY <1>1, <1>3, <1>5, <3>1, <3>2
  <2>2. ASSUME NEW j \in Jobs, Opening(j)
        PROVE  Open /\ Connects /\ Logouts
    <3>1. PICK r \in Connecting :
             \A s \in Sockets : link'[s] = IF s = r.socket THEN "connecting" ELSE AfterDisconnect[s]
      BY <2>2, OpenEffect
    <3>2. socket' = 0 /\ stage' = "home"
      BY <1>5, <2>2 DEF Opening
    <3>3. \A s \in Sockets : link'[s] # "open"
      BY <1>1, <1>2, <3>1
    <3> QED
      BY <3>2, <3>3
  <2>3. ASSUME NEW j \in Jobs, SocketOpens(j)
        PROVE  Open /\ Connects /\ Logouts
    <3> DEFINE s == job[j].socket
    <3>1. /\ s \in Sockets /\ job[j].at = "connect" /\ socket' = s
          /\ link' = [link EXCEPT ![s] = "open"]
          /\ \A k \in Jobs \ {j} : job'[k] = job[k]
          /\ job'[j].at # "connect"
      BY <2>3, OpenedEffect DEF At
    <3>2. socket = 0 /\ stage' = "home" /\ job[j] # Idle
      BY <1>1, <1>5, <3>1 DEF Idle
    <3>3. \A k \in Jobs \ {j} : job[k] = Idle
      BY <1>1, <3>2
    <3>4. Open
      <4>1. \A x \in Sockets : link[x] # "open"
        BY <1>1, <1>2, <3>2
      <4>2. \A x \in Sockets : link'[x] = "open" => x = s
        BY <3>1, <4>1 DEF Typed, SocketsTyped
      <4> QED
        BY <3>1, <3>2, <4>2
    <3>5. \A k \in Jobs : job'[k].at # "connect"
      BY <3>1, <3>3 DEF Idle
    <3>6. \A k \in Jobs : job'[k].at # "logout"
      <4>1. \A k \in Jobs \ {j} : job'[k].at # "logout"
        BY <3>1, <3>3 DEF Idle
      <4>2. job'[j] # job[j] /\ s # 0
        BY <1>2, <3>1
      <4> QED
        BY <1>3, <3>1, <4>1, <4>2
    <3> QED
      BY <3>4, <3>5, <3>6
  <2>4. ASSUME NEW j \in Jobs, Fails(j), At(j, "connect")
        PROVE  Open /\ Connects /\ Logouts
    <3>1. /\ link' = [link EXCEPT ![job[j].socket] = "done"] /\ socket' = socket
          /\ \A k \in Jobs \ {j} : job'[k] = job[k]
          /\ job'[j] = Idle
      BY <2>4, FailedEffect
    <3>2. \A x \in Sockets : link'[x] = "open" => link[x] = "open"
      BY <3>1 DEF Typed, SocketsTyped
    <3>3. \A k \in Jobs : job'[k].at = "connect" => job[k].at = "connect"
      BY <3>1 DEF Idle
    <3> QED
      BY <1>1, <1>3, <1>5, <3>1, <3>2, <3>3
  <2>5. ASSUME NEW s \in Sockets, SameConnects, HearBound(s) \/ HearDone(s)
        PROVE  Open /\ Connects /\ Logouts
    <3>1. /\ \A x \in Sockets : link'[x] = "open" => link[x] = "open"
          /\ socket' = socket /\ job' = job
      BY <2>5 DEF HearBound, HearDone, Typed, SocketsTyped
    <3> QED
      BY <1>1, <1>5, <3>1
  <2> QED
    BY <2>1, <2>2, <2>3, <2>4, <2>5, LinkSteps
<1> QED
  BY <1>4, <1>5, StageSteps

\* The invariant of the jobs and of the connections holds at the start and for ever.
Connected == Typed /\ Links /\ Sole /\ OneOpen

\* These hold in every state of the client.
LEMMA ConnectedAlways == Spec => []Connected
<1>1. Init => Connected
  <2> SUFFICES ASSUME Init PROVE Sole /\ OneOpen
    BY LinksInit DEF Connected
  <2>1. /\ \A j \in Jobs : job[j] = Idle
        /\ \A s \in Sockets : link[s] = "new"
    BY DEF Init
  <2> QED
    BY <2>1 DEF Sole, OneOpen, At, Idle
<1>2. Connected /\ [Next]_vars => Connected'
  BY TypedStep, LinksStep, SoleStep, OneOpenStep DEF Connected
<1> QED
  BY <1>1, <1>2, PTL DEF Spec

\* While no two jobs overlapped there is one connection, it is the one that is closed
\* by a logout or by the next, and a logout leaves none.
THEOREM ConnectedOnce == Spec => []OneConnection
<1>1. Connected => OneConnection
  <2> SUFFICES ASSUME Connected, ~overlapped,
                      NEW s \in Sockets, link[s] \in {"connecting", "open"}
               PROVE  /\ stage = "home"
                      /\ s = socket \/ (link[s] = "connecting" /\ socket = 0)
                      /\ \A t \in Sockets \ {s} : link[t] \notin {"connecting", "open"}
    BY DEF OneConnection
  <2>1. /\ \A x \in Sockets : link[x] = "open" => x = socket /\ stage = "home"
        /\ \A j \in Jobs : At(j, "connect") => socket = 0 /\ stage = "home"
        /\ \A x \in Sockets : link[x] = "connecting" =>
              \E j \in Jobs : At(j, "connect") /\ job[j].socket = x
        /\ \A j, k \in Jobs : job[j] # Idle /\ job[k] # Idle => j = k
        /\ \A j \in Jobs : At(j, "connect") => job[j] # Idle
    BY DEF Connected, OneOpen, Links, Sole, At, Idle
  <2>2. 0 \notin Sockets
    BY ClientAssumption DEF Sockets
  <2>3. CASE link[s] = "open"
    <3>1. s = socket /\ stage = "home" /\ \A j \in Jobs : ~At(j, "connect")
      BY <2>1, <2>2, <2>3
    <3> QED
      BY <2>1, <3>1
  <2>4. CASE link[s] = "connecting"
    <3>1. PICK j \in Jobs : At(j, "connect") /\ job[j].socket = s
      BY <2>1, <2>4
    <3>2. socket = 0 /\ stage = "home"
      BY <2>1, <3>1
    <3>3. \A t \in Sockets : link[t] = "connecting" => t = s
      BY <2>1, <3>1
    <3> QED
      BY <2>1, <2>2, <2>4, <3>2, <3>3
  <2> QED
    BY <2>3, <2>4
<1> QED
  BY <1>1, ConnectedAlways, PTL

-----------------------------------------------------------------------------
(* The selector shows the device in use. *)

\* What the client was told of was registered, and the device in use is in the list
\* and in the one that is about to replace it.
DevicesListed ==
    /\ \A d \in Devices : devices[d] # "none" => registered[d] # "none"
    /\ \A j \in Jobs : Answered(j, "devices") =>
          \A d \in Devices : job[j].answer[d] # "none" => registered[d] # "none"
    /\ ~overlapped /\ currentDevice # None =>
          /\ devices[currentDevice] # "none"
          /\ \A j \in Jobs : Answered(j, "devices") => job[j].answer[currentDevice] # "none"

\* A list of devices is answered by the server, with what is registered.
LEMMA AnswerSteps ==
    ASSUME Typed, [Next]_vars, NEW k \in Jobs, Answered(k, "devices")'
    PROVE  \/ Answered(k, "devices") /\ job'[k] = job[k]
           \/ job'[k].answer = registered /\ UNCHANGED <<deviceVars, registered, overlapped>>
<1>1. job'[k].at = "devices" /\ "answer" \in DOMAIN job'[k]
  BY DEF Answered, At
<1>2. CASE job'[k] = job[k]
  BY <1>1, <1>2 DEF Answered, At
<1>3. ASSUME NEW j \in Jobs, Settles(j) \/ Opening(j), \A x \in Jobs \ {j} : job'[x] = job[x],
             job'[k] # job[k]
      PROVE  job'[k].answer = registered /\ UNCHANGED <<deviceVars, registered, overlapped>>
  <2>1. k = j
    BY <1>3
  <2>2. ASSUME NEW r, Moves(j, r)
        PROVE  job'[j] = r
    BY <2>2 DEF Moves, Typed, JobsTyped
  <2>3. CASE Opening(j)
    <3>1. PICK r \in Connecting : Moves(j, r)
      BY <2>3 DEF Opening
    <3>2. r.at # "devices"
      BY DEF Connecting
    <3> QED
      BY <1>1, <2>1, <2>2, <3>1, <3>2
  <2>4. CASE PressLogout(j)
    <3>1. job'[j] = [at |-> "logout"]
      BY <2>4 DEF PressLogout, Begin, Typed, JobsTyped
    <3> QED
      BY <1>1, <2>1, <3>1
  <2>5. CASE Quiet(j)
    <3>1. PICK r \in (Plain \ {[at |-> "logout"]}) \cup Asking \cup Changing : Moves(j, r)
      BY <2>5 DEF Quiet
    <3>2. r.at = "devices" => r \in Asking
      BY DEF Plain, Changing
    <3>3. r \in Asking => DOMAIN r = {"at", "login"}
      BY DEF Asking
    <3> QED
      BY <1>1, <2>1, <2>2, <3>1, <3>2, <3>3
  <2>6. CASE ServerAnswers(j)
    <3> DEFINE a == CASE At(j, "devices")       -> registered
                      [] At(j, "conversations") -> ConversationNow
                      [] At(j, "inbox")         -> InboxNow
    <3>1. /\ Await(j, [at |-> job[j].at, login |-> job[j].login, answer |-> a])
          /\ UNCHANGED <<deviceVars, registered, overlapped>>
      BY <2>6 DEF ServerAnswers, Await, serverVars
    <3>2. At(j, "devices") => a = registered
      BY DEF At
    <3> HIDE DEF a
    <3>3. job'[j].at = job[j].at /\ job'[j].answer = a
      BY <3>1 DEF Await, Typed, JobsTyped
    <3> QED
      BY <1>1, <2>1, <3>1, <3>2, <3>3 DEF At
  <2> QED
    BY <1>3, <2>3, <2>4, <2>5, <2>6 DEF Settles
<1> QED
  BY <1>2, <1>3, OneMoves

\* A device that was registered once is in the account for ever.
LEMMA RegisteredKept ==
    ASSUME Typed, [Next]_vars
    PROVE  \A d \in Devices : registered[d] # "none" => registered'[d] # "none"
<1> USE DEF serverVars, Typed, DevicesTyped
<1>1. CASE UNCHANGED registered
  BY <1>1
<1>2. ASSUME NEW j \in Jobs, RevokeAnswered(j) \/ \E d \in Devices : RegisterAnswered(j, d)
      PROVE  \A d \in Devices : registered[d] # "none" => registered'[d] # "none"
  BY <1>2 DEF RevokeAnswered, RegisterAnswered
<1>3. ASSUME NEW d \in Devices, DeviceChanges(d)
      PROVE  \A x \in Devices : registered[x] # "none" => registered'[x] # "none"
  BY <1>3 DEF DeviceChanges
<1>4. ASSUME NEW j \in Jobs, DevicesAnswered(j) \/ ConversationsAnswered(j) \/ LogoutAnswered(j)
                             \/ \E d \in Devices : SelectDevice(j, d)
      PROVE  UNCHANGED registered
  BY <1>4 DEF DevicesAnswered, ConversationsAnswered, LogoutAnswered, SelectDevice
<1> QED
  BY <1>1, <1>2, <1>3, <1>4, DeviceSteps

\* Every step keeps the device in use listed.
LEMMA DevicesListedStep ==
    ASSUME Typed, Sole, DevicesListed, [Next]_vars
    PROVE  DevicesListed'
<1> DEFINE Known == \A d \in Devices : devices'[d] # "none" => registered'[d] # "none"
           Current == ~overlapped' /\ currentDevice' # None =>
                         /\ devices'[currentDevice'] # "none"
                         /\ \A k \in Jobs : Answered(k, "devices")' =>
                               job'[k].answer[currentDevice'] # "none"
<1>1. /\ \A d \in Devices : devices[d] # "none" => registered[d] # "none"
      /\ \A j \in Jobs : Answered(j, "devices") =>
            \A d \in Devices : job[j].answer[d] # "none" => registered[d] # "none"
      /\ \A d \in Devices : registered[d] # "none" => registered'[d] # "none"
      /\ overlapped => overlapped'
      /\ currentDevice \in Devices \cup {None}
      /\ currentDevice' \in Devices \cup {None}
      /\ devices \in [Devices -> DeviceStates] /\ registered \in [Devices -> DeviceStates]
  BY RegisteredKept, SoleStep, DevicesTypedStep DEF DevicesListed, Typed, DevicesTyped
<1>2. \A k \in Jobs : Answered(k, "devices")' =>
         \/ Answered(k, "devices") /\ job'[k] = job[k]
         \/ job'[k].answer = registered /\ UNCHANGED <<deviceVars, registered, overlapped>>
  BY AnswerSteps
<1>3. \A k \in Jobs : Answered(k, "devices")' =>
         \A d \in Devices : job'[k].answer[d] # "none" => registered'[d] # "none"
  BY <1>1, <1>2
<1>4. \A k \in Jobs : (Answered(k, "devices")' => job'[k] # Idle)
                      /\ (Answered(k, "devices") => job[k] # Idle)
  BY DEF Answered, At, Idle
<1>5. ~overlapped' => \A j, k \in Jobs : job[j] # Idle /\ job[k] # Idle => j = k
  BY <1>1 DEF Sole
<1>7. CASE UNCHANGED <<deviceVars, registered>>
  <2>1. Known
    BY <1>1, <1>7 DEF deviceVars
  <2>2. Current
    BY <1>1, <1>2, <1>7 DEF deviceVars, DevicesListed
  <2> QED
    BY <1>3, <2>1, <2>2 DEF DevicesListed
<1>8. ASSUME NEW j \in Jobs, DevicesAnswered(j)
      PROVE  Known /\ Current
  <2>1. /\ Answered(j, "devices") /\ devices' = job[j].answer
        /\ currentDevice' = currentDevice /\ registered' = registered
        /\ job' = [job EXCEPT ![j] = Ask("conversations")] /\ overlapped' = overlapped
    BY <1>8 DEF DevicesAnswered, Await, serverVars
  <2>2. Known
    BY <1>1, <2>1
  <2>3. \A k \in Jobs : ~overlapped' => ~Answered(k, "devices")'
    <3>1. ~Answered(j, "devices")'
      BY <2>1 DEF Answered, At, Ask, Typed, JobsTyped
    <3>2. \A k \in Jobs \ {j} : job'[k] = job[k]
      BY <2>1 DEF Typed, JobsTyped
    <3> QED
      BY <1>4, <1>5, <2>1, <3>1, <3>2
  <2>4. Current
    BY <1>1, <2>1, <2>3 DEF DevicesListed
  <2> QED
    BY <2>2, <2>4
<1>9. ASSUME NEW j \in Jobs, NEW d \in Devices \cup {None}, job[j] # Idle, ~Answered(j, "devices")',
             \A k \in Jobs \ {j} : job'[k] = job[k], Known,
             currentDevice' = d, d # None => devices'[d] # "none"
      PROVE  Known /\ Current
  <2>1. \A k \in Jobs : ~overlapped' => ~Answered(k, "devices")'
    BY <1>4, <1>5, <1>9
  <2> QED
    BY <1>9, <2>1
<1>10. ASSUME NEW j \in Jobs, ConversationsAnswered(j)
       PROVE  Known /\ Current
  <2>1. /\ Answered(j, "conversations") /\ job'[j].at \in {"idle", "inbox", "connect", "leave"}
        /\ UNCHANGED <<devices, registered>>
        /\ currentDevice' \in Reconciled
    BY <1>10, ConversationsEffect DEF ConversationsAnswered, serverVars
  <2>2. job[j] # Idle /\ ~Answered(j, "devices")' /\ job'[j] # job[j]
    BY <2>1 DEF Answered, At, Idle
  <2>3. \A k \in Jobs \ {j} : job'[k] = job[k]
    BY <2>2, OneMoves
  <2>4. Known
    BY <1>1, <2>1
  <2>5. currentDevice' = None \/ devices[currentDevice'] = "active" \/ ~(currentDevice' \in Devices)
    BY <2>1 DEF Reconciled
  <2> QED
    BY <1>1, <1>9, <2>1, <2>2, <2>3, <2>4, <2>5
<1>11. ASSUME NEW j \in Jobs, LogoutAnswered(j)
       PROVE  Known /\ Current
  BY <1>11 DEF LogoutAnswered, Forget, NoDevices
<1>12. ASSUME NEW j \in Jobs, RevokeAnswered(j)
       PROVE  Known /\ Current
  <2>1. /\ At(j, "revoke") /\ devices' = devices /\ currentDevice' \in {currentDevice, None}
        /\ overlapped' = overlapped
        /\ \/ job' = [job EXCEPT ![j] = Ask("devices")]
           \/ job' = [job EXCEPT ![j] = [at |-> "revoked"]]
    BY <1>12 DEF RevokeAnswered, Asked, Await
  <2>2. job[j] # Idle /\ ~Answered(j, "devices")' /\ \A k \in Jobs \ {j} : job'[k] = job[k]
    BY <2>1 DEF At, Idle, Answered, Ask, Typed, JobsTyped
  <2>3. Known
    BY <1>1, <2>1
  <2>4. ~overlapped' /\ currentDevice' # None => devices'[currentDevice'] # "none"
    BY <2>1 DEF DevicesListed
  <2> QED
    BY <1>1, <1>9, <2>2, <2>3, <2>4
<1>13. ASSUME NEW j \in Jobs, NEW d \in Devices, RegisterAnswered(j, d)
       PROVE  Known /\ Current
  <2>1. /\ At(j, "register") /\ currentDevice' = d
        /\ devices' = [devices EXCEPT ![d] = "active"]
        /\ registered' = [registered EXCEPT ![d] = "active"]
        /\ Connect(j, d, TRUE)
    BY <1>13 DEF RegisterAnswered, Asked
  <2>2. job[j] # Idle /\ job[j].at # "connect"
    BY <2>1 DEF At, Idle
  <2>3. \E r \in Plain \cup Asking \cup Connecting :
           Moves(j, r) /\ (r \in Plain => r = Idle) /\ (r \in Asking => r = Ask("inbox"))
    <3>1. \/ \E r \in Plain \cup Asking : Moves(j, r) /\ (r = Idle \/ r = Ask("inbox"))
          \/ Opening(j)
      BY <2>1, <2>2, ConnectEffect
    <3>2. Idle \notin Asking /\ Ask("inbox") \notin Plain
          /\ \A r \in Connecting : r \notin Plain /\ r \notin Asking
      BY DEF Idle, Ask, Plain, Asking, Connecting
    <3> QED
      BY <3>1, <3>2 DEF Opening
  <2>4. ~Answered(j, "devices")' /\ \A k \in Jobs \ {j} : job'[k] = job[k]
    <3>1. PICK r \in Plain \cup Asking \cup Connecting :
             Moves(j, r) /\ (r \in Plain => r = Idle) /\ (r \in Asking => r = Ask("inbox"))
      BY <2>3
    <3>2. r.at # "devices"
      BY <3>1 DEF Idle, Ask, Connecting
    <3> QED
      BY <3>1, <3>2 DEF Moves, Answered, At, Typed, JobsTyped
  <2>5. Known
    BY <1>1, <2>1
  <2>6. devices'[d] # "none"
    BY <1>1, <2>1
  <2> QED
    BY <1>9, <2>1, <2>2, <2>4, <2>5, <2>6
<1>14. ASSUME NEW j \in Jobs, NEW d \in Devices, SelectDevice(j, d)
       PROVE  Known /\ Current
  <2>1. /\ job[j] = Idle /\ stage = "home" /\ devices[d] = "active" /\ currentDevice' = d
        /\ Connect(j, d, TRUE) /\ devices' = devices /\ registered' = registered
    BY <1>14 DEF SelectDevice, Press, serverVars
  <2>2. job[j].at # "connect" /\ d # None
    BY <2>1, ClientAssumption DEF Idle
  <2>3. Opening(j)
    BY <2>1, <2>2, ConnectEffect
  <2>4. PICK r \in Connecting : Moves(j, r) /\ r # Idle
    BY <2>3 DEF Opening, Connecting, Idle
  <2>5. overlapped' = (overlapped \/ \E k \in Jobs \ {j} : job[k] # Idle)
    BY <2>1, <2>4 DEF Moves
  <2>6. ~overlapped' => \A k \in Jobs : ~Answered(k, "devices")'
    <3>1. ~Answered(j, "devices")' /\ \A k \in Jobs \ {j} : job'[k] = job[k]
      BY <2>4 DEF Moves, Connecting, Answered, At, Typed, JobsTyped
    <3> QED
      BY <1>4, <2>5, <3>1
  <2>7. Known
    BY <1>1, <2>1
  <2> QED
    BY <2>1, <2>6, <2>7
<1>15. ASSUME NEW d \in Devices, DeviceChanges(d)
       PROVE  Known /\ Current
  <2>1. UNCHANGED <<devices, currentDevice, job, overlapped>>
    BY <1>15 DEF DeviceChanges, deviceVars
  <2>2. Known
    BY <1>1, <2>1
  <2>3. Current
    BY <2>1 DEF DevicesListed, Answered, At
  <2> QED
    BY <2>2, <2>3
<1>16. Known /\ Current => DevicesListed'
  BY <1>3 DEF DevicesListed
<1> HIDE DEF Known, Current
<1> QED
  BY <1>7, <1>8, <1>10, <1>11, <1>12, <1>13, <1>14, <1>15, <1>16, DeviceSteps

\* A job that changes takes a step of its own.
LEMMA JobChanges ==
    ASSUME Typed, [Next]_vars, NEW k \in Jobs, job'[k] # job[k]
    PROVE  JobStep(k) \/ Pressed(k)
<1>1. ASSUME NEW j \in Jobs, JobStep(j) \/ Pressed(j)
      PROVE  j = k
  <2>1. PICK r : Moves(j, r)
    BY <1>1, JobMoves DEF Settles, Other, Opening
  <2> QED
    BY <2>1 DEF Moves, Typed, JobsTyped
<1>2. ASSUME NEW m \in Incoming, MarkMessageRead(m)
      PROVE  FALSE
  BY <1>2 DEF MarkMessageRead
<1>3. ASSUME NEW s \in Sockets, EventHeard(s)
      PROVE  FALSE
  BY <1>3 DEF EventHeard, HearBound, HearDone, HearMailbox, HearDelivered, HearAck
<1>4. ASSUME NEW m \in Messages, MailComes(m) \/ MailTaken(m)
      PROVE  FALSE
  BY <1>4 DEF MailComes, MailTaken
<1>5. ASSUME NEW d \in Devices, DeviceChanges(d)
      PROVE  FALSE
  BY <1>5 DEF DeviceChanges
<1>6. CASE UNCHANGED vars
  BY <1>6 DEF vars
<1> QED
  BY <1>1, <1>2, <1>3, <1>4, <1>5, <1>6 DEF Next

\* Only the handler of the answer about conversations takes it.
LEMMA ConversationsTaken ==
    ASSUME Typed, [Next]_vars, NEW j \in Jobs, Takes(j, "conversations")
    PROVE  ConversationsAnswered(j)
<1>1. /\ job[j].at = "conversations" /\ "answer" \in DOMAIN job[j]
      /\ job'[j] # job[j] /\ job'[j] # Idle /\ job[j] # Idle
  BY DEF Takes, Answered, At, Idle
<1>2. ~Pressed(j)
  BY <1>1 DEF Pressed, PressLogin, PressLogout, PressRefresh, PressConnect, PressRegister,
              PressContact, SelectDevice, PressRevoke, PressSend, Press
<1>3. ~Fails(j)
  BY <1>1 DEF Fails, End, Typed, JobsTyped
<1>4. ~ServerAnswers(j)
  BY <1>1 DEF ServerAnswers
<1>5. ConversationsAnswered(j)
  BY <1>1, <1>2, <1>3, <1>4, JobChanges
     DEF JobStep, LoginAnswered, LogoutAnswered, DevicesAnswered, InboxAnswered, LeaveClosed,
         SocketOpens, RevokeAnswered, RevokeClosed, PostAnswered, ContactAnswered,
         RegisterAnswered, Answered, Asked, At
<1> QED
  BY <1>5

\* The device that _reconcileCurrentDeviceId leaves in use is one to select.
LEMMA ReconciledShown ==
    ASSUME NEW j, ConversationsAnswered(j)
    PROVE  InSelector'
<1>1. devices' = devices /\ currentDevice' \in Reconciled
  BY DEF ConversationsAnswered
<1>2. currentDevice' = None \/ devices[currentDevice'] = "active"
  BY <1>1 DEF Reconciled
<1> QED
  BY <1>1, <1>2 DEF InSelector

\* Unless two jobs overlapped, the device in use leaves the selector only when a
\* refresh lists it as revoked, and it is one to select again once the answer about
\* the conversations is taken, after whatever events and failed refreshes.
THEOREM SelectorShowsCurrent == Spec => SelectorFollows
<1>1. Init => DevicesListed
  BY DEF Init, NoDevices, DevicesListed, Answered, At, Idle
<1>2. Typed /\ Sole /\ DevicesListed /\ [Next]_vars => DevicesListed'
  BY DevicesListedStep
<1>3. Connected => Typed /\ Sole
  BY DEF Connected
<1> DEFINE Loses(j) == /\ Takes(j, "devices")
                       /\ overlapped \/ devices'[currentDevice] = "revoked"
           Follows == /\ InSelector => InSelector' \/ \E j \in Jobs : Loses(j)
                      /\ (\E j \in Jobs : Takes(j, "conversations")) => InSelector'
<1>4. ASSUME Typed, DevicesListed, [Next]_vars, InSelector
      PROVE  InSelector' \/ \E j \in Jobs : Loses(j)
  <2>1. CASE UNCHANGED <<devices, currentDevice>>
    BY <1>4, <2>1 DEF InSelector
  <2>2. ASSUME NEW j \in Jobs, DevicesAnswered(j)
        PROVE  InSelector' \/ Loses(j)
    <3>1. /\ Answered(j, "devices") /\ currentDevice' = currentDevice
          /\ devices' = job[j].answer /\ job'[j] = Ask("conversations")
      BY <1>4, <2>2 DEF DevicesAnswered, Await, Typed, JobsTyped
    <3>2. Takes(j, "devices")
      BY <3>1 DEF Takes, Answered, At, Ask, Idle
    <3>3. devices' \in [Devices -> DeviceStates] /\ currentDevice \in Devices \cup {None}
      BY <1>4, DevicesTypedStep DEF DevicesTyped, Typed
    <3>4. ~overlapped /\ currentDevice # None => devices'[currentDevice] # "none"
      BY <1>4, <3>1 DEF DevicesListed
    <3>5. \/ currentDevice = None \/ devices'[currentDevice] = "active"
          \/ overlapped \/ devices'[currentDevice] = "revoked"
      BY <3>3, <3>4 DEF DeviceStates
    <3> QED
      BY <3>1, <3>2, <3>5 DEF InSelector
  <2>3. ASSUME NEW j \in Jobs, ConversationsAnswered(j)
        PROVE  InSelector'
    BY <2>3, ReconciledShown
  <2>4. ASSUME NEW j \in Jobs, LogoutAnswered(j)
        PROVE  InSelector'
    BY <2>4 DEF LogoutAnswered, Forget, InSelector
  <2>5. ASSUME NEW j \in Jobs, RevokeAnswered(j)
        PROVE  InSelector'
    <3>1. devices' = devices /\ currentDevice' \in {currentDevice, None}
      BY <2>5 DEF RevokeAnswered
    <3> QED
      BY <1>4, <3>1 DEF InSelector
  <2>6. ASSUME NEW j \in Jobs, NEW d \in Devices, SelectDevice(j, d) \/ RegisterAnswered(j, d)
        PROVE  InSelector'
    <3>1. currentDevice' = d /\ devices'[d] = "active"
      BY <1>4, <2>6 DEF SelectDevice, RegisterAnswered, Typed, DevicesTyped
    <3> QED
      BY <3>1 DEF InSelector
  <2>7. ASSUME NEW d \in Devices, DeviceChanges(d)
        PROVE  UNCHANGED <<devices, currentDevice>>
    BY <2>7 DEF DeviceChanges, deviceVars
  <2> HIDE DEF Loses
  <2> QED
    BY <1>4, <2>1, <2>2, <2>3, <2>4, <2>5, <2>6, <2>7, DeviceSteps DEF deviceVars
<1>5. ASSUME Typed, DevicesListed, [Next]_vars
      PROVE  Follows
  BY <1>4, <1>5, ConversationsTaken, ReconciledShown
<1>6. Typed /\ DevicesListed /\ [Next]_vars => [Follows]_vars
  BY <1>5
<1> QED
  BY <1>1, <1>2, <1>3, <1>6, ConnectedAlways, PTL DEF Spec, SelectorFollows

-----------------------------------------------------------------------------
(* The record of the conversation. *)

\* The unread messages of a list.
UnreadOf(list) == {n \in DOMAIN list : list[n].status # "read"}

\* Lists are finite.
LEMMA ListsFinite ==
    ASSUME Typed
    PROVE  /\ IsFiniteSet(DOMAIN inbox) /\ IsFiniteSet(DOMAIN sent)
           /\ Cardinality(DOMAIN inbox) \in Nat /\ Cardinality(DOMAIN sent) \in Nat
<1>1. DOMAIN inbox \in SUBSET Messages /\ DOMAIN sent \in SUBSET Messages
  BY DEF Typed, ListsTyped, Messages
<1> QED
  BY <1>1, ClientAssumption, FS_Subset, FS_CardinalityType

\* What others wrote is never taken for the user's own, before or after a logout.
LEMMA PeerUnread ==
    ASSUME Typed, NEW r, r.senderEmail = Peer
    PROVE  Unread(r) = IF r.status # "read" THEN 1 ELSE 0
BY ClientAssumption DEF Unread, Typed, LoginsTyped, Emails

\* Where the record agrees with the lists, there is none only if they are empty, so
\* that the update that makes one agrees with the one that corrects one.
LEMMA SyncedCounted ==
    ASSUME Typed, Counted, NEW list \in {inbox, sent}, NEW m, NEW r
    PROVE  LET now == conversation.unread + Unread(r) - UnreadBefore(list, m)
           IN  Synced(list, m, r) =
                 [count  |-> conversation.count + (IF m \in DOMAIN list THEN 0 ELSE 1),
                  unread |-> IF now < 0 THEN 0 ELSE now]
<1> DEFINE now == conversation.unread + Unread(r) - UnreadBefore(list, m)
<1>1. CASE conversation # NoRecord
  BY <1>1 DEF Synced
<1>2. CASE conversation = NoRecord
  <2>1. conversation.count = 0 /\ conversation.unread = 0
    BY <1>2 DEF NoRecord
  <2>2. conversation.count = Cardinality(DOMAIN inbox) + Cardinality(DOMAIN sent)
    BY DEF Counted
  <2>3. Cardinality(DOMAIN inbox) = 0 /\ Cardinality(DOMAIN sent) = 0
    BY <2>1, <2>2, ListsFinite
  <2>4. m \notin DOMAIN list
    BY <2>3, ListsFinite, FS_EmptySet
  <2>5. UnreadBefore(list, m) = 0 /\ Unread(r) \in {0, 1}
    BY <2>4 DEF UnreadBefore, Unread
  <2>6. now = Unread(r) /\ (IF now < 0 THEN 0 ELSE now) = Unread(r)
    BY <2>1, <2>5
  <2>7. conversation.count + (IF m \in DOMAIN list THEN 0 ELSE 1) = 1
    BY <2>1, <2>4
  <2>8. Synced(list, m, r) = [count |-> 1, unread |-> Unread(r)]
    BY <1>2 DEF Synced
  <2> HIDE DEF now
  <2> QED
    BY <2>6, <2>7, <2>8 DEF now
<1> QED
  BY <1>1, <1>2

\* A message that gets a record in the inbox: the list and its unread messages grow
\* or shrink by what _syncConversationFromMessage adds to the record.
LEMMA InboxCount ==
    ASSUME Typed, NEW m \in Incoming, NEW r, r.senderEmail = Peer
    PROVE  LET next == With(inbox, m, r)
           IN  /\ Cardinality(DOMAIN next) =
                      Cardinality(DOMAIN inbox) + (IF m \in DOMAIN inbox THEN 0 ELSE 1)
               /\ Cardinality(UnreadOf(next)) =
                      Cardinality(UnreadOf(inbox)) + Unread(r) - UnreadBefore(inbox, m)
               /\ Cardinality(UnreadOf(next)) \in Nat
<1> DEFINE next == With(inbox, m, r)
           U == UnreadOf(inbox)
<1>1. /\ DOMAIN next = DOMAIN inbox \cup {m} /\ next[m] = r
      /\ \A n \in DOMAIN inbox \ {m} : next[n] = inbox[n]
  BY DEF With
<1>2. IsFiniteSet(U)
  <2>1. U \in SUBSET DOMAIN inbox
    BY DEF UnreadOf
  <2> QED
    BY <2>1, ListsFinite, FS_Subset
<1>3. UnreadOf(next) = IF r.status # "read" THEN U \cup {m} ELSE U \ {m}
  BY <1>1 DEF UnreadOf
<1>4. Unread(r) = IF r.status # "read" THEN 1 ELSE 0
  BY PeerUnread
<1>5. UnreadBefore(inbox, m) = IF m \in U THEN 1 ELSE 0
  <2>1. CASE m \in DOMAIN inbox
    <3>1. inbox[m].senderEmail = Peer
      BY <2>1 DEF Typed, ListsTyped, InRecord
    <3> QED
      BY <2>1, <3>1, PeerUnread DEF UnreadBefore, UnreadOf
  <2>2. CASE m \notin DOMAIN inbox
    BY <2>2 DEF UnreadBefore, UnreadOf
  <2> QED
    BY <2>1, <2>2
<1> HIDE DEF next, U
<1>6. /\ Cardinality(U \cup {m}) = IF m \in U THEN Cardinality(U) ELSE Cardinality(U) + 1
      /\ Cardinality(U \ {m}) = IF m \in U THEN Cardinality(U) - 1 ELSE Cardinality(U)
      /\ IsFiniteSet(U \cup {m}) /\ IsFiniteSet(U \ {m})
  BY <1>2, FS_AddElement, FS_RemoveElement
<1>7. /\ Cardinality(U) \in Nat /\ Cardinality(U \cup {m}) \in Nat /\ Cardinality(U \ {m}) \in Nat
      /\ Cardinality(DOMAIN inbox) \in Nat
  BY <1>2, <1>6, ListsFinite, FS_CardinalityType
<1>8. Cardinality(UnreadOf(next)) = Cardinality(U) + Unread(r) - UnreadBefore(inbox, m)
  BY <1>3, <1>4, <1>5, <1>6, <1>7
<1>9. Cardinality(DOMAIN next) = Cardinality(DOMAIN inbox) + (IF m \in DOMAIN inbox THEN 0 ELSE 1)
  <2>1. Cardinality(DOMAIN inbox \cup {m}) =
           IF m \in DOMAIN inbox THEN Cardinality(DOMAIN inbox) ELSE Cardinality(DOMAIN inbox) + 1
    BY ListsFinite, FS_AddElement
  <2> QED
    BY <1>1, <1>7, <2>1
<1>10. Cardinality(UnreadOf(next)) \in Nat
  BY <1>3, <1>7
<1> QED
  BY <1>8, <1>9, <1>10 DEF next, U

\* A received message that comes or gets another status keeps the record right.
LEMMA InboxCounted ==
    ASSUME Typed, Counted, NEW m \in Incoming, NEW st, UpsertInbox(m, st)
    PROVE  Counted'
<1> DEFINE r    == MessageRecord(st, Peer)
           now  == conversation.unread + Unread(r) - UnreadBefore(inbox, m)
           plus == IF m \in DOMAIN inbox THEN 0 ELSE 1
<1>1. inbox' = With(inbox, m, r) /\ sent' = sent /\ conversation' = Synced(inbox, m, r)
  BY DEF UpsertInbox
<1>2. /\ conversation.count = Cardinality(DOMAIN inbox) + Cardinality(DOMAIN sent)
      /\ conversation.unread = Cardinality(UnreadOf(inbox))
  BY DEF Counted, UnreadOf
<1>3. r.senderEmail = Peer
  BY DEF MessageRecord
<1>4. conversation' = [count |-> conversation.count + plus, unread |-> IF now < 0 THEN 0 ELSE now]
  BY <1>1, SyncedCounted
<1>5. /\ Cardinality(DOMAIN inbox') = Cardinality(DOMAIN inbox) + plus
      /\ Cardinality(UnreadOf(inbox')) = now
      /\ Cardinality(UnreadOf(inbox')) \in Nat
  BY <1>1, <1>2, <1>3, InboxCount
<1>6. Cardinality(DOMAIN inbox) \in Nat /\ Cardinality(DOMAIN sent) \in Nat /\ plus \in Nat
  BY ListsFinite
<1> HIDE DEF now, plus
<1>7. (IF now < 0 THEN 0 ELSE now) = Cardinality(UnreadOf(inbox'))
  BY <1>5
<1>8. conversation.count + plus = Cardinality(DOMAIN inbox') + Cardinality(DOMAIN sent')
  BY <1>1, <1>2, <1>5, <1>6
<1> QED
  BY <1>4, <1>7, <1>8 DEF Counted, UnreadOf

\* And so does a message that is sent, or news of one, if it is taken for the user's
\* own then and was before: it is never unread.
LEMMA SentCounted ==
    ASSUME Typed, Counted, KnowsOwn, KnowsOwn', ownEmail' = ownEmail,
           NEW m \in Outgoing, NEW r, UpsertSent(m, r)
    PROVE  Counted'
<1> DEFINE plus == IF m \in DOMAIN sent THEN 0 ELSE 1
<1>1. conversation.unread = Cardinality(UnreadOf(inbox)) /\ conversation.unread \in Nat
      /\ conversation.count = Cardinality(DOMAIN inbox) + Cardinality(DOMAIN sent)
  BY DEF Counted, UnreadOf, Typed, ListsTyped, Record
<1>2. /\ sent' = With(sent, m, r) /\ inbox' = inbox
      /\ conversation' = Synced(sent, m, r)
  BY DEF UpsertSent
<1>3. DOMAIN sent' = DOMAIN sent \cup {m} /\ sent'[m] = r
  BY <1>2 DEF With
<1>4. Unread(r) = 0
  BY <1>3 DEF KnowsOwn, Unread
<1>5. UnreadBefore(sent, m) = 0
  BY DEF KnowsOwn, Unread, UnreadBefore
<1>6. conversation' = [count |-> conversation.count + plus, unread |-> conversation.unread]
  BY <1>1, <1>2, <1>4, <1>5, SyncedCounted
<1>7. Cardinality(DOMAIN sent') = Cardinality(DOMAIN sent) + plus
  BY <1>3, ListsFinite, FS_AddElement
<1>8. conversation.count + plus = Cardinality(DOMAIN inbox') + Cardinality(DOMAIN sent')
  BY <1>1, <1>2, <1>7, ListsFinite
<1> QED
  BY <1>1, <1>2, <1>6, <1>8 DEF Counted, UnreadOf

\* Whatever events, sends, answers, receipts, logins and logouts there are, and in
\* whatever order, a record that agrees with the lists goes on doing so while the
\* client knows its own messages, but for a refresh, which replaces one alone.
THEOREM CountAgrees == Spec => CountKept
<1> DEFINE Keeps == Counted /\ KnowsOwn /\ KnowsOwn' => Counted' \/ \E j \in Jobs : Replaces(j)
<1>1. ASSUME Typed, [Next]_vars, Counted, KnowsOwn, KnowsOwn'
      PROVE  Counted' \/ \E j \in Jobs : Replaces(j)
  <2>1. CASE UNCHANGED listVars
    BY <1>1, <2>1 DEF listVars, Counted
  <2>2. ASSUME NEW m \in Incoming, NEW st \in Shown, UpsertInbox(m, st)
        PROVE  Counted'
    BY <1>1, <2>2, InboxCounted
  <2>3. ASSUME NEW m \in Outgoing, NEW r \in OutRecord, UpsertSent(m, r), ownEmail' = ownEmail
        PROVE  Counted'
    BY <1>1, <2>3, SentCounted
  <2>4. ASSUME NEW j \in Jobs, ConversationsAnswered(j)
        PROVE  Replaces(j)
    <3>1. Answered(j, "conversations") /\ job'[j].at \in {"idle", "inbox", "connect", "leave"}
      BY <1>1, <2>4, ConversationsEffect
    <3>2. job'[j] # job[j]
      BY <3>1 DEF Answered, At
    <3> QED
      BY <3>1, <3>2 DEF Replaces
  <2>5. ASSUME NEW j \in Jobs, InboxAnswered(j) \/ LeaveClosed(j)
        PROVE  Replaces(j)
    <3>1. Answered(j, "inbox") \/ At(j, "leave")
      BY <2>5 DEF InboxAnswered, LeaveClosed
    <3>2. job' = [job EXCEPT ![j] = Idle]
      BY <2>5 DEF InboxAnswered, LeaveClosed, End
    <3>3. job'[j] # job[j]
      BY <1>1, <3>1, <3>2 DEF Answered, At, Idle, Typed, JobsTyped
    <3> QED
      BY <3>1, <3>3 DEF Replaces
  <2>6. ASSUME NEW j \in Jobs, LogoutAnswered(j)
        PROVE  Counted'
    <3>1. /\ DOMAIN inbox' = {} /\ DOMAIN sent' = {} /\ UnreadOf(inbox') = {}
          /\ conversation' = [count |-> 0, unread |-> 0]
      BY <2>6 DEF LogoutAnswered, Forget, NoMessages, NoRecord, UnreadOf
    <3> QED
      BY <3>1, FS_EmptySet DEF Counted, UnreadOf
  <2> QED
    BY <1>1, <2>1, <2>2, <2>3, <2>4, <2>5, <2>6, ListSteps
<1>2. Typed /\ [Next]_vars => [Keeps]_vars
  BY <1>1
<1>3. Connected => Typed
  BY DEF Connected
<1> QED
  BY <1>2, <1>3, ConnectedAlways, PTL DEF Spec, CountKept

=============================================================================
