# circle-link in TLA+

A specification of the circle-link server (`src/server`, Go) and of what its
parts promise each other, model-checked with TLC and, all but liveness and one use of ENABLED,
proved with TLAPS. Line numbers refer to the files as they stand in `src/`.

## 1. The system

circle-link is a messenger. Clients (Flutter, `src/client`) talk to one Go server
over HTTP and over one websocket per device. The server keeps everything in
memory; each service guards its state with one mutex, and handlers call several
services one after the other without a lock around the whole.

| Part | State | Operations |
| --- | --- | --- |
| message service, `service/message/memory.go` | `messageByID`, the inbox and conversation indexes, `subscribersByUser` with one channel of 8 each | `Send`, `Acknowledge`, `SubscribeInbox` and its cancel, `ListInbox`, `ListConversations` |
| websocket relay, `httpapi/ws_hub.go`, `ws_handlers.go` | hub: the session of a device, the pending acknowledgement of a message; per connection a send channel of 16 | bind, unbind; the read loop (`message.send`, `message.ack`, `ping`, others); forwarder goroutine; writer goroutine |
| message payloads, `httpapi/message_payload.go` | none | which field of a request gives the body and the conversation; `sendDebugMessage`: presence lookup, then `Send` |
| HTTP messages, `httpapi/message_handlers.go` | none | send, list inbox, list conversations; the server-sent event stream (subscribe, list a snapshot, forward) |
| contacts, `service/contact/memory.go`, `contact_handlers.go` | one record per ordered pair of users | `Invite`, `Accept`, `Reject`, `List` |
| auth, `service/auth/memory.go`, `auth_handlers.go` | accounts, verification tokens, access sessions, refresh tokens | `SignUp`, `VerifyEmail`, `Login`, `RefreshSession`, `Logout`, `ChangePassword`, `AuthenticateAccessToken` |
| devices, `service/device/memory.go`, `device_handlers.go` | `devicesByID`, `deviceIDsByUID` | `Register`, `List`, `Revoke` |
| request plumbing, `router.go`, `response.go`, `helpers.go` | none | routing, `requireAccessSession`, envelopes |
| client controller, `client/lib/app/app_controller.dart` | session, devices, inbox, sent messages, conversations, connection flag | log in, connect, send, acknowledge, merge relay events |
| client sockets and repositories, `ws_client.dart`, `*_api_repository.dart` | one socket | connect, disconnect, send or fall back to HTTP |
| not stateful | | configuration, ids, hashing, debug page, protocol schemas, the mailbox and relay interfaces without implementation, `cmd/` |

How they meet. A `message.send` handler reads the hub (who is online), calls
`Send` (which stores under the mutex, then offers the message to the recipient's
channels without it), records itself in the hub as waiting for news, and pushes
`accepted` into its own send channel. The recipient's forwarder takes the
message from the stream and pushes it into that session's send channel; its
writer puts it on the socket. A `message.ack` updates the store, reads the hub,
and the recipient's handler goroutine pushes the news into the *sender's* send
channel. A binding connection registers in the hub, subscribes, lists the
mailbox, pushes the mailbox and `session.bound` into its own channel, and only
then starts forwarder and writer. Teardown is three deferred calls: `unbind`,
`cancel`, `conn.Close`. The event stream over HTTP does the same with one goroutine:
subscribe, list, write the list, then write what the stream delivers.

What is hard. Several goroutines per connection with bounded channels between
them; the gap between `Send`'s unlock and its fan-out; presence and pending
entries that are read in one lock region and used in a later one; connections of
one device that overlap; handlers that authenticate and act in two steps;
refresh tokens that must work once; relationships kept in two records. Nothing is
persisted, so there is no recovery to model; nothing is retried by the server.

What makes each part correct. *Message service*: store and indexes agree, streams
get what they are owed, `Send` neither waits nor dies, an acknowledged message
stays with its device, a conversation's summary is that of its messages. *Relay*: a bound client misses nothing, the greeting comes
first, acknowledgements are truthful and reach the sender, the hub names live
connections, handlers finish. *Contacts*: both records agree, buttons do what
they say. *Auth*: one account per email, one usable refresh token per login, an
ended login stays ended. *Devices*: lists and records agree, revocation is for
good, only an owner binds. *Client*: session, tokens and binds are of one login, the connection
shown is one that was bound, the device in use can be selected, and the conversation
record says what the lists hold between one refresh and the next. (That a refresh merges
with live events without loss, and that statuses never go back, would be right too, but
does not hold; see section 3.)

`PROJECT.json` lists the hazards one by one at their lines, each with the
properties aimed at it.

## 2. Modules

| Module | Models | Code correspondence |
| --- | --- | --- |
| `MessageService` | the message service | a method under the mutex is one action; `Send` is `Store` (under the mutex), one `FanOut...` per copied subscriber, `Return`. `sends[t]` is a goroutine's local state: the message and the channels it has left. `FanOutPanic` is a send on a closed channel; `CutShort` says which streams it keeps the message from. |
| `MessageStreams` | the service under its readers, the handlers of the event stream | `snapshot[s]` is what the handler of stream `s` listed after it subscribed; `Listing`, `Streaming` and `StreamEnds` are the parts of the handler. What readers received, were owed and lost to a full channel is kept as history. Acknowledgements, which touch no stream, are left out of its `Next`. |
| `Conversations` | the payload of a send and `ListConversations`, composed with `MessageService` by EXTENDS | `FormOf` says how a client writes its requests; `Parsed` is `parseMessagePayload`, done before the lock; `ListConversations(u)` is the code's loop over the user's index, which `SummariesExact` compares with a definition over the stored messages |
| `WsRelay` | hub, handlers, forwarders, writers, composed with `MessageService` by EXTENDS | one action per lock region or channel operation; `pc[c]` is the place in `websocketHandler`. A connection is its own subscription and its own caller of `Send`; `Requests` are HTTP sends. |
| `StreamPromise` | abstract: what readers are promised, given, have taken and missed | what `MessageStreams` implements: no users, devices, goroutines or channels |
| `ContactPairs` | abstract: a set of open invitations and a friendship relation | what the contact service promises, without records |
| `Contacts` | the contact records and what the list shows | one action per service method; errors change nothing and are the absence of a step |
| `Auth` | the auth service | one action per method; a session's access and refresh token are both its number |
| `Logins` | abstract: logins, each with one token until it ends | what the refresh tokens of `Auth` implement |
| `Accounts` | `Auth` with devices, authenticated requests and the checks of `session.bind` | a request is `Authorize` then its action; a bind is authenticate, check device, bind |
| `Client` | app controller, chat repository, socket | a job is what `_run` wraps; one action from one wait for the network to the next (Dart runs one callback at a time). `Press...` is a button, `...Answered` the code after an `await`, `...Closed` what follows the closing of a socket, `Hear...` an event of the relay, `Fails` an exception. A message in the lists keeps the address of its sender, which `Unread` compares with what was typed at the login. The server is an environment. |
| `MC...` | instances: small sets, symmetry | |
| `MessageServiceProofs`, `MessageStreamsProofs`, `ConversationsProofs`, `WsRelayProofs`, `WsRelayEventProofs`, `ContactsProofs`, `AccountsProofs`, `ClientProofs` | theorems and proofs of the module of that name (`WsRelayEventProofs`: what `WsRelay`'s clients receive) | |

Abstractions. A message is its id, users, device, status and whether it has each
receipt; `Conversations` adds its conversation, its body and the clock at which it was
sent, and the fields a request came with. Events on a socket are
their kind, message, status and device. A handler may still read what its client sent
before the connection broke; a frame that cannot be parsed, which ends the handler with its
connection up, is sent only by clients that may leave. Passwords, tokens and emails are
members of small sets; `Normal` is what `normalizeEmail` does to an address.
Session expiry is a clock that ticks to `MaxTime`; with both lifetimes zero, a
tick expires every token issued before it, which is all a lookup can tell. An
error reply changes no state; the ones that do push an event (`ReadOther`) or
delete something (`RefreshExpired`) are actions. `Operator_Variant` definitions
are plausible wrong versions of the operator of that name; no specification uses
them: put in the operator's place, each makes a run find a property violated.

## 3. Runs

Runs that must pass (states are distinct ones, after symmetry):

| Run | Question | States |
| --- | --- | --- |
| `MessageStore` | Do the store, the indexes, the subscriber map and the streams stay consistent while the operations interleave, also when an id is sent again, and can `Send` always go on? | 86 k |
| `MessageStreams` | Does every reader get what it is owed, from the listing or the stream, each stream message once, in each sender's order, except what a full channel drops and what a `Send` that panicked cuts off, and does all this implement `StreamPromise`? | 601 k |
| `Conversations` | Do the summaries count, date and preview what is stored, does a body reach the recipient whatever field it came in, and does an unread count move only for a reason? | 124 k |
| `Relay` | What a client is shown and told, in three scenarios: one sender and a recipient that may leave, small channels; two connections of one device that overlap in every way; two devices that race for one message. | 1.56 M |
| `RelayLive` | Liveness of sending, binding and teardown. | 32 k |
| `Contacts` | Record agreement, buttons, refinement of `ContactPairs`, four users. | 16 k |
| `Accounts` | Accounts, tokens, devices and binding; refresh tokens as an implementation of `Logins`. | 829 k |
| `Client` | The client while jobs overlap, closed connections speak and answers come late: logins, the connection and its flag, the device in use, the conversation record. | 1.37 M |

Runs that show a disagreement between the code and what the repository says of
it; each checks one property and TLC finds it violated:

| Run | What it shows |
| --- | --- |
| `SendOnClosed` / `SendReturns` | `Send` uses a copied subscriber whose channel `cancel` closed in between (`memory.go:86,94,215`) and panics; the sender never gets its answer, and the streams further on in the fan-out never get the message. The HTTP server recovers the panic, so the process lives on. |
| `FullMailbox` / `BindCompletes` | A mailbox that fills the send channel blocks the handler before the writer starts (`ws_handlers.go:46,52,72`): nothing is ever sent to that device. Bounds 1 and 1 stand for 16 and 16. |
| `AckOrder` / `AcceptedFirst` | The recipient's acknowledgement can enter the sender's channel before the `accepted` receipt of its own `message.send` (`ws_handlers.go:99,100`), and the client, which takes the last word (`app_controller.dart:576`), goes back from delivered to accepted. |
| `AckRace` / `AckReachesSender` | An acknowledgement handled before `trackPendingAck` (`ws_handlers.go:99`) finds no entry and is lost to the sender. |

`CHECK_DEADLOCK FALSE` everywhere: clients may stop sending, and every bound ends
a behaviour. That a goroutine waits for ever is looked for with liveness
(`RelayLive`) and `SendNeverBlocks` instead.

Two divergences have no run. The late `unbind` of an old connection removes the
entry of the one that replaced it (`ws_hub.go:57`), so a connected device counts as
offline: two steps say it all; `HubNamesBound` is the half that holds. And the documents say
delivered mailbox items are deleted (`technical-design.md:15,245`,
`model-and-api-design.md:200`), and no code deletes any.

What that panic costs others is stated, not checked away: `NothingElseLost` and
`MailboxOrLive` allow a live stream to miss a message in two cases, that its channel was
full or that the call of `Send` met another stream's closed channel before it came to this
one (`CutShort`). A call of `Send` that panicked offers nothing any more.

What the client does not guarantee, which shaped the properties of `Client`:

- The buttons that answer an invitation and the tap that marks a message as read work
  while another job waits, and every job that ends sets `isBusy` to FALSE
  (`app_controller.dart:621`). After that two connects leave a socket nobody closes,
  and a logout can be overtaken by a connect. `OneConnection` is therefore about
  behaviours in which no two jobs overlapped so far; `LoginsNotMixed` and
  `ConnectedMeansBound` hold in all.
- The selector shows devices that are not revoked (`circle_link_app.dart:409-412`). A
  refresh that finds the device in use revoked by another client takes it out of the
  selector at line 514 and chooses another one at line 517, two fetches later; if one of
  these fails, the controller keeps a device the selector lacks. `SelectorFollows` says
  that only this step, or an overlap, loses the device from the selector, and that
  every refresh that gets to line 517 puts that right.
- An answer that replaces the inbox or the conversations may be older than events merged
  before it came (lines 516, 520), so the unread counter and the inbox may disagree after
  a refresh. Whether a message is the user's own is decided by comparing its sender with
  `session?.user.email ?? ''` (lines 731, 798): the answer of a send over HTTP (line 478)
  that comes after a logout, or to a user who typed the address with another case than the
  server keeps, counts the user's own message as unread. `CountKept` says that nothing but
  a refresh makes record and lists disagree as long as the client knows its own messages
  (`KnowsOwn`).
- The late end of a replaced connection shows a bound client as offline (line 596).

### Bounds and why they are enough

- Channels: capacity 1 or 2 instead of 8 and 16, so that empty, partly full and
  full all occur with two or three messages. Nothing in the code depends on the
  number but full and not full. `RelayLive` uses `SendCap = 4`, more than a
  session can be sent there: its properties do not hold otherwise, which
  `FullMailbox` shows.
- Connections: two, of two users, of one device or of two devices; the hub's maps
  are keyed by device and message, and its races are between two connections.
- Messages: one or two per relay scenario, three in `MessageStreams` and
  `Conversations`. `MaxInbox` bounds what is stored per recipient. A member of
  `Scenarios` says who connects with which device, who sends and to whom, how
  many events each client sends, who sends other events and who may leave; a
  behaviour has one of them.
- Streams: `Addressed` are the devices senders name and `Watching` those of the
  readers, so that a message is for a reader or not; a stream holds two of the three
  messages. `Conversations` has a user that is online and one that is not, every form of
  request, a conversation the clients name and those a message has to itself, and a
  clock with two values, so that messages of one and of two times meet.
- Ids: `AllowReuse` lets clients send an id again (the code never looks whether
  it is taken). `MessageStore` has it on; the others have it off. `InboxAddressed` is
  proved for the case that it is off: with reuse an inbox may list an id whose record
  is now for another user.
- Accounts: three sessions are a login and two refreshes or two logins and one;
  two users, two emails typed in three ways; one request and one connection at a
  time beside the token operations. `Register` always makes a new device id in
  the code; one device id suffices for the races with `Revoke`.
- Client: `Limits` gives each behaviour one of three budgets: four jobs, two
  connections and two devices without messages; three jobs, one connection, a message each
  way and two events; or two jobs, one connection, a message each way, three events and an
  address that may be typed with another case. Four jobs are the least in which a
  connection is opened across a logout and a new login (login, an invitation
  answered, logout, login); three those in which a send over HTTP is answered after a
  logout. One account and one conversation: the record of each conversation depends on
  its own messages only. An event about a stored message may come at any time from a
  connection that sent its bind.
- Contacts: four users give pairs that share a user and pairs that do not.

### Fairness

`FairSpec` in `WsRelay` asks for weak fairness of `HandlerRuns(p)`,
`ForwarderStep(c)` and `WriterLoses(c)`, and of `WriterWrites(c)` for the clients in
`Readers`. The Go scheduler runs every goroutine that can run; a mutex or channel
operation that can proceed does; a write to a broken socket returns. A write to a
healthy socket goes on only if its client reads, hence `Readers`. `HandlerRuns` is a
step of the handler that does not wait for its client: any, but in the read loop only
once the connection is gone. So reading an event is not fair: no client has to send,
acknowledge, leave or send a frame that cannot be parsed. Two goroutines that
wait for room in one channel are served in turn by Go; since the number of events
is bounded here, weak fairness gives the same.

## 4. Proofs

Every invariant and action property of the passing runs is proved for every value
of the constants that satisfies the modules' assumptions, but for
`SendNeverBlocks` and the liveness properties (see the end of this section).

`MessageServiceProofs`, from `ServiceAssumption`:

- `TypeCorrect`: types, and no channel above its capacity. Inductive as it stands.
- `IndexSafety`: `IndexesAgree`. Only `Store` and `Acknowledge` touch the three
  variables (lemma `StoreChanges`); what they do list by list is in `StoreEffect`
  and `AcknowledgeEffect`. Holds whatever ids clients choose.
- `InboxSafety`: `InboxAddressed` if no id is reused. Needs `IndexesAgree`: a listed
  id is stored, hence is not the new one. No run checks it.
- `HandsKept`: the action property `RecordKeepsHands`.
- `SubscriptionSafety`: the map holds exactly the open subscriptions.
- `StreamSafety`: streams, and fan-outs in progress, hold only what is for the
  stream's user and device. Needs `SubscriptionsAgree`: what `Store` copies are
  subscriptions of the recipient.
- `PanicNeedsCancel`: a call of `Send` that panicked stands before a stream that wants
  its message and was cancelled after the copy (lemma `PanickedKept`: the call goes no
  further and the stream stays closed). What `SendOnClosed` finds has no other cause.

It begins with what the other modules need of lists: `Append`, `Tail`, concatenation
and the elements of each, and what `ListInbox` selects from an index, for indexes of
any length. The library's induction over the naturals takes the predicate as
a parameter, which the provers cannot instantiate; lemma `Induction` says it with
a set of numbers instead (the numbers for which the claim holds), and that they can.

`MessageStreamsProofs`, from `ServiceAssumption`, `StreamsAssumption` and `~AllowReuse`, without
which the theorems are false (a message sent again is owed and listed twice):

- `NothingLost`: a message a stream is owed is in it, was taken, was dropped at a full
  channel, is still to come from a call that runs, or was cut off by one that panicked
  (`CutOff`). That the last case is only this follows from `PanickedAtCancelled`: a call that panicked stands
  at a cancelled stream, and the ones it has left come after it.
- `SenderOrder`: the other invariant of the run; `StreamsExact`: nothing comes
  twice, unowed, or after it was counted as dropped (proved only; the run checks the
  refinement below, which says more). The inductive invariant `StreamIInv` says of a
  message and a stream that wants it that it is in the stream, was dropped, or is
  pending in a fan-out, and in one of these only (`OwedAccounted`, `PendingOwed`, `OwnMessages`: no two fan-outs carry
  one id); that a goroutine's fan-out carries the last message it stored (`OwnHistory`),
  which is why its messages keep their order; and that what a handler did not list it
  is owed (`ListedOrOwed`), which is why subscribing comes before listing.
- `Implementation`: `Spec => ImplementsPromise`, step by step. A promise is what `Store`
  makes to the streams it copies; a fan-out gives or misses, a reader takes, and the
  other steps stutter. That what is promised is new comes from `OwedStored`, that an id
  is given or missed only while it is due from `PendingOwed`; that only a full stream misses, from comparing what
  is in the channel with what was given and taken.

`ConversationsProofs`, from `ServiceAssumption` and `ConversationAssumption`:

- `ConversationsUseService`: `Spec => ServiceSpec`.
- `TextShown`: `BodyKept`. Lemma `ParsedPayload` evaluates the parser on each form a
  client uses.
- `SummariesCorrect`: `SummariesExact`. `ListConversations` is a loop; that its
  recursive function exists (`RoundsExist`) and that after `n` rounds the summaries
  are those of the first `n` ids (`Summarised`, one round in `MergedOne`) are proved by
  induction over the rounds. Counts are cardinalities, which a round raises by
  one because an index lists no id twice (`IndexGood`).
- `UnreadCounts`: the action property `UnreadChanges`, from the exact counts before and
  after a step (`CountsAreRight`): a count can move only if a set of unread messages
  gains or loses a member.
- The inductive invariant is `Sound`: besides the service's, that a draft is a
  new message under an id nobody else uses (`DraftsGood`), that bodies are what
  the forms make of the texts (`ContentGood`), and `IndexGood`.

`WsRelayProofs`, from `ServiceAssumption` and `RelayAssumption`, for any number of
connections, requests and devices, any capacities and any scenarios:

- `RelayTypeCorrect`: types, with what a handler must have in hand at each of its
  places (`Jobs`).
- `RelayUsesService`: `Spec => ServiceSpec`, step by step (`RelayServiceStep`). What is
  proved of the message service therefore holds inside the relay, and is used below.
- `HubSafety`: `HubNamesBound`; inductive, as only `Bind` and `Unbind` touch presence.

`WsRelayEventProofs`, about `Outgoing(c)`: what a client has received, what is in the
connection's channel and what is about to be pushed. Lemma `OutgoingStep` says all a
step can do to such a list: leave it alone, insert one event behind what is written
and queued, lose one because the socket is down, or make it the greeting.
`Tracking` and `Shape` are the invariant under all these theorems.

- `Tracking`: what a handler or a fan-out has in hand agrees with the store (`ItemsAgree`,
  `SendsAgree`), ids it is about to store are fresh (`FreshItems`), and who the hub, or a
  handler that looked it up, says is waiting for news sent the message (`WaitersKnown`).
- `AckDevices`: `AcksNameOneDevice`, from `AcksGood`: an acknowledgement names the device
  the stored message has, and that one never changes once known.
- `TrackedUntilRead`, `TruthfulAcks`: `AcceptedIsTracked` and `AcksTruthful`. Their
  invariant `Acceptance` says that a list has one `accepted` of a message at most, and
  if it has one, that nobody is still sending that message. Both assume `Honest`:
  the statuses of acknowledgements are `delivered` and `read`. The server takes any status;
  a recipient that reports `accepted` makes its sender hear it twice, and one that reports
  `failed` ends the tracking of a message nobody read (`ws_handlers.go:239`), so without
  it both are false. The client of the repository sends these two only
  (`app_controller.dart:493,565`), and so do the runs.
- `GreetingInFront`: `GreetingFirst`. Before the greeting a connection's lists are empty
  and its forwarder is off (`Shape`). Until it is all pushed nobody else may push:
  the forwarder has not started, and the connection has sent nothing anyone could
  acknowledge, so it waits for no news (`WaitersKnown` says a waiter is past its greeting).
  What is inserted later is behind it and neither a mailbox item nor `bound`
  (`GreetedLists`).
- `MailboxThenLive`: `MailboxOrLive`, from `NoneMissed`: from the moment the stream is
  open, what is for the device is listed, on the way in a call of `Send` that runs, noted as
  dropped, or cut off by a call that panicked at another stream. Needs the
  service's `SubscriptionsAgree` (a store sees the subscription) and `IndexesAgree` (the
  listing sees what was stored before).
- `ShownSafety`: `ShownRight`, from `Showing`. What is in a stream or a forwarder's hand is
  for the connection's user and device (`StreamsMine`, `HandsMine`) and agrees with the
  store, so what is shown does (`ShownGood`). No message is shown twice one way: an inbox
  lists an id once (`MailboxOnce`); the calls of `Send` under way carry distinct messages
  (`SendsDistinct`); and on its way from a call of `Send` through stream, hand and channel
  a message is in one place only, and once there (`OnceLive`).
- `GreetingNeverWaits`: a handler that waits in its greeting, where nobody empties its
  channel yet, has a user whose inbox has as many messages as the channel has places.
  What is pushed and what is left make up the greeting, which has one event more than
  the mailbox, and that is no longer than the inbox (`SelectedLength`), which only grows.
  It is the half of `BindCompletes` that is not about time; `FullMailbox` shows that the
  condition is needed.
- `AcceptanceNotLost`, `ForgottenOnlyAtEnd`, `HeardByOne`: the other side of what `AckOrder`
  and `AckRace` find, whatever statuses clients report (no `Honest`). A connection that
  the hub waits for, that a handler means to tell or that was told of a message is
  `Accounted` for: nobody sends the message any more, the hub waits for that connection
  or none, and while its socket is up it has the acceptance, and the end (`read` or
  `failed`) if the hub waits no more. `Accounting` says so at each of the three places,
  and `ClearsTold` of a handler between `ForwardAck` and `ClearPending`. So news may
  overtake the acceptance and an early acknowledgement may be missed, but no acceptance
  is lost, no entry is removed before the end was told, and no second connection hears
  of the message: only `TrackPendingAck` begins it, when nobody does yet (`OneHearer`).
- `PanicOnlyByLeaver`: from `PanicNeedsCancel` and `StreamsOwned`; a closed stream is one
  whose connection is done.

As in the runs, no client of the relay sends an id again (`Route`).

`ContactsProofs`, for every set of users:

- The inductive invariant `IInv` is `TypeOK /\ PairsAgree`: `Accept` looks at
  both records' states but the owner's inviter only, and `Reject` at one record
  only, so that both do the right thing rests on the records being equal.
- `TypeCorrect` (proved only, no run spends a check on it), `PairsAgreeAlways`,
  `ButtonsAlwaysWork`, `ButtonsAlwaysStay` follow.
- `Implementation`: `Spec => ImplementsPairs`, step by step: `InviteMaps`,
  `AcceptMaps`, `RejectMaps` over the mapped sets `Invited` and `Friends`.

`AccountsProofs`, for any numbers of users, sessions, devices, requests and
connections, any lifetimes and any normalisation of addresses that satisfy
`AuthAssumption` and `AccountsAssumption`:

- The inductive invariant `IInv` is `AuthInv /\ DeviceInv /\ HandlerInv`. `AuthInv`:
  types, an account's place in the email index, and one usable refresh token per
  login; issued sessions are `1..n` for a finite `n`, so that a new number is none of
  theirs. `DeviceInv`: lists and records agree. `HandlerInv` adds to `BoundOwned` what
  a request or a connection learned in an earlier step and still relies on
  (`HandlersKnow`): who was found by a token has an account, a connection past its
  first step has a device, and one that counts as late wants a device
  that is revoked. That other actions leave this alone is `HandlersUntouched`.
- `TypeCorrect`, `IdentityAlwaysAgrees`, `RefreshUnique`, `DeviceListsAgree` and
  `BindSafety` are the invariants of the run; `RevocationSafety` is its action property.
- `LoginsImplemented`: `Spec => ImplementsLogins`. A login is named by the first token of
  its chain and holds the one that can be used (`OneRefreshPerLogin`); issued tokens are
  counted by the cardinality of their set, which is why `AuthInv` has it finite.
  `LoginsStayEnded` says its last clause alone: what ended stays ended.

`ClientProofs`, from `ClientAssumption` (a finite set of messages, for the counts; jobs
and devices may be any sets):

- `ClientTypeCorrect`, `LoginsKeptApart`: the inductive `Typed` has the types, what each
  job waits for, and `session = token`.
- `ConnectedIsBound`: `Links` ties each connection that is being opened to the one job
  that waits for it; only that job's answer opens it, and a `session.bind` goes only to
  one that was open. While the flag is up, a connection on which `session.bound` was
  heard has not ended.
- `ConnectedOnce`: `OneConnection`, which takes `Sole` (jobs that never overlapped are one
  at a time) and `OneOpen` (the open connection is the controller's; none is while one
  is being opened or the user logged out).
- `SelectorShowsCurrent`: `SelectorFollows`. From the inductive `Typed` and, for what a refresh may
  find, that no device the client was told of vanishes at the server and that an answer
  still to be heard lists the device in use too; then case by case over what changes the
  device list or the device in use (lemma `ReconciledShown` is line 517).
- `CountAgrees`: the action property `CountKept`, by cases on which list a step changes
  and whether the message was new to it or unread (lemmas `SyncedCounted`, `InboxCounted`,
  `SentCounted`). `KnowsOwn` before and after the step says that what the client sent is
  not unread.

Only model-checked: `SendNeverBlocks`, which uses ENABLED, and the liveness properties of
`RelayLive`, both beyond the prover; and the four properties
of the second table, which are false of the code.

## 5. Not modelled

The client's sign-up and verification, contact list, selections, derived
summaries and widgets: they only show what the server answered. `UpdatePushToken`: no
route reaches it. JSON, base64, hashing and random ids: pure functions of one
argument, taken as injective where the code relies on it. Configuration, the debug page
(one HTML text), the protocol schemas (no code reads them), the mailbox and relay
interfaces (no implementation), the relay process, which only serves a health route.
A restart loses everything, so there is no recovery to model.

## 6. Plan

The order was: the message path first (`MessageService`, `MessageStreams`, `WsRelay`),
then `Contacts`, `Auth`, `Accounts`, `Client`, `Conversations`; then the proofs, in the same
order. All modules that keep state have theirs. What would say more:

1. An abstract specification of the relay: presence and receipts as a relation between
   messages and connections, implemented by `WsRelay`. The theorems `HeardByOne`,
   `ForgottenOnlyAtEnd` and `HubSafety` are what its proof would rest on.
2. Action properties of `WsRelay` across a reconnect: what the next connection of a
   device is shown of what the last one had in its channels.
3. The client's merge of what it fetches with what it hears, for the cases in which
   `CountKept` leaves a fetch free.
