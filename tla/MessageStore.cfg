\* Two users, two devices, one goroutine that sends, one stream, one id: each
\* inbox takes two messages, so the id is sent up to four times, to either user
\* and from either.  Distinct ids meet in MessageStreams and Relay.
CONSTANTS
    Users = {alice, bob}
    Devices = {phone, tablet}
    NoDevice = NoDevice
    MessageIDs = {m1}
    Callers = {t1}
    Subscribers = {s1}
    StreamCap = 1
    MaxInbox = 2
    AckStatuses = {"delivered", "read"}
    AllowReuse = TRUE
SPECIFICATION ServiceSpec
SYMMETRY ServiceSymmetry
INVARIANTS ServiceTypeOK IndexesAgree SubscriptionsAgree StreamsAddressed SendNeverBlocks
PROPERTY RecordKeepsHands
CHECK_DEADLOCK FALSE
