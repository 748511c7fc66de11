\* Two users, one of them online, two goroutines, three messages; a conversation
\* the clients name beside those a message has to itself.
CONSTANTS
    alice = alice
    bob = bob
    Users = {alice, bob}
    Devices = {}
    NoDevice = NoDevice
    MessageIDs = {m1, m2, m3}
    Callers = {t1, t2}
    Subscribers = {}
    StreamCap = 1
    MaxInbox = 2
    AckStatuses = {"delivered", "read"}
    AllowReuse = FALSE
    Conversations = {c1}
    Texts = {hello}
    Absent = Absent
    FormOf <- Clients
    Present = {bob}
    MaxTime = 1
SPECIFICATION Spec
SYMMETRY ConversationSymmetry
INVARIANTS SummariesExact BodyKept
PROPERTY UnreadChanges
CHECK_DEADLOCK FALSE
