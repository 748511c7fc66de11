\* Liveness.  SendCap is 4: more than all the events one session can be sent
\* here, which TornDown and BindCompletes need (see FullMailbox).
CONSTANTS
    alice = alice
    bob = bob
    laptop = laptop
    phone = phone
    tablet = tablet
    a1 = a1
    b1 = b1
    b2 = b2
    r1 = r1
    Users = {alice, bob}
    Devices = {laptop, phone}
    NoDevice = NoDevice
    None = None
    MessageIDs = {m1}
    Callers = {a1, b1}
    Subscribers = {a1, b1}
    OwnerOf <- Owners
    StreamCap = 1
    SendCap = 4
    MaxInbox = 2
    AckStatuses = {"delivered", "read"}
    AllowReuse = FALSE
    Scenarios <- JustTalk
    Readers = {a1}
SPECIFICATION FairSpec
PROPERTIES SendAnswered BindCompletes TornDown
CHECK_DEADLOCK FALSE
