\* A mailbox of one message and a send channel of one event: 16 and 16 in the
\* code.
CONSTANTS
    alice = alice
    bob = bob
    laptop = laptop
    phone = phone
    tablet = tablet
    a1 = a1
    b1 = b1
    b2 = b2
    r1 = r1
    Users = {alice, bob}
    Devices = {laptop, phone}
    NoDevice = NoDevice
    None = None
    MessageIDs = {m1}
    Callers = {b1, r1}
    Subscribers = {b1}
    OwnerOf <- Owners
    StreamCap = 1
    SendCap = 1
    MaxInbox = 1
    AckStatuses = {"delivered", "read"}
    AllowReuse = FALSE
    Scenarios <- JustGreeting
    Readers = {b1}
SPECIFICATION FairSpec
PROPERTY BindCompletes
CHECK_DEADLOCK FALSE
