\* One message and one acknowledgement.
CONSTANTS
    alice = alice
    bob = bob
    laptop = laptop
    phone = phone
    tablet = tablet
    a1 = a1
    b1 = b1
    b2 = b2
    r1 = r1
    Users = {alice, bob}
    Devices = {laptop, phone}
    NoDevice = NoDevice
    None = None
    MessageIDs = {m1}
    Callers = {a1, b1}
    Subscribers = {a1, b1}
    OwnerOf <- Owners
    StreamCap = 1
    SendCap = 2
    MaxInbox = 2
    AckStatuses = {"delivered", "read"}
    AllowReuse = FALSE
    Scenarios <- JustStay
    Readers = {a1, b1}
SPECIFICATION Spec
SYMMETRY Messages
INVARIANT AcceptedFirst
CHECK_DEADLOCK FALSE
