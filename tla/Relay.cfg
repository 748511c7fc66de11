\* Three scenarios: alice sends twice to bob, who acknowledges, pings and may leave;
\* bob's phone reconnects while a message comes; his phone and tablet race for one.
\* A stream holds one message and a send channel two events, so both fill up.
CONSTANTS
    alice = alice
    bob = bob
    laptop = laptop
    phone = phone
    tablet = tablet
    a1 = a1
    b1 = b1
    b2 = b2
    r1 = r1
    Users = {alice, bob}
    Devices = {laptop, phone, tablet}
    NoDevice = NoDevice
    None = None
    MessageIDs = {m1, m2}
    Callers = {a1, b1, b2, r1}
    Subscribers = {a1, b1, b2}
    OwnerOf <- Owners
    StreamCap = 1
    SendCap = 2
    MaxInbox = 2
    AckStatuses = {"delivered", "read"}
    AllowReuse = FALSE
    Scenarios <- AllThree
    Readers = {a1, b1, b2}
SPECIFICATION Spec
SYMMETRY Messages
INVARIANTS RelayTypeOK GreetingFirst MailboxOrLive AcksTruthful AcceptedIsTracked
INVARIANTS HubNamesBound AcksNameOneDevice ShownRight
CHECK_DEADLOCK FALSE
