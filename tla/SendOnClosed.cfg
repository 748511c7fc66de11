\* One sender and one reader who leaves: the smallest race of Send and cancel.
CONSTANTS
    Users = {alice, bob}
    Devices = {phone}
    NoDevice = NoDevice
    MessageIDs = {m1}
    Callers = {t1}
    Subscribers = {s1}
    StreamCap = 1
    MaxInbox = 1
    AckStatuses = {"delivered", "read"}
    AllowReuse = FALSE
SPECIFICATION ServiceSpec
INVARIANT SendReturns
CHECK_DEADLOCK FALSE
