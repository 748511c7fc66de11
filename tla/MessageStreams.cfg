\* Two goroutines send to a device of a user who opens two streams, for that
\* device or another; a channel holds two messages, so the third send to a slow
\* reader meets it full.
CONSTANTS
    Users = {bob}
    Devices = {phone, tablet}
    NoDevice = NoDevice
    MessageIDs = {m1, m2, m3}
    Callers = {t1, t2}
    Subscribers = {s1, s2}
    StreamCap = 2
    MaxInbox = 3
    AckStatuses = {}
    AllowReuse = FALSE
    Addressed = {phone}
    Watching = {phone, tablet}
SPECIFICATION Spec
SYMMETRY StreamSymmetry
INVARIANTS NothingElseLost SenderOrderKept
PROPERTY ImplementsPromise
CHECK_DEADLOCK FALSE
