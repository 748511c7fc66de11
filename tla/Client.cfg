\* Two jobs that may overlap, two devices, a message each way.
CONSTANTS
    Jobs = {j1, j2}
    Devices = {laptop, phone}
    Incoming = {m1}
    Outgoing = {n1}
    MaxSockets = 2
    MaxLogins = 2
    Limits <- ThreeLimits
    None = None
    Address = ann
    Spellings = {ann, Ann}
    Peer = bob
    NoAddress = NoAddress
SPECIFICATION Spec
SYMMETRY Symmetric
INVARIANTS ClientTypeOK LoginsNotMixed ConnectedMeansBound OneConnection
PROPERTIES SelectorFollows 
CHECK_DEADLOCK FALSE
