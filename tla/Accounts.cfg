\* One request at a time and one connection beside the token operations, three
\* sessions (a login and two refreshes, or two logins and one), and one tick of
\* the clock, at which every token issued before it expires.
CONSTANTS
    Users = {u1, u2}
    Addresses <- Typed
    Normal <- Plain
    Passwords = {"weak", "strong", "other"}
    Strong = {"strong", "other"}
    AccessTTL = 0
    RefreshTTL = 0
    MaxTime = 1
    MaxSessions = 3
    Devices = {d1}
    Requests = {r1}
    Conns = {c1}
SPECIFICATION Spec
SYMMETRY AccountSymmetry
INVARIANTS TypeOK IdentityAgrees OneRefreshPerLogin DevicesAgree BoundOwned
PROPERTIES ImplementsLogins RevokedForGood
CHECK_DEADLOCK FALSE
