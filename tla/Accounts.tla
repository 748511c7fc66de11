------------------------------ MODULE Accounts ------------------------------
(***************************************************************************)
(* Accounts and devices behind the HTTP and websocket handlers: the device *)
(* service (service/device/memory.go), the handlers that require an access *)
(* token (httpapi/response.go, device_handlers.go, auth_handlers.go) and   *)
(* the checks of a session.bind (ws_handlers.go), composed with Auth.      *)
(*                                                                         *)
(* A handler first authenticates its caller and then calls a service, each *)
(* under a mutex of its own: other requests come in between.               *)
(***************************************************************************)
EXTENDS Auth

CONSTANTS Devices,   \* device ids
          Requests,  \* HTTP requests under way at one time
          Conns      \* websocket connections

ASSUME AccountsAssumption == Requests \cap Conns = {}

VARIABLES
    devicesByID,     \* owner and revocation of a registered device
    deviceIDsByUID,  \* the devices of a user, in the order registered
    pc,              \* where the handler of a request or connection is
    caller,          \* the user it authenticated
    wanted,          \* the device a connection binds
    late             \* history: connections whose device was revoked before

deviceVars == <<devicesByID, deviceIDsByUID>>
handlerVars == <<pc, caller, wanted, late>>
vars == <<authVars, deviceVars, handlerVars>>

Device == [user : Users, revoked : BOOLEAN]

Init ==
    /\ AuthInit
    /\ devicesByID = [d \in {} |-> {}]
    /\ deviceIDsByUID = [u \in Users |-> <<>>]
    /\ pc = [p \in Requests \cup Conns |-> "new"]
    /\ caller = [p \in {} |-> {}]
    /\ wanted = [c \in {} |-> {}]
    /\ late = {}

Go(p, from, to) == pc[p] = from /\ pc' = [pc EXCEPT ![p] = to]

Active(d) == d \in DOMAIN devicesByID /\ ~devicesByID[d].revoked

-----------------------------------------------------------------------------
(* Requests with an access token. *)

\* requireAccessSession.
Authorize(r) ==
    /\ Go(r, "new", "act")
    /\ \E t \in Issued : /\ Valid(t)
                         /\ caller' = With(caller, r, accessSessions[t].user)
    /\ UNCHANGED <<authVars, deviceVars, wanted, late>>

\* The request is over; its place is free for another.
Respond(r) ==
    /\ Go(r, "act", "new")
    /\ caller' = Without(caller, r)
    /\ UNCHANGED <<wanted, late>>

\* Mutant: a device that is known is listed again.
Unknown_Any(d) == d \in Devices

\* A registration always makes a new device.
Unknown(d) == d \notin DOMAIN devicesByID

Register(r, d) ==
    /\ Respond(r)
    /\ Unknown(d)
    /\ devicesByID' = With(devicesByID, d, [user |-> caller[r], revoked |-> FALSE])
    /\ deviceIDsByUID' = [deviceIDsByUID EXCEPT ![caller[r]] = Append(@, d)]
    /\ UNCHANGED authVars

\* Mutant: anybody may revoke a device.
CanRevoke_AnyUser(r, d) == r \in DOMAIN caller /\ Active(d)

CanRevoke(r, d) == Active(d) /\ devicesByID[d].user = caller[r]

\* A revoked device stays on record and in the lists; a session of it that is
\* bound stays bound.
Revoke(r, d) ==
    /\ Respond(r)
    /\ CanRevoke(r, d)
    /\ devicesByID' = [devicesByID EXCEPT ![d].revoked = TRUE]
    /\ UNCHANGED <<authVars, deviceIDsByUID>>

RequestPassword(r, current, new) ==
    /\ Respond(r)
    /\ ChangePassword(caller[r], current, new)
    /\ UNCHANGED deviceVars

\* Any other request, and one that fails.
ReadOnly(r) ==
    /\ Respond(r)
    /\ UNCHANGED <<authVars, deviceVars>>

-----------------------------------------------------------------------------
(* session.bind. *)

\* The token is checked first, then that the userId sent along is its user's.
BindAuthenticates(c) ==
    /\ Go(c, "new", "check")
    /\ \E t \in Issued, d \in Devices :
          /\ Valid(t)
          /\ caller' = With(caller, c, accessSessions[t].user)
          /\ wanted' = With(wanted, c, d)
          /\ late' = IF d \in DOMAIN devicesByID /\ devicesByID[d].revoked
                     THEN late \cup {c} ELSE late
    /\ UNCHANGED <<authVars, deviceVars>>

\* Mutant: a revoked device counts as long as it is listed.
OwnsActiveDevice_Listed(u, d) ==
    \E i \in DOMAIN deviceIDsByUID[u] : deviceIDsByUID[u][i] = d

\* userOwnsActiveDevice, from the list of the user's devices.
OwnsActiveDevice(u, d) ==
    \E i \in DOMAIN deviceIDsByUID[u] : deviceIDsByUID[u][i] = d /\ Active(d)

BindChecksDevice(c) ==
    /\ Go(c, "check", IF OwnsActiveDevice(caller[c], wanted[c]) THEN "bind" ELSE "refused")
    /\ UNCHANGED <<authVars, deviceVars, caller, wanted, late>>

\* hub.bind: nothing is looked at again.
BindSession(c) ==
    /\ Go(c, "bind", "bound")
    /\ UNCHANGED <<authVars, deviceVars, caller, wanted, late>>

-----------------------------------------------------------------------------

Next ==
    \/ AuthNext /\ UNCHANGED <<deviceVars, handlerVars>>
    \/ \E r \in Requests :
          \/ Authorize(r)
          \/ \E d \in Devices : Register(r, d) \/ Revoke(r, d)
          \/ \E current, new \in Passwords : RequestPassword(r, current, new)
          \/ ReadOnly(r)
    \/ \E c \in Conns : BindAuthenticates(c) \/ BindChecksDevice(c) \/ BindSession(c)

Spec == Init /\ [][Next]_vars

-----------------------------------------------------------------------------
(* Properties. *)

\* Every variable has its type; a handler has a caller once it authenticated one.
TypeOK ==
    /\ AuthTypeOK
    /\ DOMAIN devicesByID \subseteq Devices
    /\ devicesByID \in [DOMAIN devicesByID -> Device]
    /\ deviceIDsByUID \in [Users -> Seq(Devices)]
    /\ pc \in [Requests \cup Conns -> {"new", "act", "check", "bind", "bound", "refused"}]
    /\ caller \in [DOMAIN caller -> Users]
    /\ \A p \in Requests \cup Conns : p \in DOMAIN caller <=> pc[p] # "new"
    /\ wanted \in [DOMAIN wanted -> Devices]
    /\ late \subseteq Conns

\* A registered device is in the list of its owner, once, and in no other.
DevicesAgree ==
    \A u \in Users : LET q == deviceIDsByUID[u]
                     IN  /\ {q[i] : i \in DOMAIN q} =
                               {d \in DOMAIN devicesByID : devicesByID[d].user = u}
                         /\ \A i, j \in DOMAIN q : q[i] = q[j] => i = j

\* A device never changes hands, a revoked one never comes back, and only a
\* request of its owner revokes it.
RevokedForGood ==
    [][\A d \in DOMAIN devicesByID :
          /\ devicesByID'[d].user = devicesByID[d].user
          /\ devicesByID[d].revoked => devicesByID'[d].revoked
          /\ ~devicesByID[d].revoked /\ devicesByID'[d].revoked =>
                \E r \in Requests : r \in DOMAIN caller \ DOMAIN caller'
                                    /\ caller[r] = devicesByID[d].user]_vars

\* A connection is bound as a user who has an account, to a device of his, and
\* never to one that had been revoked before it asked.  (It may be revoked
\* between the check and the bind.)
BoundOwned ==
    \A c \in Conns : pc[c] \in {"bind", "bound"} =>
        /\ caller[c] \in Registered
        /\ wanted[c] \in DOMAIN devicesByID
        /\ devicesByID[wanted[c]].user = caller[c]
        /\ c \notin late

=============================================================================
