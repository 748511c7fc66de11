-------------------------------- MODULE Auth --------------------------------
(***************************************************************************)
(* The in-memory auth service (service/auth/memory.go): accounts, email    *)
(* verification, access tokens and rotating refresh tokens.  Every method  *)
(* runs under the service's mutex and is one action.                       *)
(*                                                                         *)
(* Tokens are random and never repeat.  Sessions are numbered in the order *)
(* issued, and a session's access token and refresh token are both its     *)
(* number; the verification token of an account is the id of its user.     *)
(***************************************************************************)
EXTENDS Integers, Sequences, FiniteSets

CONSTANTS Users,      \* user ids
          Addresses,  \* email addresses as clients type them
          Normal,     \* normalizeEmail: lower case, no blanks around
          Passwords,
          Strong,     \* those of at least 8 characters
          AccessTTL,  \* 15 minutes in the code
          RefreshTTL, \* 30 days in the code
          MaxTime,    \* bound: the clock stops there
          MaxSessions \* bound: sessions issued

ASSUME AuthAssumption ==
    /\ Strong \subseteq Passwords
    /\ AccessTTL \in Nat /\ RefreshTTL \in Nat
    /\ MaxTime \in Nat /\ MaxSessions \in Nat

Emails == {Normal[a] : a \in Addresses}

VARIABLES
    usersByID,       \* the accounts, a partial function of the user id
    userIDByEmail,   \* the account of an email
    verifyByEmail,   \* the outstanding verification token of an email
    accessSessions,  \* user and expiry of an access token; none is ever deleted
    refreshTokens,   \* user and expiry of a refresh token that can be used
    now,
    login            \* history: the session of the login a session descends from

accountVars == <<usersByID, userIDByEmail, verifyByEmail>>
tokenVars == <<accessSessions, refreshTokens, login>>
authVars == <<accountVars, tokenVars, now>>

User == [email : Emails, password : Strong, status : {"pending_verification", "active"}]
Session == [user : Users, expires : Nat]

Registered == DOMAIN usersByID
Issued == DOMAIN accessSessions

AuthInit ==
    /\ usersByID = [u \in {} |-> {}]
    /\ userIDByEmail = [e \in {} |-> {}]
    /\ verifyByEmail = [e \in {} |-> {}]
    /\ accessSessions = [n \in {} |-> {}]
    /\ refreshTokens = [n \in {} |-> {}]
    /\ now = 0
    /\ login = [n \in {} |-> {}]

\* f with the value y at x, and f without x.
With(f, x, y) == [z \in DOMAIN f \cup {x} |-> IF z = x THEN y ELSE f[z]]
Without(f, x) == [z \in DOMAIN f \ {x} |-> f[z]]

-----------------------------------------------------------------------------
(* Accounts. *)

\* Mutant: the address is looked up as typed.
Taken_AsTyped(a) == a \in DOMAIN userIDByEmail

Taken(a) == Normal[a] \in DOMAIN userIDByEmail

\* Mutant: any password will do.
GoodPassword_Any(p) == p \in Passwords

GoodPassword(p) == p \in Strong

SignUp(u, a, p) ==
    /\ u \notin Registered
    /\ ~Taken(a)
    /\ GoodPassword(p)
    /\ usersByID' = With(usersByID, u, [email |-> Normal[a], password |-> p,
                                        status |-> "pending_verification"])
    /\ userIDByEmail' = With(userIDByEmail, Normal[a], u)
    /\ verifyByEmail' = With(verifyByEmail, Normal[a], u)
    /\ UNCHANGED <<tokenVars, now>>

VerifyEmail(a, token) ==
    LET e == Normal[a]
    IN  /\ e \in DOMAIN verifyByEmail
        /\ verifyByEmail[e] = token
        /\ e \in DOMAIN userIDByEmail
        /\ usersByID' = [usersByID EXCEPT ![userIDByEmail[e]].status = "active"]
        /\ verifyByEmail' = Without(verifyByEmail, e)
        /\ UNCHANGED <<userIDByEmail, tokenVars, now>>

\* The current password is checked before the strength of the new one.  No
\* session ends.
ChangePassword(u, current, new) ==
    /\ u \in Registered
    /\ usersByID[u].password = current
    /\ GoodPassword(new)
    /\ usersByID' = [usersByID EXCEPT ![u].password = new]
    /\ UNCHANGED <<userIDByEmail, verifyByEmail, tokenVars, now>>

-----------------------------------------------------------------------------
(* Sessions. *)

\* issueSessionLocked, with the refresh tokens that are left besides; from is
\* the login the session descends from, 0 for a login itself.
IssueSession(u, tokens, from) ==
    LET n == Cardinality(Issued) + 1
    IN  /\ n <= MaxSessions
        /\ accessSessions' = With(accessSessions, n,
                                  [user |-> u, expires |-> now + AccessTTL])
        /\ refreshTokens' = With(tokens, n, [user |-> u, expires |-> now + RefreshTTL])
        /\ login' = With(login, n, IF from = 0 THEN n ELSE from)

\* The status of the account is not looked at.
Login(a, p) ==
    /\ Normal[a] \in DOMAIN userIDByEmail
    /\ LET u == userIDByEmail[Normal[a]]
       IN  /\ usersByID[u].password = p
           /\ IssueSession(u, refreshTokens, 0)
    /\ UNCHANGED <<accountVars, now>>

\* Mutant: a used token stays good.
Unused_Kept(t) == [r \in DOMAIN refreshTokens \cup {t} |-> refreshTokens[r]]

\* The refresh tokens left when t is used or given up.
Unused(t) == Without(refreshTokens, t)

\* Mutant: a spent token is honoured.
RefreshSession_Spent(t) ==
    /\ t \in Issued
    /\ IssueSession(accessSessions[t].user, Unused(t), login[t])
    /\ UNCHANGED <<accountVars, now>>

\* A refresh token is used once: it is deleted and its successor issued.
RefreshSession(t) ==
    /\ t \in DOMAIN refreshTokens
    /\ now <= refreshTokens[t].expires
    /\ IssueSession(refreshTokens[t].user, Unused(t), login[t])
    /\ UNCHANGED <<accountVars, now>>

\* RefreshSession of an expired token deletes it.
RefreshExpired(t) ==
    /\ t \in DOMAIN refreshTokens
    /\ now > refreshTokens[t].expires
    /\ refreshTokens' = Unused(t)
    /\ UNCHANGED <<accountVars, accessSessions, login, now>>

\* Logout of an unknown token succeeds and changes nothing.
Logout(t) ==
    /\ t \in DOMAIN refreshTokens
    /\ refreshTokens' = Unused(t)
    /\ UNCHANGED <<accountVars, accessSessions, login, now>>

\* AuthenticateAccessToken.
Valid(t) == t \in Issued /\ now <= accessSessions[t].expires

Tick ==
    /\ now < MaxTime
    /\ now' = now + 1
    /\ UNCHANGED <<accountVars, tokenVars>>

\* What needs no access token.
AuthNext ==
    \/ \E u \in Users, a \in Addresses, p \in Passwords : SignUp(u, a, p)
    \/ \E a \in Addresses, token \in Users : VerifyEmail(a, token)
    \/ \E a \in Addresses, p \in Passwords : Login(a, p)
    \/ \E t \in Issued :
          RefreshSession(t) \/ RefreshExpired(t) \/ Logout(t)
    \/ Tick

-----------------------------------------------------------------------------
(* Properties. *)

\* Every variable has its type: passwords kept are strong ones, sessions are
\* numbered without gaps, and a refresh token is one that was issued.
AuthTypeOK ==
    /\ Registered \subseteq Users
    /\ usersByID \in [Registered -> User]
    /\ DOMAIN userIDByEmail \subseteq Emails
    /\ userIDByEmail \in [DOMAIN userIDByEmail -> Users]
    /\ DOMAIN verifyByEmail \subseteq Emails
    /\ verifyByEmail \in [DOMAIN verifyByEmail -> Users]
    /\ Issued = 1..Cardinality(Issued)
    /\ accessSessions \in [Issued -> Session]
    /\ DOMAIN refreshTokens \subseteq Issued
    /\ refreshTokens \in [DOMAIN refreshTokens -> Session]
    /\ login \in [Issued -> Issued]
    /\ now \in Nat

\* However addresses are typed, an email has at most one account, found under
\* the email it was registered with; an account is pending exactly while its
\* own verification token is outstanding.
IdentityAgrees ==
    /\ \A e \in DOMAIN userIDByEmail :
          userIDByEmail[e] \in Registered /\ usersByID[userIDByEmail[e]].email = e
    /\ \A u \in Registered :
          LET e == usersByID[u].email
          IN  /\ e \in DOMAIN userIDByEmail
              /\ userIDByEmail[e] = u
              /\ usersByID[u].status = "pending_verification"
                    <=> e \in DOMAIN verifyByEmail /\ verifyByEmail[e] = u

\* All tokens that descend from one login, by refresh, are its user's, who has
\* an account; and at most one refresh token of them can be used.
OneRefreshPerLogin ==
    /\ \A n \in Issued : /\ accessSessions[n].user \in Registered
                         /\ accessSessions[n].user = accessSessions[login[n]].user
    /\ \A t \in DOMAIN refreshTokens : refreshTokens[t].user = accessSessions[t].user
    /\ \A t, r \in DOMAIN refreshTokens : login[t] = login[r] => t = r

Ended(n) == \A t \in DOMAIN refreshTokens : login[t] # n

\* Once a login has no usable refresh token left (logged out, expired) it has
\* none ever after: a spent token cannot bring it back.
LoginsEnd ==
    [][\A n \in Issued : login[n] = n /\ Ended(n) => Ended(n)']_authVars

\* The login every usable refresh token descends from, and the token it holds.
Live == {login[t] : t \in DOMAIN refreshTokens}

HeldBy(n) == CHOOSE t \in DOMAIN refreshTokens : login[t] = n

Held == [n \in Live |-> [token |-> HeldBy(n), user |-> refreshTokens[HeldBy(n)].user]]

Chains == INSTANCE Logins WITH issued <- Cardinality(Issued), held <- Held

\* Refresh tokens implement Logins: whatever clients repeat, delay or race
\* (RefreshSession and Logout, memory.go:147-176), a login begins with one
\* token for its user, a refresh replaces the token by one never seen, for the
\* same user, and what ends a login, a logout or an expiry, ends it for good.
ImplementsLogins == Chains!Spec

=============================================================================
