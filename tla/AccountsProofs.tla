--------------------------- MODULE AccountsProofs ---------------------------
(***************************************************************************)
(* For any users, addresses, passwords, lifetimes, devices, requests and   *)
(* connections: accounts are found by their email, a login has one usable  *)
(* refresh token and stays ended, devices keep their owner and stay        *)
(* revoked, and only an owner binds a device.                              *)
(***************************************************************************)
EXTENDS Accounts, FiniteSetTheorems, TLAPS

\* The types of With and Without.
LEMMA WithType ==
    ASSUME NEW f, NEW x, NEW y, NEW S, f \in [DOMAIN f -> S], y \in S
    PROVE  With(f, x, y) \in [DOMAIN With(f, x, y) -> S]
BY DEF With

\* Removing an entry keeps the type of the others.
LEMMA WithoutType ==
    ASSUME NEW f, NEW x, NEW S, f \in [DOMAIN f -> S]
    PROVE  Without(f, x) \in [DOMAIN Without(f, x) -> S]
BY DEF Without

-----------------------------------------------------------------------------
(* Accounts. *)

AccountTypeOK ==
    /\ Registered \subseteq Users
    /\ usersByID \in [Registered -> User]
    /\ DOMAIN userIDByEmail \subseteq Emails
    /\ userIDByEmail \in [DOMAIN userIDByEmail -> Users]
    /\ DOMAIN verifyByEmail \subseteq Emails
    /\ verifyByEmail \in [DOMAIN verifyByEmail -> Users]

AccountInv == AccountTypeOK /\ IdentityAgrees

\* A sign-up registers one more user under an email nobody had.
LEMMA SignUpKeeps ==
    ASSUME AccountInv, NEW u \in Users, NEW a \in Addresses, NEW p \in Passwords,
           SignUp(u, a, p)
    PROVE  AccountInv' /\ Registered \subseteq Registered'
<1> DEFINE e == Normal[a]
           new == [email |-> e, password |-> p, status |-> "pending_verification"]
<1>1. /\ u \notin Registered /\ e \notin DOMAIN userIDByEmail /\ e \in Emails
      /\ new \in User
      /\ usersByID' = With(usersByID, u, new)
      /\ userIDByEmail' = With(userIDByEmail, e, u)
      /\ verifyByEmail' = With(verifyByEmail, e, u)
  BY DEF SignUp, Taken, GoodPassword, Emails, User
<1> HIDE DEF e, new
<1>2. /\ Registered' = Registered \cup {u}
      /\ usersByID'[u] = new
      /\ \A v \in Registered : v # u => usersByID'[v] = usersByID[v]
  BY <1>1 DEF With, Registered
<1>3. /\ DOMAIN userIDByEmail' = DOMAIN userIDByEmail \cup {e}
      /\ userIDByEmail'[e] = u
      /\ \A d \in DOMAIN userIDByEmail : d # e => userIDByEmail'[d] = userIDByEmail[d]
  BY <1>1 DEF With
<1>4. /\ DOMAIN verifyByEmail' = DOMAIN verifyByEmail \cup {e}
      /\ verifyByEmail'[e] = u
      /\ \A d \in DOMAIN verifyByEmail : d # e => verifyByEmail'[d] = verifyByEmail[d]
  BY <1>1 DEF With
<1>5. AccountTypeOK'
  <2>1. usersByID' \in [Registered' -> User]
    BY <1>1, WithType DEF AccountInv, AccountTypeOK, Registered
  <2>2. userIDByEmail' \in [DOMAIN userIDByEmail' -> Users]
    BY <1>1, WithType DEF AccountInv, AccountTypeOK
  <2>3. verifyByEmail' \in [DOMAIN verifyByEmail' -> Users]
    BY <1>1, WithType DEF AccountInv, AccountTypeOK
  <2> QED
    BY <1>1, <1>2, <1>3, <1>4, <2>1, <2>2, <2>3 DEF AccountInv, AccountTypeOK
<1>6. new.email = e /\ new.status = "pending_verification"
  BY DEF new
<1>7. IdentityAgrees'
  <2>1. ASSUME NEW d \in DOMAIN userIDByEmail'
        PROVE  userIDByEmail'[d] \in Registered' /\ usersByID'[userIDByEmail'[d]].email = d
    <3>1. CASE d = e
      BY <1>2, <1>3, <1>6, <3>1
    <3>2. CASE d # e
      BY <1>1, <1>2, <1>3, <3>2 DEF AccountInv, IdentityAgrees
    <3> QED
      BY <3>1, <3>2
  <2>2. ASSUME NEW v \in Registered'
        PROVE  LET d == usersByID'[v].email
               IN  /\ d \in DOMAIN userIDByEmail'
                   /\ userIDByEmail'[d] = v
                   /\ usersByID'[v].status = "pending_verification"
                         <=> d \in DOMAIN verifyByEmail' /\ verifyByEmail'[d] = v
    <3>1. CASE v = u
      BY <1>2, <1>3, <1>4, <1>6, <3>1
    <3>2. CASE v # u
      <4>1. v \in Registered /\ usersByID'[v] = usersByID[v]
        BY <1>2, <3>2
      <4>2. usersByID[v].email \in DOMAIN userIDByEmail /\ usersByID[v].email # e
        BY <1>1, <4>1 DEF AccountInv, IdentityAgrees
      <4> QED
        BY <1>3, <1>4, <4>1, <4>2 DEF AccountInv, IdentityAgrees
    <3> QED
      BY <3>1, <3>2
  <2> QED
    BY <2>1, <2>2 DEF IdentityAgrees
<1> QED
  BY <1>2, <1>5, <1>7 DEF AccountInv

\* A verification makes one account active and spends its token.
LEMMA VerifyEmailKeeps ==
    ASSUME AccountInv, NEW a \in Addresses, NEW token \in Users, VerifyEmail(a, token)
    PROVE  AccountInv' /\ Registered \subseteq Registered'
<1> DEFINE e == Normal[a]
           u == userIDByEmail[e]
<1>1. /\ e \in DOMAIN verifyByEmail /\ e \in DOMAIN userIDByEmail
      /\ usersByID' = [usersByID EXCEPT ![u].status = "active"]
      /\ verifyByEmail' = Without(verifyByEmail, e)
      /\ userIDByEmail' = userIDByEmail
  BY DEF VerifyEmail
<1>2. u \in Registered /\ usersByID[u].email = e /\ usersByID[u] \in User
  BY <1>1 DEF AccountInv, IdentityAgrees, AccountTypeOK
<1> HIDE DEF e, u
<1>3. /\ Registered' = Registered
      /\ usersByID'[u] = [usersByID[u] EXCEPT !.status = "active"]
      /\ \A v \in Registered : v # u => usersByID'[v] = usersByID[v]
  BY <1>1, <1>2 DEF AccountInv, AccountTypeOK, Registered
<1>4. /\ DOMAIN verifyByEmail' = DOMAIN verifyByEmail \ {e}
      /\ \A d \in DOMAIN verifyByEmail' : verifyByEmail'[d] = verifyByEmail[d]
  BY <1>1 DEF Without
<1>5. usersByID'[u] \in User /\ usersByID'[u].email = e /\ usersByID'[u].status = "active"
  BY <1>2, <1>3 DEF User
<1>6. AccountTypeOK'
  <2>1. usersByID' \in [Registered' -> User]
    BY <1>1, <1>3, <1>5 DEF AccountInv, AccountTypeOK, Registered
  <2>2. verifyByEmail' \in [DOMAIN verifyByEmail' -> Users]
    BY <1>1, WithoutType DEF AccountInv, AccountTypeOK
  <2> QED
    BY <1>1, <1>3, <1>4, <2>1, <2>2 DEF AccountInv, AccountTypeOK
<1>7. IdentityAgrees'
  <2>1. ASSUME NEW d \in DOMAIN userIDByEmail'
        PROVE  userIDByEmail'[d] \in Registered' /\ usersByID'[userIDByEmail'[d]].email = d
    <3>1. d \in DOMAIN userIDByEmail /\ userIDByEmail'[d] = userIDByEmail[d]
          /\ userIDByEmail[d] \in Registered /\ usersByID[userIDByEmail[d]].email = d
      BY <1>1 DEF AccountInv, IdentityAgrees
    <3> QED
      BY <1>2, <1>3, <1>5, <3>1
  <2>2. ASSUME NEW v \in Registered'
        PROVE  LET d == usersByID'[v].email
               IN  /\ d \in DOMAIN userIDByEmail'
                   /\ userIDByEmail'[d] = v
                   /\ usersByID'[v].status = "pending_verification"
                         <=> d \in DOMAIN verifyByEmail' /\ verifyByEmail'[d] = v
    <3>1. CASE v = u
      BY <1>1, <1>2, <1>4, <1>5, <3>1 DEF u
    <3>2. CASE v # u
      <4>1. v \in Registered /\ usersByID'[v] = usersByID[v]
        BY <1>3, <3>2
      <4>2. /\ usersByID[v].email \in DOMAIN userIDByEmail
            /\ userIDByEmail[usersByID[v].email] = v
            /\ usersByID[v].status = "pending_verification"
                  <=> /\ usersByID[v].email \in DOMAIN verifyByEmail
                      /\ verifyByEmail[usersByID[v].email] = v
        BY <4>1 DEF AccountInv, IdentityAgrees
      <4>3. usersByID[v].email # e
        BY <3>2, <4>2 DEF u
      <4> QED
        BY <1>1, <1>4, <4>1, <4>2, <4>3
    <3> QED
      BY <3>1, <3>2
  <2> QED
    BY <2>1, <2>2 DEF IdentityAgrees
<1> QED
  BY <1>3, <1>6, <1>7 DEF AccountInv

\* A change of password touches nothing an account is found by.
LEMMA ChangePasswordKeeps ==
    ASSUME AccountInv, NEW u, NEW current, NEW new, ChangePassword(u, current, new)
    PROVE  AccountInv' /\ Registered \subseteq Registered'
<1>1. /\ u \in Registered /\ new \in Strong
      /\ usersByID' = [usersByID EXCEPT ![u].password = new]
      /\ userIDByEmail' = userIDByEmail /\ verifyByEmail' = verifyByEmail
  BY DEF ChangePassword, GoodPassword
<1>2. usersByID[u] \in User
  BY <1>1 DEF AccountInv, AccountTypeOK
<1>3. /\ Registered' = Registered
      /\ usersByID'[u] = [usersByID[u] EXCEPT !.password = new]
      /\ \A v \in Registered : v # u => usersByID'[v] = usersByID[v]
  BY <1>1 DEF AccountInv, AccountTypeOK, Registered
<1>4. /\ usersByID'[u] \in User
      /\ usersByID'[u].email = usersByID[u].email
      /\ usersByID'[u].status = usersByID[u].status
  BY <1>1, <1>2, <1>3 DEF User
<1>5. \A v \in Registered : /\ usersByID'[v].email = usersByID[v].email
                            /\ usersByID'[v].status = usersByID[v].status
  BY <1>3, <1>4
<1>6. AccountTypeOK'
  <2>1. usersByID' \in [Registered' -> User]
    BY <1>1, <1>3, <1>4 DEF AccountInv, AccountTypeOK, Registered
  <2> QED
    BY <1>1, <1>3, <2>1 DEF AccountInv, AccountTypeOK
<1>7. IdentityAgrees'
  BY <1>1, <1>3, <1>5 DEF AccountInv, IdentityAgrees
<1> QED
  BY <1>3, <1>6, <1>7 DEF AccountInv

-----------------------------------------------------------------------------
(* Tokens. *)

TokenTypeOK ==
    /\ Issued = 1..Cardinality(Issued)
    /\ accessSessions \in [Issued -> Session]
    /\ DOMAIN refreshTokens \subseteq Issued
    /\ refreshTokens \in [DOMAIN refreshTokens -> Session]
    /\ login \in [Issued -> Issued]
    /\ now \in Nat

TokenInv == /\ TokenTypeOK
            /\ IsFiniteSet(Issued)
            /\ Registered \subseteq Users
            /\ OneRefreshPerLogin

\* LoginsEnd as a step formula.
EndedStay == \A n \in Issued : login[n] = n /\ Ended(n) => Ended(n)'

\* The session a login or a refresh issues is the next number.
LEMMA NextNumber ==
    ASSUME TokenInv
    PROVE  /\ Cardinality(Issued) + 1 \in Nat \ {0}
           /\ Cardinality(Issued) + 1 \notin Issued
           /\ 1..(Cardinality(Issued) + 1) = Issued \cup {Cardinality(Issued) + 1}
           /\ IsFiniteSet(Issued \cup {Cardinality(Issued) + 1})
           /\ Cardinality(Issued \cup {Cardinality(Issued) + 1}) = Cardinality(Issued) + 1
<1>1. IsFiniteSet(Issued) /\ Issued = 1..Cardinality(Issued)
  BY DEF TokenInv, TokenTypeOK
<1>2. Cardinality(Issued) \in Nat
  BY <1>1, FS_CardinalityType
<1>3. Cardinality(Issued) + 1 \notin Issued
  BY <1>1, <1>2
<1>4. 1..(Cardinality(Issued) + 1) = Issued \cup {Cardinality(Issued) + 1}
  BY <1>1, <1>2
<1>5. /\ IsFiniteSet(Issued \cup {Cardinality(Issued) + 1})
      /\ Cardinality(Issued \cup {Cardinality(Issued) + 1}) = Cardinality(Issued) + 1
  BY <1>1, <1>3, FS_AddElement
<1> QED
  BY <1>2, <1>3, <1>4, <1>5

\* A session issued for a registered user to a login of his that has no other
\* usable token, or to a new one.
LEMMA IssueKeeps ==
    ASSUME TokenInv, NEW u \in Registered, NEW tokens, NEW from \in Issued \cup {0},
           tokens \in [DOMAIN tokens -> Session],
           DOMAIN tokens \subseteq DOMAIN refreshTokens,
           \A t \in DOMAIN tokens : tokens[t] = refreshTokens[t],
           from # 0 => /\ accessSessions[from].user = u
                       /\ \A t \in DOMAIN tokens : login[t] # from
                       /\ \E t \in DOMAIN refreshTokens : login[t] = from,
           IssueSession(u, tokens, from), UNCHANGED <<accountVars, now>>
    PROVE  TokenInv' /\ EndedStay
<1> DEFINE n == Cardinality(Issued) + 1
           acc == [user |-> u, expires |-> now + AccessTTL]
           ref == [user |-> u, expires |-> now + RefreshTTL]
           top == IF from = 0 THEN n ELSE from
<1>1. /\ n \in Nat \ {0} /\ n \notin Issued /\ 1..n = Issued \cup {n}
      /\ IsFiniteSet(Issued \cup {n}) /\ Cardinality(Issued \cup {n}) = n
  BY NextNumber
<1>2. /\ accessSessions' = With(accessSessions, n, acc)
      /\ refreshTokens' = With(tokens, n, ref)
      /\ login' = With(login, n, top)
  BY DEF IssueSession
<1>3. acc \in Session /\ ref \in Session /\ acc.user = u /\ ref.user = u
  BY AuthAssumption DEF Session, TokenInv, TokenTypeOK
<1> HIDE DEF n, acc, ref
<1>4. /\ Issued' = Issued \cup {n}
      /\ accessSessions'[n] = acc
      /\ \A m \in Issued : accessSessions'[m] = accessSessions[m]
  BY <1>1, <1>2 DEF With, Issued
<1>5. /\ DOMAIN refreshTokens' = DOMAIN tokens \cup {n}
      /\ refreshTokens'[n] = ref
      /\ \A t \in DOMAIN tokens : refreshTokens'[t] = refreshTokens[t]
  BY <1>1, <1>2 DEF With, TokenInv, TokenTypeOK
<1>6. /\ login'[n] = top /\ top \in Issued \cup {n}
      /\ \A m \in Issued : login'[m] = login[m] /\ login[m] \in Issued
  BY <1>1, <1>2 DEF With, TokenInv, TokenTypeOK
<1>7. TokenTypeOK'
  <2>1. accessSessions' \in [Issued' -> Session]
    BY <1>2, <1>3, WithType DEF TokenInv, TokenTypeOK, Issued
  <2>2. refreshTokens' \in [DOMAIN refreshTokens' -> Session]
    BY <1>2, <1>3, WithType
  <2>3. login' \in [Issued' -> Issued']
    <3>1. DOMAIN login' = Issued' /\ login' = [m \in DOMAIN login' |-> login'[m]]
      BY <1>2, <1>4 DEF With, TokenInv, TokenTypeOK
    <3> QED
      BY <1>4, <1>6, <3>1
  <2>4. Issued' = 1..Cardinality(Issued)'
    BY <1>1, <1>4
  <2>5. DOMAIN refreshTokens' \subseteq Issued'
    BY <1>4, <1>5 DEF TokenInv, TokenTypeOK
  <2> QED
    BY <2>1, <2>2, <2>3, <2>4, <2>5 DEF TokenTypeOK, TokenInv
<1>8. OneRefreshPerLogin'
  <2>1. Registered' = Registered
    BY DEF accountVars, Registered
  <2>2. accessSessions'[top].user = u
    BY <1>3, <1>4
  <2>3. ASSUME NEW m \in Issued'
        PROVE  /\ accessSessions'[m].user \in Registered'
               /\ accessSessions'[m].user = accessSessions'[login'[m]].user
    BY <1>3, <1>4, <1>6, <2>1, <2>2, <2>3 DEF TokenInv, OneRefreshPerLogin
  <2>4. ASSUME NEW t \in DOMAIN refreshTokens'
        PROVE  refreshTokens'[t].user = accessSessions'[t].user
    BY <1>3, <1>4, <1>5, <2>4 DEF TokenInv, TokenTypeOK, OneRefreshPerLogin
  <2>5. \A t \in DOMAIN tokens : login'[t] # top
    BY <1>1, <1>6 DEF TokenInv, TokenTypeOK
  <2>6. ASSUME NEW t \in DOMAIN refreshTokens', NEW r \in DOMAIN refreshTokens',
               login'[t] = login'[r]
        PROVE  t = r
    <3>1. CASE t # n /\ r # n
      BY <1>5, <1>6, <2>6, <3>1 DEF TokenInv, TokenTypeOK, OneRefreshPerLogin
    <3>2. CASE t = n \/ r = n
      BY <1>5, <1>6, <2>5, <2>6, <3>2
    <3> QED
      BY <3>1, <3>2
  <2> QED
    BY <2>3, <2>4, <2>6 DEF OneRefreshPerLogin
<1>9. EndedStay
  <2> SUFFICES ASSUME NEW m \in Issued, Ended(m), NEW t \in DOMAIN refreshTokens'
               PROVE  login'[t] # m
    BY DEF EndedStay, Ended
  <2>1. CASE t = n
    BY <1>1, <1>6, <2>1 DEF Ended
  <2>2. CASE t # n
    BY <1>5, <1>6, <2>2 DEF Ended, TokenInv, TokenTypeOK
  <2> QED
    BY <2>1, <2>2
<1> QED
  BY <1>1, <1>4, <1>7, <1>8, <1>9 DEF TokenInv, accountVars, Registered

\* Tokens that are only given up.
LEMMA DropKeeps ==
    ASSUME TokenInv, NEW t, refreshTokens' = Without(refreshTokens, t),
           UNCHANGED <<accountVars, accessSessions, login, now>>
    PROVE  TokenInv' /\ EndedStay
<1>1. /\ DOMAIN refreshTokens' = DOMAIN refreshTokens \ {t}
      /\ \A r \in DOMAIN refreshTokens' : refreshTokens'[r] = refreshTokens[r]
  BY DEF Without
<1>2. refreshTokens' \in [DOMAIN refreshTokens' -> Session]
  BY WithoutType DEF TokenInv, TokenTypeOK
<1>3. Issued' = Issued /\ Registered' = Registered
  BY DEF Issued, Registered, accountVars
<1>4. TokenTypeOK'
  BY <1>1, <1>2, <1>3 DEF TokenInv, TokenTypeOK
<1>5. OneRefreshPerLogin'
  BY <1>1, <1>3 DEF TokenInv, OneRefreshPerLogin
<1>6. EndedStay
  BY <1>1 DEF EndedStay, Ended
<1> QED
  BY <1>3, <1>4, <1>5, <1>6 DEF TokenInv

\* Each operation on tokens, in a state where the accounts agree.
LEMMA TokenStep ==
    ASSUME AccountInv, TokenInv,
           \/ \E a \in Addresses, p \in Passwords : Login(a, p)
           \/ \E t \in Issued : RefreshSession(t) \/ RefreshExpired(t) \/ Logout(t)
           \/ Tick
    PROVE  AccountInv' /\ TokenInv' /\ EndedStay /\ Registered' = Registered
<1>1. UNCHANGED accountVars
  BY DEF Login, RefreshSession, RefreshExpired, Logout, Tick
<1>2. AccountInv' /\ Registered' = Registered
  BY <1>1 DEF accountVars, AccountInv, AccountTypeOK, IdentityAgrees, Registered
<1>3. ASSUME NEW a \in Addresses, NEW p \in Passwords, Login(a, p)
      PROVE  TokenInv' /\ EndedStay
  <2>1. PICK u \in Registered : IssueSession(u, refreshTokens, 0)
    BY <1>3 DEF Login, AccountInv, IdentityAgrees
  <2>2. UNCHANGED <<accountVars, now>>
    BY <1>3 DEF Login
  <2>3. refreshTokens \in [DOMAIN refreshTokens -> Session]
    BY DEF TokenInv, TokenTypeOK
  <2> QED
    BY <2>1, <2>2, <2>3, IssueKeeps
<1>4. ASSUME NEW t \in Issued, RefreshSession(t)
      PROVE  TokenInv' /\ EndedStay
  <2> DEFINE u == refreshTokens[t].user
             tokens == Unused(t)
             from == login[t]
  <2>1. t \in DOMAIN refreshTokens /\ IssueSession(u, tokens, from)
    BY <1>4 DEF RefreshSession
  <2>2. /\ DOMAIN tokens = DOMAIN refreshTokens \ {t}
        /\ \A r \in DOMAIN tokens : tokens[r] = refreshTokens[r]
    BY DEF Unused, Without
  <2>3. tokens \in [DOMAIN tokens -> Session]
    BY WithoutType DEF TokenInv, TokenTypeOK, Unused
  <2>4. from \in Issued /\ u \in Registered /\ accessSessions[from].user = u
    BY <2>1 DEF TokenInv, TokenTypeOK, OneRefreshPerLogin
  <2>5. \A r \in DOMAIN tokens : login[r] # from
    BY <2>1, <2>2 DEF TokenInv, OneRefreshPerLogin
  <2>6. UNCHANGED <<accountVars, now>>
    BY <1>4 DEF RefreshSession
  <2>7. \E r \in DOMAIN refreshTokens : login[r] = from
    BY <2>1
  <2> HIDE DEF u, tokens, from
  <2>8. DOMAIN tokens \subseteq DOMAIN refreshTokens
    BY <2>2
  <2> QED
    BY <2>1, <2>2, <2>3, <2>4, <2>5, <2>6, <2>7, <2>8, IssueKeeps
<1>5. ASSUME NEW t \in Issued, RefreshExpired(t) \/ Logout(t)
      PROVE  TokenInv' /\ EndedStay
  BY <1>5, DropKeeps DEF RefreshExpired, Logout, Unused
<1>6. ASSUME Tick PROVE TokenInv' /\ EndedStay
  <2>1. now' \in Nat /\ UNCHANGED tokenVars
    BY <1>6 DEF Tick, TokenInv, TokenTypeOK
  <2>2. UNCHANGED <<Issued, Registered>>
    BY <2>1, <1>2 DEF tokenVars, Issued
  <2> QED
    BY <2>1, <2>2 DEF tokenVars, TokenInv, TokenTypeOK, OneRefreshPerLogin, EndedStay, Ended
<1> QED
  BY <1>2, <1>3, <1>4, <1>5, <1>6

\* Operations on accounts leave the tokens alone.
LEMMA TokensUntouched ==
    ASSUME TokenInv, AccountInv', Registered \subseteq Registered', UNCHANGED <<tokenVars, now>>
    PROVE  TokenInv' /\ EndedStay
<1>1. UNCHANGED Issued /\ Registered' \subseteq Users
  BY DEF tokenVars, Issued, AccountInv, AccountTypeOK
<1> QED
  BY <1>1 DEF tokenVars, TokenInv, TokenTypeOK, OneRefreshPerLogin, EndedStay, Ended

AuthInv == AccountInv /\ TokenInv

\* Every operation of the auth service keeps accounts and tokens in order.
LEMMA AuthStep ==
    ASSUME AuthInv, \/ AuthNext
                    \/ \E u \in Users, current, new \in Passwords :
                          ChangePassword(u, current, new)
                    \/ UNCHANGED authVars
    PROVE  AuthInv' /\ EndedStay /\ Registered \subseteq Registered'
<1>1. ASSUME NEW u \in Users, NEW a \in Addresses, NEW p \in Passwords, SignUp(u, a, p)
      PROVE  AuthInv' /\ EndedStay /\ Registered \subseteq Registered'
  BY <1>1, SignUpKeeps, TokensUntouched DEF SignUp, AuthInv
<1>2. ASSUME NEW a \in Addresses, NEW token \in Users, VerifyEmail(a, token)
      PROVE  AuthInv' /\ EndedStay /\ Registered \subseteq Registered'
  BY <1>2, VerifyEmailKeeps, TokensUntouched DEF VerifyEmail, AuthInv
<1>3. ASSUME NEW u \in Users, NEW current \in Passwords, NEW new \in Passwords,
             ChangePassword(u, current, new)
      PROVE  AuthInv' /\ EndedStay /\ Registered \subseteq Registered'
  BY <1>3, ChangePasswordKeeps, TokensUntouched DEF ChangePassword, AuthInv
<1>4. CASE UNCHANGED authVars
  <2>1. UNCHANGED <<accountVars, tokenVars, now>>
    BY <1>4 DEF authVars
  <2>2. UNCHANGED <<usersByID, userIDByEmail, verifyByEmail>>
    BY <2>1 DEF accountVars
  <2>3. AccountInv' /\ Registered' = Registered
    BY <2>2 DEF AuthInv, AccountInv, AccountTypeOK, IdentityAgrees, Registered
  <2> QED
    BY <2>1, <2>3, TokensUntouched DEF AuthInv
<1> QED
  BY <1>1, <1>2, <1>3, <1>4, TokenStep DEF AuthNext, AuthInv

-----------------------------------------------------------------------------
(* Devices. *)

DeviceTypeOK ==
    /\ DOMAIN devicesByID \subseteq Devices
    /\ devicesByID \in [DOMAIN devicesByID -> Device]
    /\ deviceIDsByUID \in [Users -> Seq(Devices)]

DeviceInv == DeviceTypeOK /\ DevicesAgree

\* No device is lost, changes hands or comes back.
DevicesKept ==
    \A d \in DOMAIN devicesByID :
        /\ d \in DOMAIN devicesByID'
        /\ devicesByID'[d].user = devicesByID[d].user
        /\ devicesByID[d].revoked => devicesByID'[d].revoked

\* A device newly registered is the last of its owner's.
LEMMA RegisterKeeps ==
    ASSUME DeviceInv, NEW u \in Users, NEW d \in Devices, Unknown(d),
           devicesByID' = With(devicesByID, d, [user |-> u, revoked |-> FALSE]),
           deviceIDsByUID' = [deviceIDsByUID EXCEPT ![u] = Append(@, d)]
    PROVE  /\ DeviceInv' /\ DevicesKept
           /\ \A x \in DOMAIN devicesByID : devicesByID'[x] = devicesByID[x]
<1> DEFINE new == [user |-> u, revoked |-> FALSE]
<1>1. /\ DOMAIN devicesByID' = DOMAIN devicesByID \cup {d}
      /\ d \notin DOMAIN devicesByID
      /\ devicesByID'[d].user = u
      /\ \A x \in DOMAIN devicesByID : devicesByID'[x] = devicesByID[x]
  BY DEF With, Unknown
<1>2. devicesByID' \in [DOMAIN devicesByID' -> Device]
  <2>1. new \in Device
    BY DEF Device
  <2> QED
    BY <2>1, WithType DEF DeviceInv, DeviceTypeOK
<1>3. /\ deviceIDsByUID \in [Users -> Seq(Devices)]
      /\ deviceIDsByUID'[u] = Append(deviceIDsByUID[u], d)
      /\ \A v \in Users : v # u => deviceIDsByUID'[v] = deviceIDsByUID[v]
  BY DEF DeviceInv, DeviceTypeOK
<1>4. deviceIDsByUID' \in [Users -> Seq(Devices)]
  <2>1. Append(deviceIDsByUID[u], d) \in Seq(Devices)
    BY <1>3
  <2> QED
    BY <1>3, <2>1
<1>5. DeviceTypeOK'
  BY <1>1, <1>2, <1>4 DEF DeviceInv, DeviceTypeOK
<1>6. ASSUME NEW v \in Users
      PROVE  LET q == deviceIDsByUID'[v]
             IN  /\ {q[i] : i \in DOMAIN q} =
                       {x \in DOMAIN devicesByID' : devicesByID'[x].user = v}
                 /\ \A i, j \in DOMAIN q : q[i] = q[j] => i = j
  <2> DEFINE p == deviceIDsByUID[v]
             q == deviceIDsByUID'[v]
  <2>1. /\ {p[i] : i \in DOMAIN p} = {x \in DOMAIN devicesByID : devicesByID[x].user = v}
        /\ \A i, j \in DOMAIN p : p[i] = p[j] => i = j
        /\ p \in Seq(Devices)
    BY <1>3 DEF DeviceInv, DevicesAgree
  <2> HIDE DEF p, q
  <2>2. CASE v # u
    <3>1. q = p
      BY <1>3, <2>2 DEF p, q
    <3>2. {x \in DOMAIN devicesByID' : devicesByID'[x].user = v}
            = {x \in DOMAIN devicesByID : devicesByID[x].user = v}
      BY <1>1, <2>2
    <3>3. /\ {q[i] : i \in DOMAIN q} = {x \in DOMAIN devicesByID' : devicesByID'[x].user = v}
          /\ \A i, j \in DOMAIN q : q[i] = q[j] => i = j
      <4>1. {q[i] : i \in DOMAIN q} = {p[i] : i \in DOMAIN p}
        BY <3>1
      <4>2. \A i, j \in DOMAIN q : q[i] = q[j] => i = j
        BY <2>1, <3>1
      <4> QED
        BY <2>1, <3>2, <4>1, <4>2
    <3> QED
      BY <3>3, Zenon DEF q
  <2>3. CASE v = u
    <3>1. q = Append(p, d)
      BY <1>3, <2>3 DEF p, q
    <3>2. /\ DOMAIN q = DOMAIN p \cup {Len(p) + 1} /\ q[Len(p) + 1] = d
          /\ \A i \in DOMAIN p : q[i] = p[i] /\ i # Len(p) + 1
      BY <2>1, <3>1
    <3>3. {x \in DOMAIN devicesByID' : devicesByID'[x].user = v}
            = {x \in DOMAIN devicesByID : devicesByID[x].user = v} \cup {d}
      BY <1>1, <2>3
    <3>4. {q[i] : i \in DOMAIN q} = {p[i] : i \in DOMAIN p} \cup {d}
      BY <3>2
    <3>5. \A i \in DOMAIN p : p[i] # d
      BY <1>1, <2>1
    <3>6. \A i, j \in DOMAIN q : q[i] = q[j] => i = j
      BY <2>1, <3>2, <3>5
    <3>7. {q[i] : i \in DOMAIN q} = {x \in DOMAIN devicesByID' : devicesByID'[x].user = v}
      BY <2>1, <3>3, <3>4
    <3> QED
      BY <3>6, <3>7, Zenon DEF q
  <2> QED
    BY <2>2, <2>3
<1>7. DevicesAgree'
  BY <1>6 DEF DevicesAgree
<1> QED
  BY <1>1, <1>5, <1>7 DEF DeviceInv, DevicesKept

\* A revocation changes one record, and that only to revoked.
LEMMA RevokeKeeps ==
    ASSUME DeviceInv, NEW d \in DOMAIN devicesByID,
           devicesByID' = [devicesByID EXCEPT ![d].revoked = TRUE],
           UNCHANGED deviceIDsByUID
    PROVE  /\ DeviceInv' /\ DevicesKept
           /\ \A x \in DOMAIN devicesByID : x # d => devicesByID'[x] = devicesByID[x]
<1>1. devicesByID[d] \in Device
  BY DEF DeviceInv, DeviceTypeOK
<1>2. /\ DOMAIN devicesByID' = DOMAIN devicesByID
      /\ devicesByID'[d] = [devicesByID[d] EXCEPT !.revoked = TRUE]
      /\ \A x \in DOMAIN devicesByID : x # d => devicesByID'[x] = devicesByID[x]
  BY DEF DeviceInv, DeviceTypeOK
<1>3. /\ devicesByID'[d] \in Device
      /\ devicesByID'[d].user = devicesByID[d].user
      /\ devicesByID'[d].revoked
  BY <1>1, <1>2 DEF Device
<1>4. DeviceTypeOK'
  <2>1. \A x \in DOMAIN devicesByID : devicesByID'[x] \in Device
    BY <1>2, <1>3 DEF DeviceInv, DeviceTypeOK
  <2>2. devicesByID' = [x \in DOMAIN devicesByID' |-> devicesByID'[x]]
    BY DEF DeviceInv, DeviceTypeOK
  <2> QED
    BY <1>2, <2>1, <2>2 DEF DeviceInv, DeviceTypeOK
<1>5. \A v \in Users : {x \in DOMAIN devicesByID' : devicesByID'[x].user = v}
                        = {x \in DOMAIN devicesByID : devicesByID[x].user = v}
  BY <1>2, <1>3
<1>6. DevicesAgree'
  BY <1>5 DEF DeviceInv, DevicesAgree
<1> QED
  BY <1>2, <1>3, <1>4, <1>6 DEF DeviceInv, DevicesKept

-----------------------------------------------------------------------------
(* Requests and connections. *)

HandlerTypeOK ==
    /\ pc \in [Requests \cup Conns -> {"new", "act", "check", "bind", "bound", "refused"}]
    /\ caller \in [DOMAIN caller -> Users]
    /\ \A p \in Requests \cup Conns : p \in DOMAIN caller <=> pc[p] # "new"
    /\ wanted \in [DOMAIN wanted -> Devices]
    /\ late \subseteq Conns

\* Who was authenticated has an account; a connection that was knows which device
\* it wants, and one counts as late only if that device is revoked.
HandlersKnow ==
    /\ DOMAIN caller \subseteq Requests \cup Conns
    /\ \A p \in DOMAIN caller : caller[p] \in Registered
    /\ \A c \in Conns : pc[c] # "new" => c \in DOMAIN wanted
    /\ \A c \in late : /\ pc[c] # "new"
                       /\ wanted[c] \in DOMAIN devicesByID
                       /\ devicesByID[wanted[c]].revoked

HandlerInv == HandlerTypeOK /\ HandlersKnow /\ BoundOwned

\* Registrations, revocations and whatever the auth service does disturb no
\* handler that waits.
LEMMA HandlersUntouched ==
    ASSUME HandlerInv, DevicesKept, Registered \subseteq Registered', UNCHANGED handlerVars
    PROVE  HandlerInv'
<1>1. UNCHANGED <<pc, caller, wanted, late>>
  BY DEF handlerVars
<1>2. HandlerTypeOK'
  BY <1>1 DEF HandlerInv, HandlerTypeOK
<1>3. HandlersKnow'
  BY <1>1 DEF HandlerInv, HandlerTypeOK, HandlersKnow, DevicesKept
<1>4. BoundOwned'
  BY <1>1 DEF HandlerInv, BoundOwned, DevicesKept
<1> QED
  BY <1>2, <1>3, <1>4 DEF HandlerInv

\* A request that ends frees its place and disturbs no other handler.
LEMMA RespondKeeps ==
    ASSUME HandlerInv, DevicesKept, Registered \subseteq Registered',
           NEW r \in Requests, Respond(r)
    PROVE  HandlerInv' /\ r \in DOMAIN caller \ DOMAIN caller' /\ caller[r] \in Users
<1>1. /\ pc[r] = "act" /\ pc' = [pc EXCEPT ![r] = "new"]
      /\ caller' = Without(caller, r)
      /\ wanted' = wanted /\ late' = late
  BY DEF Respond, Go
<1>2. /\ DOMAIN caller' = DOMAIN caller \ {r}
      /\ \A p \in DOMAIN caller' : caller'[p] = caller[p]
  BY <1>1 DEF Without
<1>3. /\ pc' \in [Requests \cup Conns ->
                    {"new", "act", "check", "bind", "bound", "refused"}]
      /\ pc'[r] = "new"
      /\ \A p \in Requests \cup Conns : p # r => pc'[p] = pc[p]
      /\ \A c \in Conns : c # r
  BY <1>1, AccountsAssumption DEF HandlerInv, HandlerTypeOK
<1>4. HandlerTypeOK'
  <2>1. caller' \in [DOMAIN caller' -> Users]
    BY <1>1, WithoutType DEF HandlerInv, HandlerTypeOK
  <2>2. \A p \in Requests \cup Conns : p \in DOMAIN caller' <=> pc'[p] # "new"
    BY <1>2, <1>3 DEF HandlerInv, HandlerTypeOK
  <2> QED
    BY <1>1, <1>3, <2>1, <2>2 DEF HandlerInv, HandlerTypeOK
<1>5. HandlersKnow'
  BY <1>1, <1>2, <1>3 DEF HandlerInv, HandlerTypeOK, HandlersKnow, DevicesKept
<1>6. BoundOwned'
  <2> SUFFICES ASSUME NEW c \in Conns, pc'[c] \in {"bind", "bound"}
               PROVE  /\ caller'[c] \in Registered'
                      /\ wanted'[c] \in DOMAIN devicesByID'
                      /\ devicesByID'[wanted'[c]].user = caller'[c]
                      /\ c \notin late'
    BY DEF BoundOwned
  <2>1. pc[c] = pc'[c] /\ c \in DOMAIN caller'
    BY <1>2, <1>3 DEF HandlerInv, HandlerTypeOK
  <2>2. /\ caller[c] \in Registered /\ wanted[c] \in DOMAIN devicesByID
        /\ devicesByID[wanted[c]].user = caller[c] /\ c \notin late
    BY <2>1 DEF HandlerInv, BoundOwned
  <2> QED
    BY <1>1, <1>2, <2>1, <2>2 DEF DevicesKept
<1>7. r \in DOMAIN caller /\ caller[r] \in Users
  BY <1>1 DEF HandlerInv, HandlerTypeOK
<1> QED
  BY <1>2, <1>4, <1>5, <1>6, <1>7 DEF HandlerInv

\* What a request or connection that authenticates learns.
LEMMA AuthorizeKeeps ==
    ASSUME TokenInv, HandlerInv, NEW r \in Requests, Authorize(r)
    PROVE  HandlerInv'
<1>1. PICK t \in Issued : caller' = With(caller, r, accessSessions[t].user)
  BY DEF Authorize
<1>2. /\ pc[r] = "new" /\ pc' = [pc EXCEPT ![r] = "act"]
      /\ UNCHANGED <<wanted, late, devicesByID, Registered>>
  BY DEF Authorize, Go, authVars, accountVars, deviceVars, Registered
<1>3. accessSessions[t].user \in Registered /\ accessSessions[t].user \in Users
  BY DEF TokenInv, OneRefreshPerLogin
<1>4. /\ DOMAIN caller' = DOMAIN caller \cup {r}
      /\ caller'[r] \in Registered
      /\ \A p \in DOMAIN caller : p # r => caller'[p] = caller[p]
  BY <1>1, <1>3 DEF With
<1>5. /\ pc' \in [Requests \cup Conns ->
                    {"new", "act", "check", "bind", "bound", "refused"}]
      /\ pc'[r] = "act"
      /\ \A p \in Requests \cup Conns : p # r => pc'[p] = pc[p]
      /\ \A c \in Conns : c # r
  BY <1>2, AccountsAssumption DEF HandlerInv, HandlerTypeOK
<1>6. HandlerTypeOK'
  <2>1. caller' \in [DOMAIN caller' -> Users]
    BY <1>1, <1>3, WithType DEF HandlerInv, HandlerTypeOK
  <2>2. \A p \in Requests \cup Conns : p \in DOMAIN caller' <=> pc'[p] # "new"
    BY <1>4, <1>5 DEF HandlerInv, HandlerTypeOK
  <2> QED
    BY <1>2, <1>5, <2>1, <2>2 DEF HandlerInv, HandlerTypeOK
<1>7. HandlersKnow'
  BY <1>2, <1>4, <1>5 DEF HandlerInv, HandlerTypeOK, HandlersKnow
<1>8. BoundOwned'
  <2> SUFFICES ASSUME NEW c \in Conns, pc'[c] \in {"bind", "bound"}
               PROVE  /\ caller'[c] \in Registered'
                      /\ wanted'[c] \in DOMAIN devicesByID'
                      /\ devicesByID'[wanted'[c]].user = caller'[c]
                      /\ c \notin late'
    BY DEF BoundOwned
  <2>1. pc[c] = pc'[c] /\ c # r /\ c \in DOMAIN caller
    BY <1>5 DEF HandlerInv, HandlerTypeOK
  <2>2. /\ caller[c] \in Registered /\ wanted[c] \in DOMAIN devicesByID
        /\ devicesByID[wanted[c]].user = caller[c] /\ c \notin late
    BY <2>1 DEF HandlerInv, BoundOwned
  <2> QED
    BY <1>2, <1>4, <2>1, <2>2
<1> QED
  BY <1>6, <1>7, <1>8 DEF HandlerInv

\* A connection that authenticates counts as late exactly if the device it
\* wants is revoked already.
LEMMA BindAuthenticatesKeeps ==
    ASSUME TokenInv, HandlerInv, NEW c \in Conns, BindAuthenticates(c)
    PROVE  HandlerInv'
<1>1. PICK t \in Issued, d \in Devices :
         /\ caller' = With(caller, c, accessSessions[t].user)
         /\ wanted' = With(wanted, c, d)
         /\ late' = IF d \in DOMAIN devicesByID /\ devicesByID[d].revoked
                    THEN late \cup {c} ELSE late
  BY DEF BindAuthenticates
<1>2. /\ pc[c] = "new" /\ pc' = [pc EXCEPT ![c] = "check"]
      /\ UNCHANGED <<devicesByID, Registered>>
  BY DEF BindAuthenticates, Go, authVars, accountVars, deviceVars, Registered
<1>3. accessSessions[t].user \in Registered /\ accessSessions[t].user \in Users
  BY DEF TokenInv, OneRefreshPerLogin
<1>4. /\ DOMAIN caller' = DOMAIN caller \cup {c}
      /\ caller'[c] \in Registered
      /\ \A p \in DOMAIN caller : p # c => caller'[p] = caller[p]
  BY <1>1, <1>3 DEF With
<1>5. /\ DOMAIN wanted' = DOMAIN wanted \cup {c}
      /\ wanted'[c] = d
      /\ \A p \in DOMAIN wanted : p # c => wanted'[p] = wanted[p]
  BY <1>1 DEF With
<1>6. /\ pc' \in [Requests \cup Conns ->
                    {"new", "act", "check", "bind", "bound", "refused"}]
      /\ pc'[c] = "check"
      /\ \A p \in Requests \cup Conns : p # c => pc'[p] = pc[p]
      /\ c \notin late
  BY <1>2 DEF HandlerInv, HandlerTypeOK, HandlersKnow
<1>7. HandlerTypeOK'
  <2>1. caller' \in [DOMAIN caller' -> Users]
    BY <1>1, <1>3, WithType DEF HandlerInv, HandlerTypeOK
  <2>2. \A p \in Requests \cup Conns : p \in DOMAIN caller' <=> pc'[p] # "new"
    BY <1>4, <1>6 DEF HandlerInv, HandlerTypeOK
  <2>3. wanted' \in [DOMAIN wanted' -> Devices]
    BY <1>1, WithType DEF HandlerInv, HandlerTypeOK
  <2>4. late' \subseteq Conns
    BY <1>1 DEF HandlerInv, HandlerTypeOK
  <2> QED
    BY <1>6, <2>1, <2>2, <2>3, <2>4 DEF HandlerTypeOK
<1>8. HandlersKnow'
  <2>1. DOMAIN caller' \subseteq Requests \cup Conns
    BY <1>4 DEF HandlerInv, HandlersKnow
  <2>2. \A p \in DOMAIN caller' : caller'[p] \in Registered'
    BY <1>2, <1>4 DEF HandlerInv, HandlersKnow
  <2>3. \A x \in Conns : pc'[x] # "new" => x \in DOMAIN wanted'
    BY <1>5, <1>6 DEF HandlerInv, HandlersKnow
  <2>4. ASSUME NEW x \in late'
        PROVE  /\ pc'[x] # "new"
               /\ wanted'[x] \in DOMAIN devicesByID'
               /\ devicesByID'[wanted'[x]].revoked
    <3>1. CASE x = c
      BY <1>1, <1>2, <1>5, <1>6, <3>1
    <3>2. CASE x # c
      <4>1. x \in late /\ x \in Conns /\ pc[x] # "new" /\ x \in DOMAIN wanted
            /\ wanted[x] \in DOMAIN devicesByID /\ devicesByID[wanted[x]].revoked
        BY <1>1, <3>2 DEF HandlerInv, HandlerTypeOK, HandlersKnow
      <4> QED
        BY <1>2, <1>5, <1>6, <3>2, <4>1
    <3> QED
      BY <3>1, <3>2
  <2> QED
    BY <2>1, <2>2, <2>3, <2>4 DEF HandlersKnow
<1>9. BoundOwned'
  <2> SUFFICES ASSUME NEW x \in Conns, pc'[x] \in {"bind", "bound"}
               PROVE  /\ caller'[x] \in Registered'
                      /\ wanted'[x] \in DOMAIN devicesByID'
                      /\ devicesByID'[wanted'[x]].user = caller'[x]
                      /\ x \notin late'
    BY DEF BoundOwned
  <2>1. pc[x] = pc'[x] /\ x # c /\ x \in DOMAIN caller /\ x \in DOMAIN wanted
    BY <1>6 DEF HandlerInv, HandlerTypeOK, HandlersKnow
  <2>2. /\ caller[x] \in Registered /\ wanted[x] \in DOMAIN devicesByID
        /\ devicesByID[wanted[x]].user = caller[x] /\ x \notin late
    BY <2>1 DEF HandlerInv, BoundOwned
  <2> QED
    BY <1>1, <1>2, <1>4, <1>5, <2>1, <2>2
<1> QED
  BY <1>7, <1>8, <1>9 DEF HandlerInv

\* The check of the device lets only its owner through, and not if it was
\* revoked; the bind itself looks at nothing again.
LEMMA BindKeeps ==
    ASSUME DeviceInv, HandlerInv, NEW c \in Conns, BindChecksDevice(c) \/ BindSession(c)
    PROVE  HandlerInv'
<1> DEFINE owns == OwnsActiveDevice(caller[c], wanted[c])
<1>1. UNCHANGED <<caller, wanted, late, devicesByID, Registered>>
  BY DEF BindChecksDevice, BindSession, authVars, accountVars, deviceVars, Registered
<1>2. PICK to \in {"bind", "refused", "bound"} :
         /\ pc' = [pc EXCEPT ![c] = to]
         /\ pc[c] \in {"check", "bind"}
         /\ to = "bind" => owns
         /\ to = "bound" => pc[c] = "bind"
  BY DEF BindChecksDevice, BindSession, Go
<1>3. /\ pc' \in [Requests \cup Conns ->
                    {"new", "act", "check", "bind", "bound", "refused"}]
      /\ pc'[c] = to
      /\ \A p \in Requests \cup Conns : p # c => pc'[p] = pc[p]
  BY <1>2 DEF HandlerInv, HandlerTypeOK
<1>4. caller[c] \in Registered /\ caller[c] \in Users /\ c \in DOMAIN caller
  BY <1>2 DEF HandlerInv, HandlerTypeOK, HandlersKnow
<1>5. HandlerTypeOK'
  BY <1>1, <1>2, <1>3 DEF HandlerInv, HandlerTypeOK
<1>6. HandlersKnow'
  BY <1>1, <1>2, <1>3 DEF HandlerInv, HandlerTypeOK, HandlersKnow
<1>7. owns => /\ wanted[c] \in DOMAIN devicesByID
              /\ devicesByID[wanted[c]].user = caller[c]
              /\ ~devicesByID[wanted[c]].revoked
  <2> DEFINE q == deviceIDsByUID[caller[c]]
  <2>1. {q[i] : i \in DOMAIN q} = {d \in DOMAIN devicesByID : devicesByID[d].user = caller[c]}
    BY <1>4 DEF DeviceInv, DevicesAgree
  <2>2. owns => Active(wanted[c]) /\ wanted[c] \in {q[i] : i \in DOMAIN q}
    BY DEF OwnsActiveDevice
  <2> QED
    BY <2>1, <2>2 DEF Active
<1> HIDE DEF owns
<1>8. BoundOwned'
  <2> SUFFICES ASSUME NEW x \in Conns, pc'[x] \in {"bind", "bound"}
               PROVE  /\ caller[x] \in Registered
                      /\ wanted[x] \in DOMAIN devicesByID
                      /\ devicesByID[wanted[x]].user = caller[x]
                      /\ x \notin late
    BY <1>1 DEF BoundOwned
  <2>1. CASE x # c \/ to = "bound"
    BY <1>2, <1>3, <2>1 DEF HandlerInv, BoundOwned
  <2>2. CASE x = c /\ to = "bind"
    BY <1>2, <1>4, <1>7, <2>2 DEF HandlerInv, HandlersKnow
  <2> QED
    BY <1>3, <2>1, <2>2
<1> QED
  BY <1>5, <1>6, <1>8 DEF HandlerInv

-----------------------------------------------------------------------------
(* The whole. *)

IInv == AuthInv /\ DeviceInv /\ HandlerInv

\* RevokedForGood as a step formula.
RevokedByOwner ==
    \A d \in DOMAIN devicesByID :
        /\ devicesByID'[d].user = devicesByID[d].user
        /\ devicesByID[d].revoked => devicesByID'[d].revoked
        /\ ~devicesByID[d].revoked /\ devicesByID'[d].revoked =>
              \E r \in Requests : r \in DOMAIN caller \ DOMAIN caller'
                                  /\ caller[r] = devicesByID[d].user

Good == IInv' /\ EndedStay /\ RevokedByOwner

\* Where the devices stay as they are.
LEMMA DevicesUntouched ==
    ASSUME DeviceInv, UNCHANGED deviceVars
    PROVE  DeviceInv' /\ DevicesKept /\ RevokedByOwner
<1>1. UNCHANGED <<devicesByID, deviceIDsByUID>>
  BY DEF deviceVars
<1> QED
  BY <1>1 DEF DeviceInv, DeviceTypeOK, DevicesAgree, DevicesKept, RevokedByOwner

\* A step of the auth service that no handler is part of.
LEMMA AuthNextGood ==
    ASSUME IInv, AuthNext \/ UNCHANGED authVars, UNCHANGED <<deviceVars, handlerVars>>
    PROVE  Good
BY AuthStep, DevicesUntouched, HandlersUntouched DEF IInv, Good

\* A step of a request.
LEMMA RequestGood ==
    ASSUME IInv, NEW r \in Requests,
           \/ Authorize(r)
           \/ \E d \in Devices : Register(r, d) \/ Revoke(r, d)
           \/ \E current, new \in Passwords : RequestPassword(r, current, new)
           \/ ReadOnly(r)
    PROVE  Good
<1>1. CASE Authorize(r)
  <2>1. UNCHANGED <<authVars, deviceVars>>
    BY <1>1 DEF Authorize
  <2> QED
    BY <1>1, <2>1, AuthStep, DevicesUntouched, AuthorizeKeeps DEF IInv, AuthInv, Good
<1>2. ASSUME NEW d \in Devices, Register(r, d) PROVE Good
  <2>1. Respond(r) /\ UNCHANGED authVars /\ Unknown(d)
    BY <1>2 DEF Register
  <2>2. AuthInv' /\ EndedStay /\ Registered \subseteq Registered'
    BY <2>1, AuthStep DEF IInv
  <2>3. caller[r] \in Users
    BY <2>1 DEF Respond, Go, IInv, HandlerInv, HandlerTypeOK
  <2>4. /\ DeviceInv' /\ DevicesKept
        /\ \A x \in DOMAIN devicesByID : devicesByID'[x] = devicesByID[x]
    BY <1>2, <2>1, <2>3, RegisterKeeps DEF Register, IInv
  <2>5. HandlerInv'
    BY <2>1, <2>2, <2>4, RespondKeeps DEF IInv
  <2>6. RevokedByOwner
    BY <2>4 DEF RevokedByOwner
  <2> QED
    BY <2>2, <2>4, <2>5, <2>6 DEF IInv, Good
<1>3. ASSUME NEW d \in Devices, Revoke(r, d) PROVE Good
  <2>1. /\ Respond(r) /\ UNCHANGED <<authVars, deviceIDsByUID>>
        /\ d \in DOMAIN devicesByID /\ devicesByID[d].user = caller[r]
        /\ devicesByID' = [devicesByID EXCEPT ![d].revoked = TRUE]
    BY <1>3 DEF Revoke, CanRevoke, Active
  <2>2. AuthInv' /\ EndedStay /\ Registered \subseteq Registered'
    BY <2>1, AuthStep DEF IInv
  <2>3. /\ DeviceInv' /\ DevicesKept
        /\ \A x \in DOMAIN devicesByID : x # d => devicesByID'[x] = devicesByID[x]
    BY <2>1, RevokeKeeps DEF IInv
  <2>4. HandlerInv' /\ r \in DOMAIN caller \ DOMAIN caller'
    BY <2>1, <2>2, <2>3, RespondKeeps DEF IInv
  <2>5. RevokedByOwner
    BY <2>1, <2>3, <2>4 DEF RevokedByOwner, DevicesKept
  <2> QED
    BY <2>2, <2>3, <2>4, <2>5 DEF IInv, Good
<1>4. ASSUME NEW current \in Passwords, NEW new \in Passwords,
             RequestPassword(r, current, new)
      PROVE  Good
  <2>1. Respond(r) /\ ChangePassword(caller[r], current, new) /\ UNCHANGED deviceVars
    BY <1>4 DEF RequestPassword
  <2>2. caller[r] \in Users
    BY <2>1 DEF Respond, Go, IInv, HandlerInv, HandlerTypeOK
  <2>3. AuthInv' /\ EndedStay /\ Registered \subseteq Registered'
    BY <2>1, <2>2, AuthStep DEF IInv
  <2> QED
    BY <2>1, <2>3, DevicesUntouched, RespondKeeps DEF IInv, Good
<1>5. CASE ReadOnly(r)
  <2>1. Respond(r) /\ UNCHANGED <<authVars, deviceVars>>
    BY <1>5 DEF ReadOnly
  <2> QED
    BY <2>1, AuthStep, DevicesUntouched, RespondKeeps DEF IInv, Good
<1> QED
  BY <1>1, <1>2, <1>3, <1>4, <1>5

\* A step of a binding connection.
LEMMA BindGood ==
    ASSUME IInv, NEW c \in Conns,
           BindAuthenticates(c) \/ BindChecksDevice(c) \/ BindSession(c)
    PROVE  Good
<1>1. UNCHANGED <<authVars, deviceVars>>
  BY DEF BindAuthenticates, BindChecksDevice, BindSession
<1>2. HandlerInv'
  BY BindAuthenticatesKeeps, BindKeeps DEF IInv, AuthInv
<1> QED
  BY <1>1, <1>2, AuthStep, DevicesUntouched DEF IInv, Good

\* Every step keeps the invariant and changes only what it may.
LEMMA InductiveStep == ASSUME IInv, [Next]_vars PROVE Good
<1>1. CASE UNCHANGED vars
  BY <1>1, AuthNextGood DEF vars
<1> QED
  BY <1>1, AuthNextGood, RequestGood, BindGood DEF Next

\* The invariant the theorems below rest on.
LEMMA Inductive == Spec => []IInv
<1>1. Init => IInv
  <2> SUFFICES ASSUME Init PROVE IInv
    OBVIOUS
  <2>1. /\ DOMAIN usersByID = {} /\ DOMAIN userIDByEmail = {} /\ DOMAIN verifyByEmail = {}
        /\ AccountInv
    BY DEF Init, AuthInit, AccountInv, AccountTypeOK, IdentityAgrees, Registered
  <2>2. TokenInv
    <3>1. Issued = {} /\ IsFiniteSet(Issued) /\ Cardinality(Issued) = 0
      BY FS_EmptySet DEF Init, AuthInit, Issued
    <3>2. Issued = 1..Cardinality(Issued)
      BY <3>1
    <3> QED
      BY <2>1, <3>1, <3>2 DEF Init, AuthInit, TokenInv, TokenTypeOK, OneRefreshPerLogin,
                              Registered
  <2>3. DeviceInv
    BY DEF Init, DeviceInv, DeviceTypeOK, DevicesAgree
  <2>4. HandlerInv
    BY DEF Init, HandlerInv, HandlerTypeOK, HandlersKnow, BoundOwned
  <2> QED
    BY <2>1, <2>2, <2>3, <2>4 DEF IInv, AuthInv
<1>2. IInv /\ [Next]_vars => IInv'
  BY InductiveStep DEF Good
<1> QED
  BY <1>1, <1>2, PTL DEF Spec

\* Every variable keeps its type: only strong passwords are kept, sessions are
\* numbered without gaps, a handler past authentication has a caller.
THEOREM TypeCorrect == Spec => []TypeOK
<1>1. IInv => TypeOK
  BY DEF IInv, AuthInv, AccountInv, AccountTypeOK, TokenInv, TokenTypeOK, DeviceInv,
         DeviceTypeOK, HandlerInv, HandlerTypeOK, TypeOK, AuthTypeOK
<1> QED
  BY <1>1, Inductive, PTL

\* However it is typed, an email finds the one account registered with it.
THEOREM IdentityAlwaysAgrees == Spec => []IdentityAgrees
<1>1. IInv => IdentityAgrees
  BY DEF IInv, AuthInv, AccountInv
<1> QED
  BY <1>1, Inductive, PTL

\* Of the tokens that descend from one login at most one can be refreshed.
THEOREM RefreshUnique == Spec => []OneRefreshPerLogin
<1>1. IInv => OneRefreshPerLogin
  BY DEF IInv, AuthInv, TokenInv
<1> QED
  BY <1>1, Inductive, PTL

\* A device is in the list of its owner, once, and in no other.
THEOREM DeviceListsAgree == Spec => []DevicesAgree
<1>1. IInv => DevicesAgree
  BY DEF IInv, DeviceInv
<1> QED
  BY <1>1, Inductive, PTL

\* A connection is bound only as the owner of a device that was not revoked
\* when it asked, whatever happens between the checks.
THEOREM BindSafety == Spec => []BoundOwned
<1>1. IInv => BoundOwned
  BY DEF IInv, HandlerInv
<1> QED
  BY <1>1, Inductive, PTL

\* A login that has no usable refresh token never gets one again.
THEOREM LoginsStayEnded == Spec => LoginsEnd
<1>1. IInv /\ [Next]_vars =>
        [\A n \in Issued : login[n] = n /\ Ended(n) => Ended(n)']_authVars
  BY InductiveStep DEF Good, EndedStay
<1> QED
  BY <1>1, Inductive, PTL DEF Spec, LoginsEnd

\* A device never changes hands, stays revoked, and is revoked by its owner only.
THEOREM RevocationSafety == Spec => RevokedForGood
<1>1. IInv /\ [Next]_vars => [RevokedByOwner]_vars
  BY InductiveStep DEF Good
<1> QED
  BY <1>1, Inductive, PTL DEF Spec, RevokedForGood, RevokedByOwner

-----------------------------------------------------------------------------
(* The abstract specification of refresh tokens. *)

\* A usable token is the one its login holds.
LEMMA HeldToken ==
    ASSUME TokenInv, NEW t \in DOMAIN refreshTokens
    PROVE  /\ login[t] \in Live
           /\ Held[login[t]] = [token |-> t, user |-> refreshTokens[t].user]
<1>1. \A r \in DOMAIN refreshTokens : login[r] = login[t] => r = t
  BY DEF TokenInv, OneRefreshPerLogin
<1>2. HeldBy(login[t]) = t
  BY <1>1 DEF HeldBy
<1> QED
  BY <1>2 DEF Live, Held

\* The same of the next state.
LEMMA HeldTokenNext ==
    ASSUME TokenInv', NEW t \in DOMAIN refreshTokens'
    PROVE  /\ login'[t] \in Live'
           /\ Held'[login'[t]] = [token |-> t, user |-> refreshTokens'[t].user]
<1>1. \A r \in DOMAIN refreshTokens' : login'[r] = login'[t] => r = t
  BY DEF TokenInv, OneRefreshPerLogin
<1>2. (CHOOSE r \in DOMAIN refreshTokens' : login'[r] = login'[t]) = t
  BY <1>1
<1> QED
  BY <1>2 DEF Live, Held, HeldBy

\* A token that stays usable is held as before.
LEMMA HeldStays ==
    ASSUME TokenInv, TokenInv', NEW t \in DOMAIN refreshTokens, t \in DOMAIN refreshTokens',
           login'[t] = login[t], refreshTokens'[t] = refreshTokens[t]
    PROVE  login[t] \in Live' /\ Held'[login[t]] = Held[login[t]]
<1>1. Held[login[t]] = [token |-> t, user |-> refreshTokens[t].user]
  BY HeldToken
<1>2. /\ login'[t] \in Live'
      /\ Held'[login'[t]] = [token |-> t, user |-> refreshTokens'[t].user]
  BY HeldTokenNext
<1> QED
  BY <1>1, <1>2

\* What issuing a session does to the tokens of logins.
LEMMA IssueEffect ==
    ASSUME TokenInv, TokenInv', NEW u, NEW tokens, NEW from,
           DOMAIN tokens \subseteq DOMAIN refreshTokens,
           \A t \in DOMAIN tokens : tokens[t] = refreshTokens[t],
           IssueSession(u, tokens, from)
    PROVE  LET n == Cardinality(Issued) + 1
           IN  /\ n \notin Issued /\ Cardinality(Issued)' = n
               /\ DOMAIN refreshTokens' = DOMAIN tokens \cup {n}
               /\ refreshTokens'[n].user = u
               /\ login'[n] = IF from = 0 THEN n ELSE from
               /\ \A t \in DOMAIN tokens : /\ refreshTokens'[t] = refreshTokens[t]
                                            /\ login'[t] = login[t]
<1> DEFINE n == Cardinality(Issued) + 1
           ref == [user |-> u, expires |-> now + RefreshTTL]
<1>1. n \notin Issued /\ Cardinality(Issued \cup {n}) = n
  BY NextNumber
<1>2. /\ accessSessions' = With(accessSessions, n, [user |-> u, expires |-> now + AccessTTL])
      /\ refreshTokens' = With(tokens, n, ref)
      /\ login' = With(login, n, IF from = 0 THEN n ELSE from)
  BY DEF IssueSession
<1>3. ref.user = u
  OBVIOUS
<1> HIDE DEF n, ref
<1>4. Issued' = Issued \cup {n}
  BY <1>2 DEF With, Issued
<1>5. DOMAIN tokens \subseteq Issued /\ n \notin DOMAIN tokens
  BY <1>1 DEF TokenInv, TokenTypeOK
<1>6. /\ DOMAIN refreshTokens' = DOMAIN tokens \cup {n}
      /\ refreshTokens'[n].user = u
      /\ \A t \in DOMAIN tokens : refreshTokens'[t] = refreshTokens[t]
  BY <1>2, <1>3, <1>5 DEF With
<1>7. /\ login'[n] = IF from = 0 THEN n ELSE from
      /\ \A t \in DOMAIN tokens : login'[t] = login[t]
  BY <1>1, <1>2, <1>5 DEF With, TokenInv, TokenTypeOK
<1> QED
  BY <1>1, <1>4, <1>6, <1>7 DEF n

\* A login begins with a token of its own.
LEMMA LoginBegins ==
    ASSUME TokenInv, TokenInv', NEW u \in Users, IssueSession(u, refreshTokens, 0)
    PROVE  Chains!Begin(u)
<1> DEFINE n == Cardinality(Issued) + 1
           begun == [l \in Live \cup {n} |->
                        IF l = n THEN [token |-> n, user |-> u] ELSE Held[l]]
<1>1. /\ n \notin Issued /\ Cardinality(Issued)' = n
      /\ DOMAIN refreshTokens' = DOMAIN refreshTokens \cup {n}
      /\ refreshTokens'[n].user = u /\ login'[n] = n
      /\ \A t \in DOMAIN refreshTokens : /\ refreshTokens'[t] = refreshTokens[t]
                                         /\ login'[t] = login[t]
  BY IssueEffect
<1> HIDE DEF n
<1>2. Live' = Live \cup {n}
  BY <1>1 DEF Live
<1>3. n \notin Live
  BY <1>1 DEF Live, TokenInv, TokenTypeOK
<1>4. Held'[n] = [token |-> n, user |-> u]
  BY <1>1, HeldTokenNext
<1>5. ASSUME NEW l \in Live PROVE Held'[l] = Held[l]
  <2>1. PICK t \in DOMAIN refreshTokens : l = login[t]
    BY DEF Live
  <2> QED
    BY <1>1, <2>1, HeldStays
<1>6. Held' = begun
  <2>1. DOMAIN Held' = Live' /\ Held' = [l \in Live' |-> Held'[l]]
    BY DEF Held
  <2>2. \A l \in Live' : Held'[l] = begun[l]
    BY <1>2, <1>3, <1>4, <1>5
  <2>3. begun = [l \in Live' |-> begun[l]]
    BY <1>2
  <2> HIDE DEF begun
  <2> QED
    BY <2>1, <2>2, <2>3
<1>7. DOMAIN Held = Live
  BY DEF Held
<1> QED
  BY <1>1, <1>6, <1>7 DEF Chains!Begin, Chains!Fresh, n

\* A refresh replaces the token of its login.
LEMMA RefreshRenews ==
    ASSUME TokenInv, TokenInv', NEW t \in DOMAIN refreshTokens,
           IssueSession(refreshTokens[t].user, Unused(t), login[t])
    PROVE  Chains!Renew(login[t]) /\ login[t] \in DOMAIN Held
<1> DEFINE n == Cardinality(Issued) + 1
           u == refreshTokens[t].user
           renewed == [Held EXCEPT ![login[t]].token = n]
<1>1. /\ DOMAIN Unused(t) = DOMAIN refreshTokens \ {t}
      /\ \A r \in DOMAIN Unused(t) : Unused(t)[r] = refreshTokens[r]
  BY DEF Unused, Without
<1>2. login[t] # 0
  <2>1. login[t] \in Issued /\ Issued = 1..Cardinality(Issued)
    BY DEF TokenInv, TokenTypeOK
  <2>2. 0 \notin 1..Cardinality(Issued)
    <3>1. Cardinality(Issued) + 1 \in Nat \ {0}
      BY NextNumber
    <3> QED
      BY <3>1
  <2> QED
    BY <2>1, <2>2
<1>3. /\ n \notin Issued /\ Cardinality(Issued)' = n
      /\ DOMAIN refreshTokens' = (DOMAIN refreshTokens \ {t}) \cup {n}
      /\ refreshTokens'[n].user = u /\ login'[n] = login[t]
      /\ \A r \in DOMAIN refreshTokens \ {t} : /\ refreshTokens'[r] = refreshTokens[r]
                                               /\ login'[r] = login[r]
  <2> DEFINE tokens == Unused(t)
             from == login[t]
  <2>1. IssueSession(u, tokens, from)
    OBVIOUS
  <2>2. /\ DOMAIN tokens \subseteq DOMAIN refreshTokens
        /\ \A r \in DOMAIN tokens : tokens[r] = refreshTokens[r]
    BY <1>1
  <2> HIDE DEF tokens, from, n, u
  <2>3. /\ n \notin Issued /\ Cardinality(Issued)' = n
        /\ DOMAIN refreshTokens' = DOMAIN tokens \cup {n}
        /\ refreshTokens'[n].user = u
        /\ login'[n] = IF from = 0 THEN n ELSE from
        /\ \A r \in DOMAIN tokens : /\ refreshTokens'[r] = refreshTokens[r]
                                    /\ login'[r] = login[r]
    BY <2>1, <2>2, IssueEffect DEF n
  <2> QED
    BY <1>1, <1>2, <2>3 DEF tokens, from
<1> HIDE DEF n, u
<1>4. login[t] \in Live /\ Held[login[t]] = [token |-> t, user |-> u]
  BY HeldToken DEF u
<1>5. Held'[login[t]] = [token |-> n, user |-> u]
  BY <1>3, HeldTokenNext
<1>6. Live' = Live
  BY <1>3 DEF Live
<1>7. ASSUME NEW l \in Live, l # login[t] PROVE Held'[l] = Held[l]
  <2>1. PICK r \in DOMAIN refreshTokens : l = login[r]
    BY DEF Live
  <2> QED
    BY <1>3, <1>7, <2>1, HeldStays
<1>8. DOMAIN Held = Live /\ Held = [l \in Live |-> Held[l]]
  BY DEF Held
<1>9. Held' = [l \in Live |-> Held'[l]]
  BY <1>6 DEF Held
<1>10. [Held[login[t]] EXCEPT !.token = n] = [token |-> n, user |-> u]
  BY <1>4
<1> HIDE DEF Held
<1>11. \A l \in Live : renewed[l] = Held'[l]
  BY <1>4, <1>5, <1>7, <1>8, <1>10
<1>12. renewed = [l \in Live |-> renewed[l]]
  BY <1>8
<1>13. Held' = renewed
  <2> HIDE DEF renewed
  <2> QED
    BY <1>9, <1>11, <1>12
<1> QED
  BY <1>3, <1>4, <1>8, <1>13 DEF Chains!Renew, Chains!Fresh, n

\* A logout, and an expiry, end the login of their token.
LEMMA DropEnds ==
    ASSUME TokenInv, TokenInv', NEW t \in DOMAIN refreshTokens,
           refreshTokens' = Unused(t), UNCHANGED <<accessSessions, login>>
    PROVE  Chains!End(login[t]) /\ login[t] \in DOMAIN Held
<1>1. /\ DOMAIN refreshTokens' = DOMAIN refreshTokens \ {t}
      /\ \A r \in DOMAIN refreshTokens \ {t} : refreshTokens'[r] = refreshTokens[r]
  BY DEF Unused, Without
<1>2. \A r \in DOMAIN refreshTokens : login[r] = login[t] => r = t
  BY DEF TokenInv, OneRefreshPerLogin
<1>3. Live' = Live \ {login[t]} /\ login[t] \in Live
  BY <1>1, <1>2 DEF Live
<1>4. ASSUME NEW l \in Live' PROVE Held'[l] = Held[l]
  <2>1. PICK r \in DOMAIN refreshTokens \ {t} : l = login[r]
    BY <1>1 DEF Live
  <2> QED
    BY <1>1, <2>1, HeldStays
<1>5. DOMAIN Held = Live /\ Held' = [l \in Live' |-> Held'[l]]
  BY DEF Held
<1>6. Held' = [l \in DOMAIN Held \ {login[t]} |-> Held[l]]
  BY <1>3, <1>4, <1>5
<1>7. Cardinality(Issued)' = Cardinality(Issued)
  BY DEF Issued
<1> QED
  BY <1>3, <1>5, <1>6, <1>7 DEF Chains!End

\* Refresh tokens implement Logins: no step gives a login a second token, honours a
\* spent one, hands a token to another user or brings an ended login back.
THEOREM LoginsImplemented == Spec => ImplementsLogins
<1>1. Init => Chains!Init
  <2> SUFFICES ASSUME Init PROVE Cardinality(Issued) = 0 /\ Held = [l \in {} |-> {}]
    BY DEF Chains!Init
  <2>1. DOMAIN refreshTokens = {} /\ Issued = {}
    BY DEF Init, AuthInit, Issued
  <2> QED
    BY <2>1, FS_EmptySet DEF Held, Live
<1>2. IInv /\ IInv' /\ [Next]_vars => [Chains!Next]_Chains!vars
  <2> SUFFICES ASSUME TokenInv, TokenInv', AccountInv, [Next]_vars
               PROVE  Chains!Next \/ UNCHANGED Chains!vars
    BY DEF IInv, AuthInv
  <2>1. ASSUME NEW a \in Addresses, NEW p \in Passwords, Login(a, p) PROVE Chains!Next
    <3>1. PICK u \in Registered : IssueSession(u, refreshTokens, 0)
      BY <2>1 DEF Login, AccountInv, IdentityAgrees
    <3>2. u \in Users
      BY DEF TokenInv
    <3> QED
      BY <3>1, <3>2, LoginBegins DEF Chains!Next
  <2>2. ASSUME NEW t \in Issued, RefreshSession(t) PROVE Chains!Next
    BY <2>2, RefreshRenews DEF RefreshSession, Chains!Next
  <2>3. ASSUME NEW t \in Issued, RefreshExpired(t) \/ Logout(t) PROVE Chains!Next
    BY <2>3, DropEnds DEF RefreshExpired, Logout, Chains!Next
  <2>4. ASSUME UNCHANGED tokenVars PROVE UNCHANGED Chains!vars
    BY <2>4 DEF tokenVars, Chains!vars, Held, HeldBy, Live, Issued
  <2>5. CASE AuthNext
    <3>1. \/ \E a \in Addresses, p \in Passwords : Login(a, p)
          \/ \E t \in Issued : RefreshSession(t) \/ RefreshExpired(t) \/ Logout(t)
          \/ UNCHANGED tokenVars
      BY <2>5 DEF AuthNext, SignUp, VerifyEmail, Tick
    <3> QED
      BY <2>1, <2>2, <2>3, <2>4, <3>1
  <2>6. ASSUME NEW r \in Requests,
               \/ Authorize(r)
               \/ \E d \in Devices : Register(r, d) \/ Revoke(r, d)
               \/ \E current, new \in Passwords : RequestPassword(r, current, new)
               \/ ReadOnly(r)
        PROVE  UNCHANGED tokenVars
    BY <2>6 DEF Authorize, Register, Revoke, RequestPassword, ChangePassword, ReadOnly, authVars
  <2>7. ASSUME NEW c \in Conns, BindAuthenticates(c) \/ BindChecksDevice(c) \/ BindSession(c)
        PROVE  UNCHANGED tokenVars
    BY <2>7 DEF BindAuthenticates, BindChecksDevice, BindSession, authVars
  <2>8. UNCHANGED vars => UNCHANGED tokenVars
    BY DEF vars, authVars
  <2> QED
    BY <2>4, <2>5, <2>6, <2>7, <2>8 DEF Next
<1> QED
  BY <1>1, <1>2, Inductive, PTL DEF Spec, ImplementsLogins, Chains!Spec

=============================================================================
