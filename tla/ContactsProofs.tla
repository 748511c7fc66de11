--------------------------- MODULE ContactsProofs ---------------------------
(***************************************************************************)
(* For any set of users: the two records of a pair agree, the buttons the  *)
(* clients show are the answers the service takes, and the records         *)
(* implement the relation of ContactPairs.                                 *)
(***************************************************************************)
EXTENDS Contacts, TLAPS

IInv == TypeOK /\ PairsAgree

\* Whether x and y are o and p, in either order.
Same(x, y, o, p) == (x = o /\ y = p) \/ (x = p /\ y = o)

\* An invitation gives the two users a record each and touches nobody else's.
LEMMA InviteEffect ==
    ASSUME NEW o \in Users, NEW p \in Users, Invite(o, p), NEW x \in Users, NEW y \in Users
    PROVE  /\ Has(x, y)' <=> Has(x, y) \/ Same(x, y, o, p)
           /\ Same(x, y, o, p) => contacts'[<<x, y>>] = [state |-> "pending", invitedBy |-> o]
           /\ Has(x, y) /\ ~Same(x, y, o, p) => contacts'[<<x, y>>] = contacts[<<x, y>>]
<1>1. <<x, y>> \in {<<o, p>>, <<p, o>>} <=> Same(x, y, o, p)
  BY DEF Same
<1>2. /\ DOMAIN contacts' = DOMAIN contacts \cup {<<o, p>>, <<p, o>>}
      /\ \A pair \in DOMAIN contacts' :
            contacts'[pair] = IF pair \in {<<o, p>>, <<p, o>>}
                              THEN [state |-> "pending", invitedBy |-> o]
                              ELSE contacts[pair]
  BY DEF Invite, CanInvite, Invitation
<1> QED
  BY <1>1, <1>2 DEF Has

\* What an accepted or rejected pair was: one invitation, on both records.
LEMMA AnsweredPair ==
    ASSUME IInv, NEW o \in Users, NEW p \in Users, Accept(o, p) \/ Reject(o, p)
    PROVE  /\ o # p /\ Has(o, p) /\ Has(p, o)
           /\ contacts[<<o, p>>] = [state |-> "pending", invitedBy |-> p]
           /\ contacts[<<p, o>>] = [state |-> "pending", invitedBy |-> p]
<1>1. /\ Has(o, p) /\ Has(p, o) /\ o # p
      /\ contacts[<<o, p>>] \in Contact
      /\ contacts[<<p, o>>] = contacts[<<o, p>>]
      /\ contacts[<<o, p>>].state = "pending"
      /\ contacts[<<o, p>>].invitedBy = p
  BY DEF Accept, CanAccept, Reject, CanReject, Pending, Incoming, Has, IInv, TypeOK, PairsAgree
<1> QED
  BY <1>1 DEF Contact

\* An acceptance changes the state of its two records, and only that of them.
LEMMA AcceptEffect ==
    ASSUME IInv, NEW o \in Users, NEW p \in Users, Accept(o, p),
           NEW x \in Users, NEW y \in Users
    PROVE  /\ DOMAIN contacts' = DOMAIN contacts
           /\ Has(x, y)' <=> Has(x, y)
           /\ Same(x, y, o, p) => contacts'[<<x, y>>] = [state |-> "accepted", invitedBy |-> p]
<1>1. /\ o # p /\ <<o, p>> \in DOMAIN contacts /\ <<p, o>> \in DOMAIN contacts
      /\ contacts[<<o, p>>] = [state |-> "pending", invitedBy |-> p]
      /\ contacts[<<p, o>>] = [state |-> "pending", invitedBy |-> p]
  BY AnsweredPair DEF Has
<1>2. contacts' = [contacts EXCEPT ![<<o, p>>].state = "accepted",
                                   ![<<p, o>>].state = "accepted"]
  BY DEF Accept, CanAccept
<1>3. DOMAIN contacts' = DOMAIN contacts
  BY <1>2
<1>4. <<o, p>> # <<p, o>>
  BY <1>1
<1>5. /\ contacts'[<<o, p>>] = [state |-> "accepted", invitedBy |-> p]
      /\ contacts'[<<p, o>>] = [state |-> "accepted", invitedBy |-> p]
  BY <1>1, <1>2, <1>4
<1> QED
  BY <1>3, <1>5 DEF Same, Has

\* It leaves every other record alone.
LEMMA AcceptLeaves ==
    ASSUME NEW o \in Users, NEW p \in Users, Accept(o, p),
           NEW x \in Users, NEW y \in Users, Has(x, y), ~Same(x, y, o, p)
    PROVE  contacts'[<<x, y>>] = contacts[<<x, y>>]
<1>1. <<x, y>> # <<o, p>> /\ <<x, y>> # <<p, o>> /\ <<x, y>> \in DOMAIN contacts
  BY DEF Same, Has
<1> QED
  BY <1>1 DEF Accept, CanAccept

\* A rejection deletes the two records and nothing else.
LEMMA RejectEffect ==
    ASSUME IInv, NEW o \in Users, NEW p \in Users, Reject(o, p),
           NEW x \in Users, NEW y \in Users
    PROVE  /\ DOMAIN contacts' = DOMAIN contacts \ {<<o, p>>, <<p, o>>}
           /\ Has(x, y)' <=> Has(x, y) /\ ~Same(x, y, o, p)
           /\ Has(x, y)' => contacts'[<<x, y>>] = contacts[<<x, y>>]
<1>1. <<x, y>> \in {<<o, p>>, <<p, o>>} <=> Same(x, y, o, p)
  BY DEF Same
<1>2. /\ DOMAIN contacts' = DOMAIN contacts \ {<<o, p>>, <<p, o>>}
      /\ \A pair \in DOMAIN contacts' : contacts'[pair] = contacts[pair]
  BY DEF Reject, CanReject
<1> QED
  BY <1>1, <1>2 DEF Has

-----------------------------------------------------------------------------

\* Every step keeps both records of every pair in agreement.
LEMMA InductiveStep == ASSUME IInv, [Next]_contacts PROVE IInv'
<1>1. ASSUME NEW o \in Users, NEW p \in Users, Invite(o, p) PROVE IInv'
  <2> o # p /\ ~Has(o, p)
    BY <1>1 DEF Invite, CanInvite, Invitation
  <2>1. o # p /\ ~Has(o, p) /\ ~Has(p, o)
    BY DEF IInv, PairsAgree
  <2>2. TypeOK'
    BY <1>1 DEF Invite, CanInvite, Invitation, IInv, TypeOK, Contact
  <2>3. ASSUME NEW x \in Users, NEW y \in Users, Has(x, y)'
        PROVE  /\ x # y
               /\ Has(y, x)'
               /\ contacts'[<<y, x>>] = contacts'[<<x, y>>]
               /\ contacts'[<<x, y>>].invitedBy \in {x, y}
    <3>1. CASE Same(x, y, o, p)
      <4>1. Same(y, x, o, p)
        BY <3>1 DEF Same
      <4>2. /\ contacts'[<<y, x>>] = [state |-> "pending", invitedBy |-> o]
            /\ contacts'[<<x, y>>] = [state |-> "pending", invitedBy |-> o]
            /\ Has(y, x)'
        BY <1>1, <3>1, <4>1, InviteEffect
      <4> QED
        BY <2>1, <3>1, <4>2 DEF Same
    <3>2. CASE ~Same(x, y, o, p)
      <4>1. Has(x, y) /\ ~Same(y, x, o, p)
        BY <1>1, <2>3, <3>2, InviteEffect DEF Same
      <4>2. x # y /\ Has(y, x) /\ contacts[<<y, x>>] = contacts[<<x, y>>]
            /\ contacts[<<x, y>>].invitedBy \in {x, y}
        BY <4>1 DEF IInv, PairsAgree
      <4> QED
        BY <1>1, <3>2, <4>1, <4>2, InviteEffect
    <3> QED
      BY <3>1, <3>2
  <2> QED
    BY <2>2, <2>3 DEF IInv, PairsAgree
<1>2. ASSUME NEW o \in Users, NEW p \in Users, Accept(o, p) PROVE IInv'
  <2>1. TypeOK'
    <3>1. \A pair \in DOMAIN contacts : [contacts[pair] EXCEPT !.state = "accepted"] \in Contact
      BY DEF IInv, TypeOK, Contact
    <3>2. /\ DOMAIN contacts' = DOMAIN contacts
          /\ \A pair \in DOMAIN contacts' : contacts'[pair] \in Contact
      <4>1. /\ DOMAIN contacts' = DOMAIN contacts
            /\ <<o, p>> \in DOMAIN contacts /\ <<p, o>> \in DOMAIN contacts
            /\ <<o, p>> # <<p, o>>
        BY <1>2 DEF Accept, CanAccept, Pending, Has
      <4>2. /\ contacts'[<<o, p>>] = [contacts[<<o, p>>] EXCEPT !.state = "accepted"]
            /\ contacts'[<<p, o>>] = [contacts[<<p, o>>] EXCEPT !.state = "accepted"]
            /\ \A pair \in DOMAIN contacts \ {<<o, p>>, <<p, o>>} :
                  contacts'[pair] = contacts[pair]
        BY <1>2, <4>1 DEF Accept, CanAccept
      <4> QED
        BY <3>1, <4>1, <4>2 DEF IInv, TypeOK
    <3>3. contacts' = [pair \in DOMAIN contacts' |-> contacts'[pair]]
      BY <1>2 DEF Accept, CanAccept
    <3> QED
      BY <3>2, <3>3 DEF IInv, TypeOK
  <2>2. ASSUME NEW x \in Users, NEW y \in Users, Has(x, y)'
        PROVE  /\ x # y
               /\ Has(y, x)'
               /\ contacts'[<<y, x>>] = contacts'[<<x, y>>]
               /\ contacts'[<<x, y>>].invitedBy \in {x, y}
    <3>1. Has(x, y) /\ (Same(x, y, o, p) <=> Same(y, x, o, p))
      BY <1>2, <2>2, AcceptEffect DEF Same
    <3>2. x # y /\ Has(y, x) /\ contacts[<<y, x>>] = contacts[<<x, y>>]
          /\ contacts[<<x, y>>].invitedBy \in {x, y}
      BY <3>1 DEF IInv, PairsAgree
    <3>3. Has(y, x)'
      BY <1>2, <3>2, AcceptEffect
    <3>4. CASE Same(x, y, o, p)
      <4>1. /\ contacts'[<<y, x>>] = [state |-> "accepted", invitedBy |-> p]
            /\ contacts'[<<x, y>>] = [state |-> "accepted", invitedBy |-> p]
        BY <1>2, <3>1, <3>4, AcceptEffect
      <4> QED
        BY <3>2, <3>3, <3>4, <4>1 DEF Same
    <3>5. CASE ~Same(x, y, o, p)
      <4>1. contacts'[<<x, y>>] = contacts[<<x, y>>]
        BY <1>2, <3>1, <3>5, AcceptLeaves
      <4>2. contacts'[<<y, x>>] = contacts[<<y, x>>]
        BY <1>2, <3>1, <3>2, <3>5, AcceptLeaves
      <4> QED
        BY <3>2, <3>3, <4>1, <4>2
    <3> QED
      BY <3>4, <3>5
  <2> QED
    BY <2>1, <2>2 DEF IInv, PairsAgree
<1>3. ASSUME NEW o \in Users, NEW p \in Users, Reject(o, p) PROVE IInv'
  <2>1. TypeOK'
    BY <1>3 DEF Reject, CanReject, IInv, TypeOK
  <2>2. ASSUME NEW x \in Users, NEW y \in Users, Has(x, y)'
        PROVE  /\ x # y
               /\ Has(y, x)'
               /\ contacts'[<<y, x>>] = contacts'[<<x, y>>]
               /\ contacts'[<<x, y>>].invitedBy \in {x, y}
    <3>1. Has(x, y) /\ ~Same(x, y, o, p)
      BY <1>3, <2>2, RejectEffect
    <3>2. x # y /\ Has(y, x) /\ contacts[<<y, x>>] = contacts[<<x, y>>]
          /\ contacts[<<x, y>>].invitedBy \in {x, y}
      BY <3>1 DEF IInv, PairsAgree
    <3>3. ~Same(y, x, o, p)
      BY <3>1 DEF Same
    <3>4. Has(y, x)'
      BY <1>3, <3>2, <3>3, RejectEffect
    <3>5. /\ contacts'[<<y, x>>] = contacts[<<y, x>>]
          /\ contacts'[<<x, y>>] = contacts[<<x, y>>]
      BY <1>3, <2>2, <3>4, RejectEffect
    <3> QED
      BY <3>2, <3>4, <3>5
  <2> QED
    BY <2>1, <2>2 DEF IInv, PairsAgree
<1>4. CASE UNCHANGED contacts
  BY <1>4 DEF IInv, TypeOK, PairsAgree, Has
<1> QED
  BY <1>1, <1>2, <1>3, <1>4 DEF Next

\* The invariant the theorems below rest on.
LEMMA Inductive == Spec => []IInv
<1>1. Init => IInv
  BY DEF Init, IInv, TypeOK, PairsAgree, Has
<1>2. IInv /\ [Next]_contacts => IInv'
  BY InductiveStep
<1> QED
  BY <1>1, <1>2, PTL DEF Spec

\* The type of the records.
THEOREM TypeCorrect == Spec => []TypeOK
BY Inductive, PTL DEF IInv

\* The two records of a pair never disagree.
THEOREM PairsAgreeAlways == Spec => []PairsAgree
BY Inductive, PTL DEF IInv

\* The buttons are shown exactly where the service takes the answer.
THEOREM ButtonsAlwaysWork == Spec => []ButtonsWork
<1>1. IInv => ButtonsWork
  <2> SUFFICES ASSUME IInv, NEW o \in Users, NEW p \in Users
               PROVE  /\ CanAnswer(o, p) <=> CanAccept(o, p)
                      /\ Pending(o, p) => (CanAnswer(o, p) <=> ~CanAnswer(p, o))
    BY DEF ButtonsWork
  <2>1. CASE ~Has(o, p)
    BY <2>1 DEF CanAnswer, CanAccept, Pending
  <2>2. CASE Has(o, p)
    <3>1. /\ o # p /\ Has(p, o)
          /\ contacts[<<p, o>>] = contacts[<<o, p>>]
          /\ contacts[<<o, p>>].invitedBy \in {o, p}
          /\ contacts[<<o, p>>].state \in {"pending", "accepted"}
      BY <2>2 DEF IInv, PairsAgree, TypeOK, Contact, Has
    <3> QED
      BY <2>2, <3>1 DEF CanAnswer, CanAccept, Direction, Pending, Incoming
  <2> QED
    BY <2>1, <2>2
<1> QED
  BY <1>1, Inductive, PTL

-----------------------------------------------------------------------------

\* A button once shown is good until its user presses one of the two: no
\* operation of the other user, and none of a third, takes it away.
THEOREM ButtonsAlwaysStay == Spec => ButtonsStay
<1>1. ASSUME IInv, Next, NEW o \in Users, NEW p \in Users, CanAnswer(o, p), ~CanAnswer(o, p)'
      PROVE  Accept(o, p) \/ Reject(o, p)
  <2>1. Has(o, p) /\ Has(p, o) /\ o # p /\ contacts[<<o, p>>] \in Contact
        /\ contacts[<<o, p>>].state = "pending" /\ contacts[<<o, p>>].invitedBy # o
        /\ contacts[<<p, o>>].invitedBy # o
    BY <1>1 DEF CanAnswer, Direction, Pending, IInv, PairsAgree, TypeOK, Has
  <2>2. contacts[<<o, p>>].invitedBy = p /\ contacts[<<p, o>>].invitedBy = p
    BY <1>1, <2>1 DEF IInv, PairsAgree
  <2>3. ~(Has(o, p)' /\ contacts'[<<o, p>>] = contacts[<<o, p>>])
    BY <1>1, <2>1 DEF CanAnswer, Direction, Pending
  <2>4. ASSUME NEW a \in Users, NEW b \in Users, Invite(a, b) PROVE FALSE
    <3>1. ~Has(a, b)
      BY <2>4 DEF Invite, CanInvite, Invitation
    <3>2. ~Same(o, p, a, b)
      BY <2>1, <3>1 DEF Same
    <3> QED
      BY <2>1, <2>3, <2>4, <3>2, InviteEffect, Zenon
  <2>5. ASSUME NEW a \in Users, NEW b \in Users, Accept(a, b) \/ Reject(a, b)
        PROVE  Same(o, p, a, b)
    <3> SUFFICES ASSUME ~Same(o, p, a, b) PROVE FALSE
      OBVIOUS
    <3>1. CASE Accept(a, b)
      <4>1. Has(o, p)'
        BY <1>1, <2>1, <3>1, AcceptEffect
      <4>2. Has(o, p) /\ ~Same(o, p, a, b)
        BY <2>1
      <4>3. contacts'[<<o, p>>] = contacts[<<o, p>>]
        BY <3>1, <4>2, AcceptLeaves
      <4> QED
        BY <2>3, <4>1, <4>3
    <3>2. CASE Reject(a, b)
      <4>1. Has(o, p)'
        BY <1>1, <2>1, <3>2, RejectEffect, Zenon
      <4> QED
        BY <1>1, <2>3, <3>2, <4>1, RejectEffect, Zenon
    <3> QED
      BY <2>5, <3>1, <3>2
  <2>6. ASSUME NEW a \in Users, NEW b \in Users, Accept(a, b) \/ Reject(a, b)
        PROVE  a = o /\ b = p
    <3>1. contacts[<<a, b>>].invitedBy = b
      BY <2>6 DEF Accept, CanAccept, Reject, CanReject, Incoming
    <3> QED
      BY <2>1, <2>2, <2>5, <2>6, <3>1 DEF Same
  <2>7. PICK a \in Users, b \in Users : Invite(a, b) \/ Accept(a, b) \/ Reject(a, b)
    BY <1>1 DEF Next
  <2> QED
    BY <2>4, <2>6, <2>7, Zenon
<1>2. IInv /\ [Next]_contacts =>
        [\A o, p \in Users :
            CanAnswer(o, p) /\ ~CanAnswer(o, p)' => Accept(o, p) \/ Reject(o, p)]_contacts
  <2>1. CASE UNCHANGED contacts
    BY <2>1
  <2>2. CASE Next
    BY <1>1, <2>2, Zenon
  <2> QED
    BY <2>1, <2>2
<1> QED
  BY <1>2, Inductive, PTL DEF Spec, ButtonsStay

-----------------------------------------------------------------------------

\* Both mapped sets hold pairs of users.
LEMMA MappedType == ASSUME TypeOK PROVE Invited \cup Friends \subseteq Users \X Users
BY DEF TypeOK, Invited, Friends

\* Membership in them, pair by pair.
LEMMA MappedPair ==
    ASSUME NEW x, NEW y
    PROVE  /\ <<x, y>> \in Invited <=> /\ Has(x, y)
                                       /\ contacts[<<x, y>>].state = "pending"
                                       /\ contacts[<<x, y>>].invitedBy = x
           /\ <<x, y>> \in Friends <=> Has(x, y) /\ contacts[<<x, y>>].state = "accepted"
BY DEF Invited, Friends, Has

\* The same of the primed sets.
LEMMA MappedPairNext ==
    ASSUME NEW x, NEW y
    PROVE  /\ <<x, y>> \in Invited' <=> /\ Has(x, y)'
                                        /\ contacts'[<<x, y>>].state = "pending"
                                        /\ contacts'[<<x, y>>].invitedBy = x
           /\ <<x, y>> \in Friends' <=> Has(x, y)' /\ contacts'[<<x, y>>].state = "accepted"
BY DEF Invited, Friends, Has

\* An invitation is an invitation of the abstract relation.
LEMMA InviteMaps ==
    ASSUME IInv, IInv', NEW o \in Users, NEW p \in Users, Invite(o, p)
    PROVE  Pairs!Invite(o, p)
<1>1. o # p /\ ~Has(o, p)
  BY DEF Invite, CanInvite, Invitation
<1>2. ~Has(p, o)
  BY <1>1 DEF IInv, PairsAgree
<1>3. ~Pairs!Linked(o, p)
  BY <1>1, <1>2, MappedPair DEF Pairs!Linked
<1>4. /\ Invited' \subseteq Users \X Users /\ Friends' \subseteq Users \X Users
      /\ Invited \subseteq Users \X Users /\ Friends \subseteq Users \X Users
  BY DEF IInv, TypeOK, Invited, Friends
<1>5. ASSUME NEW x \in Users, NEW y \in Users
      PROVE  /\ <<x, y>> \in Invited' <=> <<x, y>> \in Invited \/ (x = o /\ y = p)
             /\ <<x, y>> \in Friends' <=> <<x, y>> \in Friends
  <2>1. CASE Same(x, y, o, p)
    <3>1. Has(x, y)' /\ contacts'[<<x, y>>] = [state |-> "pending", invitedBy |-> o]
      BY <2>1, InviteEffect
    <3>2. ~Has(x, y) /\ (x = o <=> x = o /\ y = p)
      BY <1>1, <1>2, <2>1 DEF Same
    <3> QED
      BY <3>1, <3>2, MappedPair, MappedPairNext
  <2>2. CASE ~Same(x, y, o, p)
    <3>1. Has(x, y)' <=> Has(x, y)
      BY <2>2, InviteEffect
    <3>3. ~(x = o /\ y = p)
      BY <2>2 DEF Same
    <3>2. Has(x, y) => contacts'[<<x, y>>] = contacts[<<x, y>>]
      BY <2>2, InviteEffect
    <3> QED
      BY <3>1, <3>2, <3>3, MappedPair, MappedPairNext
  <2> QED
    BY <2>1, <2>2
<1>6. Invited' = Invited \cup {<<o, p>>} /\ Friends' = Friends
  BY <1>4, <1>5
<1> QED
  BY <1>1, <1>3, <1>6 DEF Pairs!Invite

\* o's acceptance answers p's open invitation and makes them friends.
LEMMA AcceptMaps ==
    ASSUME IInv, IInv', NEW o \in Users, NEW p \in Users, Accept(o, p)
    PROVE  Pairs!Accept(o, p)
<1>1. /\ o # p /\ Has(o, p) /\ Has(p, o)
      /\ contacts[<<o, p>>] = [state |-> "pending", invitedBy |-> p]
      /\ contacts[<<p, o>>] = [state |-> "pending", invitedBy |-> p]
  BY AnsweredPair
<1>2. <<p, o>> \in Invited
  BY <1>1, MappedPair
<1>3. /\ Invited' \subseteq Users \X Users /\ Friends' \subseteq Users \X Users
      /\ Invited \subseteq Users \X Users /\ Friends \subseteq Users \X Users
  BY DEF IInv, TypeOK, Invited, Friends
<1>4. ASSUME NEW x \in Users, NEW y \in Users
      PROVE  /\ <<x, y>> \in Invited' <=> <<x, y>> \in Invited /\ ~(x = p /\ y = o)
             /\ <<x, y>> \in Friends' <=> <<x, y>> \in Friends \/ Same(x, y, o, p)
  <2>1. Has(x, y)' <=> Has(x, y)
    BY AcceptEffect
  <2>2. CASE Same(x, y, o, p)
    <3>1. contacts'[<<x, y>>] = [state |-> "accepted", invitedBy |-> p]
      BY <2>2, AcceptEffect
    <3>2. Has(x, y) /\ contacts[<<x, y>>] = [state |-> "pending", invitedBy |-> p]
          /\ (x = p <=> x = p /\ y = o)
      BY <1>1, <2>2 DEF Same
    <3> QED
      BY <2>1, <2>2, <3>1, <3>2, MappedPair, MappedPairNext
  <2>3. CASE ~Same(x, y, o, p)
    <3>1. Has(x, y) => contacts'[<<x, y>>] = contacts[<<x, y>>]
      BY <2>3, AcceptLeaves
    <3>2. ~(x = p /\ y = o)
      BY <2>3 DEF Same
    <3> QED
      BY <2>1, <2>3, <3>1, <3>2, MappedPair, MappedPairNext
  <2> QED
    BY <2>2, <2>3
<1>5. Invited' = Invited \ {<<p, o>>} /\ Friends' = Friends \cup {<<p, o>>, <<o, p>>}
  BY <1>3, <1>4 DEF Same
<1> QED
  BY <1>2, <1>5 DEF Pairs!Accept

\* o's rejection closes p's open invitation and makes them strangers.
LEMMA RejectMaps ==
    ASSUME IInv, IInv', NEW o \in Users, NEW p \in Users, Reject(o, p)
    PROVE  Pairs!Reject(o, p)
<1>1. /\ o # p /\ Has(o, p) /\ Has(p, o)
      /\ contacts[<<o, p>>] = [state |-> "pending", invitedBy |-> p]
      /\ contacts[<<p, o>>] = [state |-> "pending", invitedBy |-> p]
  BY AnsweredPair
<1>2. <<p, o>> \in Invited
  BY <1>1, MappedPair
<1>3. /\ Invited' \subseteq Users \X Users /\ Friends' \subseteq Users \X Users
      /\ Invited \subseteq Users \X Users /\ Friends \subseteq Users \X Users
  BY DEF IInv, TypeOK, Invited, Friends
<1>4. ASSUME NEW x \in Users, NEW y \in Users
      PROVE  /\ <<x, y>> \in Invited' <=> <<x, y>> \in Invited /\ ~(x = p /\ y = o)
             /\ <<x, y>> \in Friends' <=> <<x, y>> \in Friends
  <2>1. Has(x, y)' <=> Has(x, y) /\ ~Same(x, y, o, p)
    BY RejectEffect
  <2>2. CASE Same(x, y, o, p)
    <3>1. contacts[<<x, y>>] = [state |-> "pending", invitedBy |-> p]
          /\ (x = p <=> x = p /\ y = o)
      BY <1>1, <2>2 DEF Same
    <3> QED
      BY <2>1, <2>2, <3>1, MappedPair, MappedPairNext
  <2>3. CASE ~Same(x, y, o, p)
    <3>1. Has(x, y) => contacts'[<<x, y>>] = contacts[<<x, y>>]
      BY <2>1, <2>3, RejectEffect
    <3>2. ~(x = p /\ y = o)
      BY <2>3 DEF Same
    <3> QED
      BY <2>1, <2>3, <3>1, <3>2, MappedPair, MappedPairNext
  <2> QED
    BY <2>2, <2>3
<1>5. Invited' = Invited \ {<<p, o>>} /\ Friends' = Friends
  BY <1>3, <1>4
<1> QED
  BY <1>2, <1>5 DEF Pairs!Reject

\* Under the mapping, the two-record service implements the abstract relation:
\* its initial state is the empty relation, and each operation is the abstract
\* operation of the same name.
THEOREM Implementation == Spec => ImplementsPairs
<1>1. Init => Pairs!Init
  BY DEF Init, Pairs!Init, Invited, Friends
<1>2. IInv /\ IInv' /\ [Next]_contacts => [Pairs!Next]_<<Invited, Friends>>
  <2> SUFFICES ASSUME IInv, IInv', [Next]_contacts
               PROVE  Pairs!Next \/ UNCHANGED <<Invited, Friends>>
    OBVIOUS
  <2>1. ASSUME NEW o \in Users, NEW p \in Users, Invite(o, p) PROVE Pairs!Next
    BY <2>1, InviteMaps DEF Pairs!Next
  <2>2. ASSUME NEW o \in Users, NEW p \in Users, Accept(o, p) PROVE Pairs!Next
    BY <2>2, AcceptMaps DEF Pairs!Next
  <2>3. ASSUME NEW o \in Users, NEW p \in Users, Reject(o, p) PROVE Pairs!Next
    BY <2>3, RejectMaps DEF Pairs!Next
  <2>4. CASE UNCHANGED contacts
    BY <2>4 DEF Invited, Friends
  <2> QED
    BY <2>1, <2>2, <2>3, <2>4 DEF Next
<1> QED
  BY <1>1, <1>2, Inductive, PTL DEF Spec, ImplementsPairs, Pairs!Spec

=============================================================================
