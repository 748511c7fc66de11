------------------------------ MODULE Contacts ------------------------------
(***************************************************************************)
(* The contact service (service/contact/memory.go) and what its handlers   *)
(* show of it (httpapi/contact_handlers.go).  A relationship is two        *)
(* records, one owned by each user, written under one mutex.               *)
(***************************************************************************)

CONSTANT Users

VARIABLE contacts   \* contactsByUser: a partial function of <<owner, peer>>

Contact == [state : {"pending", "accepted"}, invitedBy : Users]

Has(o, p) == <<o, p>> \in DOMAIN contacts

Pending(o, p) == Has(o, p) /\ contacts[<<o, p>>].state = "pending"

Incoming(o, p) == Has(o, p) /\ contacts[<<o, p>>].invitedBy = p

Init == contacts = [pair \in {} |-> {}]

\* Mutant: a second invitation replaces the first.
CanInvite_Again(o, p) == o # p /\ (Has(o, p) => Pending(o, p))

\* A second invitation, from either side, finds the owner's record and
\* returns it unchanged.
CanInvite(o, p) == o # p /\ ~Has(o, p)

\* Mutant: each record names its owner as the one who invited.
Invitation_Owner(o, pair) == [state |-> "pending", invitedBy |-> pair[1]]

\* What o's invitation writes under either of the two pairs.
Invitation(o, pair) == [state |-> "pending", invitedBy |-> o]

Invite(o, p) ==
    /\ CanInvite(o, p)
    /\ contacts' = [pair \in DOMAIN contacts \cup {<<o, p>>, <<p, o>>} |->
                       IF pair \in {<<o, p>>, <<p, o>>}
                       THEN Invitation(o, pair) ELSE contacts[pair]]

\* Accept looks at the state of both records, and at the owner's for who invited.
CanAccept(o, p) == o # p /\ Pending(o, p) /\ Pending(p, o) /\ Incoming(o, p)

\* Mutant: only the owner's record is accepted.
Accept_OwnSide(o, p) ==
    CanAccept(o, p) /\ contacts' = [contacts EXCEPT ![<<o, p>>].state = "accepted"]

Accept(o, p) ==
    /\ CanAccept(o, p)
    /\ contacts' = [contacts EXCEPT ![<<o, p>>].state = "accepted",
                                    ![<<p, o>>].state = "accepted"]

\* Mutant: an accepted contact can be rejected too.
CanReject_Accepted(o, p) == o # p /\ Incoming(o, p)

\* Reject looks at the owner's record only.
CanReject(o, p) == o # p /\ Pending(o, p) /\ Incoming(o, p)

Reject(o, p) ==
    /\ CanReject(o, p)
    /\ contacts' = [pair \in DOMAIN contacts \ {<<o, p>>, <<p, o>>} |-> contacts[pair]]

Next == \E o, p \in Users : Invite(o, p) \/ Accept(o, p) \/ Reject(o, p)

Spec == Init /\ [][Next]_contacts

\* serializeContact: how o's contact list shows p.
Direction(o, p) ==
    CASE contacts[<<o, p>>].state = "accepted" -> "accepted"
      [] contacts[<<o, p>>].state = "pending" /\ contacts[<<o, p>>].invitedBy = o -> "outgoing"
      [] OTHER -> "incoming"

\* canAccept and canReject, which the code always sets alike.
CanAnswer(o, p) == Has(o, p) /\ Direction(o, p) = "incoming" /\ Pending(o, p)

-----------------------------------------------------------------------------
(* Properties. *)

\* A record is kept per ordered pair of users, pending or accepted.
TypeOK ==
    /\ DOMAIN contacts \subseteq Users \X Users
    /\ contacts \in [DOMAIN contacts -> Contact]

\* The two records of a pair never disagree: a user who lists a contact is
\* listed by it, in the same state and with the same inviter, who is one of the
\* two; nobody is a contact of himself.
PairsAgree ==
    \A o, p \in Users : Has(o, p) =>
        /\ o # p
        /\ Has(p, o)
        /\ contacts[<<p, o>>] = contacts[<<o, p>>]
        /\ contacts[<<o, p>>].invitedBy \in {o, p}

\* The accept and reject buttons are shown exactly where the service would do
\* what they say: on one of the two sides of every pending pair.
ButtonsWork ==
    \A o, p \in Users :
        /\ CanAnswer(o, p) <=> CanAccept(o, p)
        /\ Pending(o, p) => (CanAnswer(o, p) <=> ~CanAnswer(p, o))

\* A button once shown stays good until the user it was shown to presses one:
\* nothing the other user does takes the invitation back.
ButtonsStay ==
    [][\A o, p \in Users :
          CanAnswer(o, p) /\ ~CanAnswer(o, p)' => Accept(o, p) \/ Reject(o, p)]_contacts

\* The open invitations and the friendships among the records.
Invited == {pair \in DOMAIN contacts : contacts[pair].state = "pending"
                                        /\ contacts[pair].invitedBy = pair[1]}

Friends == {pair \in DOMAIN contacts : contacts[pair].state = "accepted"}

Pairs == INSTANCE ContactPairs WITH invited <- Invited, friends <- Friends

\* The records implement the relation of ContactPairs: strangers, one open
\* invitation one way, or mutual friends, and no other step between them.
ImplementsPairs == Pairs!Spec

=============================================================================
