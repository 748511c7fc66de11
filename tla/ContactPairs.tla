---------------------------- MODULE ContactPairs ----------------------------
(***************************************************************************)
(* What the contact service promises, without its records: a directed set  *)
(* of open invitations and a symmetric friendship.  A pair of users is     *)
(* strangers, has one open invitation one way, or is friends.              *)
(***************************************************************************)
CONSTANT Users

VARIABLES invited, friends

Init == invited = {} /\ friends = {}

Linked(x, y) == {<<x, y>>, <<y, x>>} \cap (invited \cup friends) # {}

\* Only strangers can be invited.
Invite(x, y) ==
    /\ x # y
    /\ ~Linked(x, y)
    /\ invited' = invited \cup {<<x, y>>}
    /\ UNCHANGED friends

\* An invitation is answered once; friendship is mutual and for good.
Accept(y, x) ==
    /\ <<x, y>> \in invited
    /\ invited' = invited \ {<<x, y>>}
    /\ friends' = friends \cup {<<x, y>>, <<y, x>>}

Reject(y, x) ==
    /\ <<x, y>> \in invited
    /\ invited' = invited \ {<<x, y>>}
    /\ UNCHANGED friends

Next == \E x, y \in Users : Invite(x, y) \/ Accept(x, y) \/ Reject(x, y)

Spec == Init /\ [][Next]_<<invited, friends>>

=============================================================================
