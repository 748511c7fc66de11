------------------------------- MODULE Logins -------------------------------
(***************************************************************************)
(* What the auth service promises of refresh tokens, without accounts,     *)
(* passwords or clocks: a login holds one token at a time, its user's;     *)
(* using the token replaces it, and a login that has ended stays ended.    *)
(***************************************************************************)
EXTENDS Naturals

CONSTANT Users

VARIABLES
    issued, \* how many tokens were ever issued
    held    \* token and user of a login that goes on; it is named by its first token

vars == <<issued, held>>

Init == issued = 0 /\ held = [l \in {} |-> {}]

\* A token nobody has seen before.
Fresh == issued + 1

Begin(u) ==
    /\ issued' = Fresh
    /\ held' = [l \in DOMAIN held \cup {Fresh} |->
                   IF l = Fresh THEN [token |-> Fresh, user |-> u] ELSE held[l]]

Renew(l) ==
    /\ l \in DOMAIN held
    /\ issued' = Fresh
    /\ held' = [held EXCEPT ![l].token = Fresh]

End(l) ==
    /\ l \in DOMAIN held
    /\ held' = [m \in DOMAIN held \ {l} |-> held[m]]
    /\ UNCHANGED issued

Next == \/ \E u \in Users : Begin(u)
        \/ \E l \in DOMAIN held : Renew(l) \/ End(l)

Spec == Init /\ [][Next]_vars

=============================================================================
