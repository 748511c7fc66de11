----------------------------- MODULE MCAccounts -----------------------------
(* Accounts on a small instance: two users, three ways to type two emails.  *)
EXTENDS Accounts, TLC

\* An address is a pair of an email and how it is typed.
Typed == {<<"a", "plain">>, <<"a", "Upper">>, <<"b", "plain">>}
Plain == [a \in Typed |-> <<a[1], "plain">>]

AccountSymmetry == Permutations(Users) \cup Permutations(Devices)
=============================================================================
