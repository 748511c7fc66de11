----------------------------- MODULE MCContacts -----------------------------
(* Contacts among four users. *)
EXTENDS Contacts, TLC

UserSymmetry == Permutations(Users)
=============================================================================
