------------------------------ MODULE MCClient ------------------------------
(* The client on small sets. *)
EXTENDS Client, TLC

\* Many jobs and connections and no message; or few, and some messages, so that an
\* answer may come after a logout, or with the address typed with another case.
ThreeLimits ==
    {[jobs |-> 4, sockets |-> 2, devices |-> 2, sends |-> 0, news |-> 0,
      typed |-> {Address}],
     [jobs |-> 3, sockets |-> 1, devices |-> 1, sends |-> 1, news |-> 2,
      typed |-> {Address}],
     [jobs |-> 2, sockets |-> 1, devices |-> 1, sends |-> 1, news |-> 3,
      typed |-> Spellings]}

Symmetric == Permutations(Jobs) \cup Permutations(Devices)
=============================================================================
