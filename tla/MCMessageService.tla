-------------------------- MODULE MCMessageService --------------------------
(* MessageService on a small instance. *)
EXTENDS MessageService, TLC

\* Users, devices, goroutines, ids and subscriptions are interchangeable.
ServiceSymmetry == Permutations(MessageIDs) \cup Permutations(Users)
                       \cup Permutations(Devices)
=============================================================================
