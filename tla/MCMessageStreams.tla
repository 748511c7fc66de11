-------------------------- MODULE MCMessageStreams --------------------------
(* MessageStreams on a small instance. *)
EXTENDS MessageStreams, TLC

StreamSymmetry == Permutations(MessageIDs) \cup Permutations(Callers)
                      \cup Permutations(Subscribers)
=============================================================================
