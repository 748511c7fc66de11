--------------------------- MODULE MCConversations ---------------------------
(* Conversations on a small instance. *)
EXTENDS Conversations, TLC

CONSTANTS alice, bob

\* Every form there is, one for each two users.
Clients == (<<alice, bob>> :> "envelope") @@ (<<bob, alice>> :> "legacy")
              @@ (<<alice, alice>> :> "flat") @@ (<<bob, bob>> :> "sealed")

ConversationSymmetry == Permutations(MessageIDs) \cup Permutations(Callers)
=============================================================================
