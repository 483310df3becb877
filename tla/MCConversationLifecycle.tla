---------------------- MODULE MCConversationLifecycle ----------------------
(* An instance of ConversationLifecycle for TLC.                           *)
EXTENDS ConversationLifecycle, TLC

\* The requests are alike.
Symmetry == Permutations(Request)

=============================================================================
