---------------------------- MODULE MCChatServer ----------------------------
(* Instances of ChatServer for TLC. *)
EXTENDS ChatServerRefinement, TLC

CONSTANTS c1, c2, c3, alice, bob, none

Symmetry == Permutations(Client) \cup Permutations(Cred)
=============================================================================
