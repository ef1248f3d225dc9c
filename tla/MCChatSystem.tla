---------------------------- MODULE MCChatSystem ----------------------------
(* Instances of ChatSystem for TLC. *)
EXTENDS ChatSystem, TLC

CONSTANTS c1, c2, alice, p1, p2, none

\* An account and a wrong password for it.
AliceTwice == {<<alice, p1>>, <<alice, p2>>}

Symmetry == Permutations(Client) \cup Permutations({p1, p2})
=============================================================================
