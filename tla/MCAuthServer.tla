---------------------------- MODULE MCAuthServer ----------------------------
(* Instances of AuthServer for TLC. *)
EXTENDS AuthServerRefinement, TLC

CONSTANTS alice, bob, p1, p2, none

\* Two accounts, and a wrong password for one of them.
Credentials == {<<alice, p1>>, <<alice, p2>>, <<bob, p1>>}

\* Two accounts; one account.
TwoUsers == {<<alice, p1>>, <<bob, p1>>}
AliceOnce == {<<alice, p1>>}

Symmetry == Permutations({alice, bob})
=============================================================================
