----------------------------- MODULE MCSockets -----------------------------
(* Instances of Sockets for TLC. *)
EXTENDS Sockets, TLC

CONSTANTS s1, s2, s3, s4, s5

Symmetry == Permutations(Handle)
=============================================================================
