------------------------------ MODULE MCSha256 ------------------------------
(* Instances of Sha256 for TLC. *)
EXTENDS Sha256
=============================================================================
