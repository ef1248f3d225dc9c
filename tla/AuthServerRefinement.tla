------------------------ MODULE AuthServerRefinement ------------------------
(***************************************************************************)
(* The authentication server implements the half of AuthService that the   *)
(* chat server relies on.                                                  *)
(*                                                                         *)
(* A request is still under way, for its sender, until it is answered: the *)
(* one in hand is put back in front of its connection.                     *)
(***************************************************************************)
EXTENDS AuthServer

toAuthOf ==
  [k \in Link |-> IF InHand(k) THEN <<reqMSG>> \o toAuth[k] ELSE toAuth[k]]

Service == INSTANCE AuthService WITH toAuth <- toAuthOf

\* Each request is answered once, in order, by a response of its kind with its
\* id on its own connection, and this process ends or stops only for the
\* causes AuthService names, whatever fails in the database.
ImplementsAuthService == Service!ServiceSpec
=============================================================================
