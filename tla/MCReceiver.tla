----------------------------- MODULE MCReceiver -----------------------------
(* Instances of Receiver for TLC. *)
EXTENDS Receiver, TLC

CONSTANTS alice, bob, carol, none

\* l and 4, b and e-acute kd, klkl and klkl: the password of carol, with its tag,
\* lies where the request of alice ends, and without its tag where that of bob
\* does; her email lies where a response without a date ends.  k starts a group,
\* which l ends; d and 4 end others.
MCText ==
  alice :> [email |-> <<108>>, passwd |-> <<52>>]
    @@ bob :> [email |-> <<98>>, passwd |-> <<233, 107, 100>>]
    @@ carol :> [email |-> <<107, 108, 107, 108>>, passwd |-> <<107, 108, 107, 108>>]
    @@ none :> [email |-> <<>>, passwd |-> <<>>]

\* 2024-10-15 09:15:32
MCDate == <<50, 48, 50, 52, 45, 49, 48, 45, 49, 53, 32, 48, 57, 58, 49, 53, 58, 51, 50>>
=============================================================================
