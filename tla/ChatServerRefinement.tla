------------------------ MODULE ChatServerRefinement ------------------------
(***************************************************************************)
(* The chat server and its clients implement RequestService, when no stale *)
(* bytes follow a request or a response, no request is empty, and until    *)
(* the connection to the authentication server is lost: whoever is killed  *)
(* or started again, in whatever order.                                    *)
(***************************************************************************)
EXTENDS ChatServer

askedOf ==
  [c \in Client |-> IF req[c] = NoReq THEN <<>> ELSE <<req[c].cmd, req[c].cred>>]

\* The outcome of a client's command is fixed when the authentication server
\* answers it, and is then on its way: to main, in main, to the client, in it.
Underway(c) ==
  CASE inbox[c] # <<>> -> Head(inbox[c]).kind
    [] inbox[c] = <<>> /\ pc = "reply" /\ clients[i] = c -> result
    [] inbox[c] = <<>> /\ pc = "await" /\ clients[i] = c
       /\ fromAuth[link] # <<>> -> Head(fromAuth[link]).kind
    [] OTHER -> 0

Outcome(c) ==
  CASE seen[c].kind # 0 -> seen[c].kind
    [] seen[c].kind = 0 /\ chat[c] \in {"rst", "lost"} -> 5
    [] seen[c].kind = 0 /\ chat[c] = "asked" -> Underway(c)
    [] OTHER -> 0

outcomeOf == [c \in Client |-> Outcome(c)]

readOf == {c \in Client : seen[c].kind # 0}

Service == INSTANCE RequestService
  WITH asked <- askedOf, outcome <- outcomeOf, read <- readOf

\* Each client reads the outcome of its own command, carried out after it
\* asked; the outcome is never changed on its way or given to another; what is
\* relayed again when a client leaves, and what is still carried out for one
\* that is gone, was asked by one that waits for nothing any more.
ImplementsService ==
  Service!Init /\ [][AuthKept' => Service!Next]_(Service!vars)
=============================================================================
