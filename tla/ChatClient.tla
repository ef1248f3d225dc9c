----------------------------- MODULE ChatClient -----------------------------
(***************************************************************************)
(* The ChatClient processes.  Each connects to the chat server, asks its   *)
(* user for a command, sends one request, waits for one response, closes   *)
(* its connection and ends.  Its socket does not block: ReceiveFromServer  *)
(* repeats recv until there is something to read, and does so for ever     *)
(* when recv keeps failing.                                                *)
(*                                                                         *)
(* A client is in one of these states:                                     *)
(*   idle   not started                                                    *)
(*   open   connected, at the menu                                         *)
(*   asked  request sent, in ReceiveFromServer                             *)
(*   done   response read                                                  *)
(*   fin    connection closed in order, process ended                      *)
(*   rst    process killed, its connection is reset                        *)
(*   lost   connection refused or reset by the server: recv fails for ever *)
(***************************************************************************)
EXTENDS AuthProtocol, Sequences

CONSTANTS
  Client,   \* the client processes; each is also its connection
  Typed,    \* what users may type: Cred, and NoCred at the end of the input
  Kills     \* whether a client process may be killed

ASSUME ClientAssumption ==
  /\ Typed \subseteq Cred \cup {NoCred}
  /\ Kills \in BOOLEAN

VARIABLES
  chat,       \* the state of each client
  req,        \* the request it sent, NoReq before
  outbox,     \* bytes on their way from the client to the chat server
  inbox,      \* bytes on their way from the chat server to the client
  seen,       \* what the client read: the kind returned and its status
  backlog,    \* connections the server has not accepted, oldest first
  listening   \* the server's listening socket exists

clientVars == <<chat, req, outbox, inbox, seen, backlog, listening>>

NoReq == [cmd |-> "NONE"]

NothingSeen == [kind |-> 0, status |-> "UNSET"]

ChatState == {"idle", "open", "asked", "done", "fin", "rst", "lost"}

ClientTypeOK ==
  /\ chat \in [Client -> ChatState]
  /\ req \in [Client -> Request \cup {NoReq}]
  /\ outbox \in [Client -> Seq(Request)]
  /\ inbox \in [Client -> Seq(Response)]
  /\ seen \in [Client -> [kind : Kind \cup {0}, status : Status]]
  /\ backlog \in Seq(Client)
  /\ listening \in BOOLEAN

ClientInit ==
  /\ chat = [c \in Client |-> "idle"]
  /\ req = [c \in Client |-> NoReq]
  /\ outbox = [c \in Client |-> <<>>]
  /\ inbox = [c \in Client |-> <<>>]
  /\ seen = [c \in Client |-> NothingSeen]
  /\ backlog = <<>>
  /\ listening = TRUE

-----------------------------------------------------------------------------

\* initialize: the connection waits in the backlog of the listening socket.
Connect(c) ==
  /\ chat[c] = "idle"
  /\ listening
  /\ chat' = [chat EXCEPT ![c] = "open"]
  /\ backlog' = Append(backlog, c)
  /\ UNCHANGED <<req, outbox, inbox, seen, listening>>

\* initialize fails; main ignores it, and every later call on the socket fails.
ConnectRefused(c) ==
  /\ chat[c] = "idle"
  /\ ~listening
  /\ chat' = [chat EXCEPT ![c] = "lost"]
  /\ UNCHANGED <<req, outbox, inbox, seen, backlog, listening>>

\* The user picks a command and types the credentials.  Request ids are
\* numbered from 1 in each process, and a process sends one request.
SendToServer(c) ==
  /\ chat[c] = "open"
  /\ \E cmd \in Cmd, cred \in Typed :
       LET q == [cmd |-> cmd, id |-> 1, cred |-> cred] IN
       /\ req' = [req EXCEPT ![c] = q]
       /\ outbox' = [outbox EXCEPT ![c] = Append(@, q)]
  /\ chat' = [chat EXCEPT ![c] = "asked"]
  /\ UNCHANGED <<inbox, seen, backlog, listening>>

\* recv returns data.  What the parse says is ignored; the first of the four
\* kinds that is present decides.  (A client reads one response, so the tail
\* of its buffer holds no earlier one.)
ReceiveFromServer(c) ==
  /\ chat[c] = "asked"
  /\ inbox[c] # <<>>
  /\ LET r == Head(inbox[c])
         kind == KindSeen(r, "clean")
     IN seen' = [seen EXCEPT ![c] =
                   [kind |-> kind, status |-> StatusOf(kind, ValSeen(r))]]
  /\ inbox' = [inbox EXCEPT ![c] = Tail(@)]
  /\ chat' = [chat EXCEPT ![c] = "done"]
  /\ UNCHANGED <<req, outbox, backlog, listening>>

\* After the response, or at once when the command is neither 1 nor 2.
CloseSocket(c) ==
  /\ chat[c] \in {"open", "done"}
  /\ chat' = [chat EXCEPT ![c] = "fin"]
  /\ UNCHANGED <<req, outbox, inbox, seen, backlog, listening>>

\* The process is killed: what it sent and the server did not read is lost.
Kill(c) ==
  /\ Kills
  /\ chat[c] \in {"open", "asked", "done"}
  /\ chat' = [chat EXCEPT ![c] = "rst"]
  /\ UNCHANGED <<req, outbox, inbox, seen, backlog, listening>>

ClientStep(c) ==
  \/ Connect(c)
  \/ ConnectRefused(c)
  \/ SendToServer(c)
  \/ ReceiveFromServer(c)
  \/ CloseSocket(c)
  \/ Kill(c)
=============================================================================
