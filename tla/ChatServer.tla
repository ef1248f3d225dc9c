----------------------------- MODULE ChatServer -----------------------------
(***************************************************************************)
(* The ChatServer process: one thread that polls its sockets, reads the    *)
(* request of a client, relays it to the authentication server over one    *)
(* connection made at start-up, waits for the answer and sends it back.    *)
(* The request being relayed lives in members of the one cTCPServer        *)
(* object, and the result of ReadFromClient is ignored: a client that      *)
(* leaves, or whose request does not parse, makes the server relay again   *)
(* what these members hold.                                                *)
(*                                                                         *)
(* The authentication server appears here only as what it promises on a    *)
(* connection: see AuthService.                                            *)
(*                                                                         *)
(* A definition named X_Y, just before X, is X with the mistake Y: it is   *)
(* used nowhere, and serves to see that the properties notice the mistake. *)
(***************************************************************************)
EXTENDS ChatClient, AuthService, FiniteSets

CONSTANTS
  FdSetSize,      \* FD_SETSIZE, the sockets one select can watch
  InitialAction   \* what the member action may hold before it is assigned

ASSUME ServerAssumption ==
  /\ FdSetSize \in Nat \ {0}
  /\ InitialAction \subseteq Cmd \cup {"OTHER"}
  /\ InitialAction # {}

VARIABLES
  pc,          \* where main is
  clients,     \* the vector of accepted connections, in order of acceptance
  connected,   \* those whose connected flag is set
  ready,       \* the clients in socketsReadyForReading
  acceptReady, \* the listening socket is in socketsReadyForReading
  i,           \* the loop index of main, counted from 1
  action, credential,  \* members of cTCPServer: action, email_ and password_
  result,      \* resultFromAuthServer; 0 stands for every value but 1..4
  status,      \* the member status of AuthenClient
  rcvBuff      \* the last response in ReceiveFromServer's buffer

serverVars == <<pc, clients, connected, ready, acceptReady, i, action,
                credential, history, result, status, rcvBuff>>

vars == <<clientVars, serverVars, linkVars>>

NoResponse == [kind |-> 0, id |-> 0, val |-> 0]

PcState == {"poll", "accept", "scan", "read", "relay", "await", "reply",
            "crashed"}

ServerTypeOK ==
  /\ pc \in PcState
  /\ clients \in Seq(Client)
  /\ connected \in SUBSET Client
  /\ ready \in SUBSET Client
  /\ acceptReady \in BOOLEAN
  /\ pc = "accept" /\ acceptReady => backlog # <<>>
  /\ i \in 0..Len(clients)
  /\ pc \in {"read", "relay", "await", "reply"} => i > 0
  /\ action \in Cmd \cup {"OTHER"}
  /\ credential \in Cred \cup {NoCred}
  /\ history \in Nat
  /\ result \in Kind \cup {0}
  /\ status \in Status
  /\ rcvBuff \in Response \cup {NoResponse}

TypeOK == ClientTypeOK /\ ServerTypeOK /\ LinkTypeOK

\* The constructors, TCP_init and initialize.
ServerInit ==
  /\ pc = "poll"
  /\ clients = <<>>
  /\ connected = {}
  /\ ready = {}
  /\ acceptReady = FALSE
  /\ i = 0
  /\ action \in InitialAction
  /\ credential = NoCred
  /\ history = 0
  /\ result = 0
  /\ status = "UNSET"
  /\ rcvBuff = NoResponse

Init == ClientInit /\ ServerInit /\ LinkInit

-----------------------------------------------------------------------------
(* poll: select, then accept.                                              *)

\* recv on the server's end of a client's connection would return.
Pending(c) == outbox[c] # <<>> \/ chat[c] \in {"fin", "rst"}

\* The connected clients among the first n of the vector.
ConnectedUpTo(n) == {l \in 1..n : clients[l] \in connected}

\* FD_SET drops what does not fit: the listening socket comes first, then the
\* connected clients in the order of the vector.
Watched_OneLess ==
  {clients[n] : n \in {m \in ConnectedUpTo(Len(clients)) :
                         Cardinality(ConnectedUpTo(m)) < FdSetSize - 1}}
Watched ==
  {clients[n] : n \in {m \in ConnectedUpTo(Len(clients)) :
                         Cardinality(ConnectedUpTo(m)) < FdSetSize}}

\* select returns: the sockets with something to read, or none at the timeout.
SelectConnection ==
  /\ pc = "poll"
  /\ listening
  /\ ready' = {c \in Watched : Pending(c)}
  /\ acceptReady' = (backlog # <<>>)
  /\ pc' = "accept"
  /\ UNCHANGED <<clients, connected, i, action, credential, history, result,
                 status, rcvBuff, clientVars, linkVars>>

\* for (i = clients.size() - 1; ...)
ScanStart_PastEnd(v) == Len(v) + 1
ScanStart(v) == Len(v)

\* At most one connection is accepted per round; the scan starts at the end
\* of the vector, with the new client, which is not in the ready set.
AcceptConnection ==
  /\ pc = "accept"
  /\ IF acceptReady
       THEN /\ clients' = Append(clients, Head(backlog))
            /\ connected' = connected \cup {Head(backlog)}
            /\ backlog' = Tail(backlog)
       ELSE UNCHANGED <<clients, connected, backlog>>
  /\ i' = ScanStart(clients')
  /\ pc' = "scan"
  /\ UNCHANGED <<ready, acceptReady, action, credential, history, result,
                 status, rcvBuff, chat, req, outbox, inbox, seen,
                 listening, linkVars>>

\* accept reports a connection that was reset while it waited: the listening
\* socket is closed and its address list freed, but main goes on.
AcceptError ==
  /\ pc = "accept"
  /\ acceptReady
  /\ chat[Head(backlog)] = "rst"
  /\ backlog' = Tail(backlog)
  /\ listening' = FALSE
  /\ i' = ScanStart(clients)
  /\ pc' = "scan"
  /\ UNCHANGED <<clients, connected, ready, acceptReady, action, credential,
                 history, result, status, rcvBuff, chat, req, outbox,
                 inbox, seen, linkVars>>

-----------------------------------------------------------------------------
(* The end of the process and its next start.                              *)

\* Its connections are reset; a client waiting on one repeats recv for ever.
\* The authentication server sees the connection closed or reset.
ProcessEnds ==
  /\ pc' = "crashed"
  /\ listening' = FALSE
  /\ backlog' = <<>>
  /\ connected' = {}
  /\ chat' = [c \in Client |->
                IF chat[c] \in {"open", "asked"} THEN "lost" ELSE chat[c]]
  /\ IF sock[link] = "up"
       THEN \E s \in {"closed", "reset"} : sock' = [sock EXCEPT ![link] = s]
       ELSE UNCHANGED sock
  /\ UNCHANGED <<req, outbox, inbox, seen, clients, ready, acceptReady, i,
                 action, credential, history, result, status, rcvBuff,
                 link, toAuth, fromAuth, auth, granted>>

\* select fails on the closed listening socket, and the address list is freed
\* a second time.
SelectError ==
  /\ pc = "poll"
  /\ ~listening
  /\ ProcessEnds

\* The process is killed, at any point, if it will be started again.
ServerKill ==
  /\ pc # "crashed"
  /\ link <= Restarts
  /\ ProcessEnds

\* A new process: new members, a new connection to the authentication server.
ServerStart ==
  /\ pc = "crashed"
  /\ link <= Restarts
  /\ pc' = "poll"
  /\ listening' = TRUE
  /\ clients' = <<>>
  /\ ready' = {}
  /\ acceptReady' = FALSE
  /\ i' = 0
  /\ action' \in InitialAction
  /\ credential' = NoCred
  /\ history' = 0
  /\ result' = 0
  /\ status' = "UNSET"
  /\ rcvBuff' = NoResponse
  /\ link' = link + 1
  /\ sock' = [sock EXCEPT ![link + 1] = IF auth = "down" THEN "rst" ELSE "up"]
  /\ UNCHANGED <<chat, req, outbox, inbox, seen, backlog, connected, toAuth,
                 fromAuth, auth, granted>>

-----------------------------------------------------------------------------
(* The loop of main over the clients, from the last to the first.          *)

\* The flag of the client is set and FD_ISSET holds for its socket.
IsReady_Unwatched(c) == c \in connected
IsReady(c) == c \in connected \cap ready

\* Back to poll after the first client; skip a client that is gone or quiet.
ScanNext ==
  /\ pc = "scan"
  /\ \/ /\ i = 0
        /\ pc' = "poll"
        /\ UNCHANGED i
     \/ /\ i > 0
        /\ ~IsReady(clients[i])
        /\ i' = i - 1
        /\ UNCHANGED pc
     \/ /\ i > 0
        /\ IsReady(clients[i])
        /\ pc' = "read"
        /\ UNCHANGED i
  /\ UNCHANGED <<clients, connected, ready, acceptReady, action, credential,
                 history, result, status, rcvBuff, clientVars, linkVars>>

\* recv returns a request, which parses or not: only then are the members set.
ReadRequest_CopiedBranch(c) ==
  /\ outbox[c] # <<>>
  /\ chat[c] # "rst"
  /\ action' = "CREATEACCOUNT"
  /\ credential' = Head(outbox[c]).cred
  /\ outbox' = [outbox EXCEPT ![c] = Tail(@)]
  /\ UNCHANGED connected
ReadRequest(c) ==
  /\ outbox[c] # <<>>
  /\ chat[c] # "rst"
  /\ \E tail \in Residue \ {"detail"} :
       LET q == Head(outbox[c]) IN
       IF Readable(q, tail)
         THEN action' = q.cmd /\ credential' = q.cred
         ELSE UNCHANGED <<action, credential>>
  /\ outbox' = [outbox EXCEPT ![c] = Tail(@)]
  /\ UNCHANGED connected

\* recv returns 0.
ReadEnd_KeepsConnected(c) ==
  /\ outbox[c] = <<>>
  /\ chat[c] = "fin"
  /\ UNCHANGED <<connected, outbox, action, credential>>
ReadEnd_ClearsMembers(c) ==
  /\ outbox[c] = <<>>
  /\ chat[c] = "fin"
  /\ connected' = connected \ {c}
  /\ credential' = NoCred
  /\ UNCHANGED <<outbox, action>>
ReadEnd(c) ==
  /\ outbox[c] = <<>>
  /\ chat[c] = "fin"
  /\ connected' = connected \ {c}
  /\ UNCHANGED <<outbox, action, credential>>

\* On a connection that was reset recv fails, and is repeated for ever: no step.
ReadFromClient ==
  /\ pc = "read"
  /\ ReadRequest(clients[i]) \/ ReadEnd(clients[i])
  /\ pc' = "relay"
  /\ UNCHANGED <<clients, ready, acceptReady, i, history, result, status,
                 rcvBuff, chat, req, inbox, seen, backlog, listening,
                 linkVars>>

\* The members hold neither command: nothing is relayed.
SkipRelay ==
  /\ pc = "relay"
  /\ action \notin Cmd
  /\ i' = i - 1
  /\ pc' = "scan"
  /\ UNCHANGED <<clients, connected, ready, acceptReady, action, credential,
                 history, result, status, rcvBuff, clientVars, linkVars>>

\* SendToServer, with the next id.  What is sent after the other end closed is
\* lost, and may cause a reset.
Relay ==
  /\ pc = "relay"
  /\ action \in Cmd
  /\ history' = history + 1
  /\ LET q == [cmd |-> action, id |-> history + 1, cred |-> credential] IN
     \/ /\ sock[link] = "up"
        /\ toAuth' = [toAuth EXCEPT ![link] = Append(@, q)]
        /\ UNCHANGED sock
     \/ /\ sock[link] \in {"fin", "rst"}
        /\ \/ sock' = [sock EXCEPT ![link] = "rst"]
           \/ UNCHANGED sock
        /\ UNCHANGED toAuth
  /\ pc' = "await"
  /\ UNCHANGED <<clients, connected, ready, acceptReady, i, action, credential,
                 result, status, rcvBuff, clientVars, link, fromAuth,
                 auth, granted>>

\* ReceiveFromServer: recv returns a response.
ReceiveAnswer ==
  /\ sock[link] # "rst"
  /\ fromAuth[link] # <<>>
  /\ \E tail \in Residue :
       LET r == Head(fromAuth[link])
           kind == KindSeen(r, tail)
       IN /\ result' = kind
          /\ status' = StatusOf(kind, ValSeen(r))
          /\ rcvBuff' = r
  /\ fromAuth' = [fromAuth EXCEPT ![link] = Tail(@)]

\* What would happen if the first recv that finds nothing ended the loop.
ReceiveEnd_GivesUp ==
  /\ fromAuth[link] = <<>>
  /\ result' \in Kind \cup {0}
  /\ UNCHANGED <<status, rcvBuff, fromAuth>>

\* recv returns 0: what is parsed is what the stack holds, perhaps the response
\* before.  With no element found the function ends without a return.
ReceiveEnd ==
  /\ sock[link] = "fin"
  /\ fromAuth[link] = <<>>
  /\ \/ /\ rcvBuff # NoResponse
        /\ result' = rcvBuff.kind
        /\ status' = StatusOf(rcvBuff.kind, ValSeen(rcvBuff))
     \/ /\ result' \in Kind \cup {0}
        /\ UNCHANGED status
  /\ UNCHANGED <<rcvBuff, fromAuth>>

\* On a connection that was reset recv fails, and is repeated for ever: no step.
Await ==
  /\ pc = "await"
  /\ ReceiveAnswer \/ ReceiveEnd
  /\ pc' = "reply"
  /\ UNCHANGED <<clients, connected, ready, acceptReady, i, action, credential,
                 history, clientVars, link, sock, toAuth, auth, granted>>

\* responseToChatClient: the result selects the kind, the status the reason.
\* Request id and user id are always 0.  No element, no byte to send.
ResponseToChatClient ==
  LET reason ==
        CASE status = "INVALID_PASS" /\ result = CreateFail -> INVALID_PASSWORD
          [] status = "INTERNAL_SERVER_ERROR" /\ result = CreateFail ->
               CreateInternalError
          [] status = "INTERNAL_SERVER_ERROR" /\ result = AuthFail ->
               AuthInternalError
          [] OTHER -> 0
  IN IF result = 0 THEN <<>>
     ELSE <<[kind |-> result, id |-> 0, val |-> reason]>>

\* send, which has no effect on a client that is gone.
Reply ==
  /\ pc = "reply"
  /\ LET c == clients[i] IN
     IF chat[c] = "asked"
       THEN inbox' = [inbox EXCEPT ![c] = @ \o ResponseToChatClient]
       ELSE UNCHANGED inbox
  /\ i' = i - 1
  /\ pc' = "scan"
  /\ UNCHANGED <<clients, connected, ready, acceptReady, action, credential,
                 history, result, status, rcvBuff, chat, req, outbox,
                 seen, backlog, listening, linkVars>>

ServerStep ==
  \/ SelectConnection
  \/ AcceptConnection
  \/ AcceptError
  \/ SelectError
  \/ ScanNext
  \/ ReadFromClient
  \/ SkipRelay
  \/ Relay
  \/ Await
  \/ Reply

-----------------------------------------------------------------------------

Next ==
  \/ \E c \in Client : ClientStep(c) /\ UNCHANGED <<serverVars, linkVars>>
  \/ ServerStep
  \/ ServerKill
  \/ ServerStart
  \/ AuthStep /\ UNCHANGED <<clientVars, serverVars>>

\* The threads run; a client that has a response reads it.  Users need not
\* type, and nothing obliges a failure to happen.
Fairness ==
  /\ WF_vars(ServerStep)
  /\ \A k \in Link : WF_vars(AuthServe(k) /\ UNCHANGED <<clientVars, serverVars>>)
  /\ \A c \in Client :
       WF_vars(ReceiveFromServer(c) /\ UNCHANGED <<serverVars, linkVars>>)

Spec == Init /\ [][Next]_vars

FairSpec == Spec /\ Fairness

-----------------------------------------------------------------------------
(* Properties.                                                             *)

\* The request relayed last, with the id it was given.
Relayed == [cmd |-> action, id |-> history, cred |-> credential]

\* No response carries the number of the request it answers any further than
\* the chat server, and nobody checks it there: what matches them is that one
\* request is under way at most, and only while main waits for its answer.
LockStep ==
  sock[link] = "up" =>
    /\ pc # "crashed"
    /\ IF pc = "await"
         THEN \/ toAuth[link] = <<Relayed>> /\ fromAuth[link] = <<>>
              \/ /\ toAuth[link] = <<>>
                 /\ \E r \in Answers(Relayed) : fromAuth[link] = <<r>>
         ELSE toAuth[link] = <<>> /\ fromAuth[link] = <<>>

\* The result main is about to pass on was computed from the response to the
\* request it relayed last, and is of a kind that answers it: ReceiveFromServer
\* never returns the response to another request while the connection holds.
AnswerIsCurrent ==
  pc = "reply" /\ sock[link] = "up" =>
    /\ rcvBuff.id = history
    /\ result \in AnswerKinds(action)

\* The members action, email_ and password_ are shared by all clients: while
\* main serves a client that is still connected they hold that client's own
\* request, when requests parse and are not empty, whatever bytes are behind the
\* responses.
RelayOwn ==
  /\ "garbage" \notin Residue
  /\ pc \in {"relay", "await", "reply"}
  /\ clients[i] \in connected
  => \/ req[clients[i]].cmd \in Cmd /\ req[clients[i]].cred = NoCred
     \/ /\ req[clients[i]] # NoReq
        /\ action = req[clients[i]].cmd
        /\ credential = req[clients[i]].cred

\* No connection to the authentication server was lost.
AuthKept == \A k \in Link : sock[k] \notin {"fin", "rst"}

\* A user is told of a success only if the authentication server answered that
\* command and these credentials with a success, as long as no connection to
\* it was lost: no client gets the answer meant for another.
NoFalseSuccess ==
  AuthKept =>
    \A c \in Client : IsSuccess(seen[c].kind) =>
      <<req[c].cmd, req[c].cred>> \in granted

\* The response a client reads answers its own command, under the same
\* condition.
AnswerFitsCommand ==
  AuthKept =>
    \A c \in Client : chat[c] = "done" =>
      seen[c].kind \in AnswerKinds(req[c].cmd)

\* The one thread never blocks in the recv of ReadFromClient: what select found
\* is still there when the scan comes to it, and no socket that select did not
\* watch is read.
RecvNeverBlocks == pc = "read" => Pending(clients[i])

\* The clients of this process whose request was read.
RequestRead ==
  {c \in Client : /\ \E n \in DOMAIN clients : clients[n] = c
                  /\ req[c] # NoReq
                  /\ outbox[c] = <<>>}

\* The clients of this process whose end was noticed.
EndRead == {clients[n] : n \in DOMAIN clients} \ connected

\* A client makes the server relay at most twice: once for its request and once
\* when it leaves, for as long as the process runs.
RelaysBounded ==
  pc # "crashed" =>
    history <= Cardinality(RequestRead) + Cardinality(EndRead)

\* The reasons of AuthProtocol.proto reach the user: what a client reads from the
\* response main is about to send is the status main got for it.
StatusReachesClient ==
  pc = "reply" =>
    \A n \in DOMAIN ResponseToChatClient :
      LET r == ResponseToChatClient[n]
      IN StatusOf(KindSeen(r, "clean"), ValSeen(r)) = status

\* A request without an email or a password ends the authentication server.
\* Only the first one a chat server process sends can be such a request: it
\* does so when a client leaves before any client's request was read.
BareRequestIsFirst ==
  \A k \in Link : \A n \in DOMAIN toAuth[k] :
    toAuth[k][n].cred = NoCred => toAuth[k][n].id = 1

\* What the chat server does with its connections is what the authentication
\* server is verified against: one request at a time, numbered in order from 1
\* on each connection, and none on a connection that has a response waiting.
KeepsToService == ServiceSpec

\* The one thread is in recv on a connection that was reset, which it repeats for
\* ever, or accept met such a connection, and the process ended.
Stopped ==
  \/ pc = "read" /\ chat[clients[i]] = "rst"
  \/ pc = "crashed"

\* Every client that asks and is not killed is answered, unless the service
\* stops for all: no request is starved by the order of the scan, by the one
\* accept per round or by the size of the fd_set, and a client killed at any
\* other point keeps nobody waiting.
Answered == \A c \in Client : chat[c] = "asked" ~> chat[c] # "asked" \/ Stopped

\* The end of every accepted connection is noticed, unless the service stops.
EndNoticed ==
  \A c \in Client :
    c \in connected /\ chat[c] = "fin" ~> c \notin connected \/ Stopped
=============================================================================
