----------------------------- MODULE AuthServer -----------------------------
(***************************************************************************)
(* The AuthenServer process: one thread that polls its sockets, reads a    *)
(* request, carries it out on the database with a cMySQL object of its     *)
(* own and sends the response.  Its clients are the connections of the     *)
(* chat server, one per start; the chat server is the peer of AuthService. *)
(*                                                                         *)
(* A definition named X_Y, just before X, is X with the mistake Y, used    *)
(* nowhere.                                                                *)
(***************************************************************************)
EXTENDS AuthService, AccountStore, FiniteSets

CONSTANTS
  FdSetSize,    \* FD_SETSIZE, the sockets one select can watch
  MaxRequests   \* bound: the requests of one chat server process

\* An exception of Connect is not heeded: the next call goes through a null
\* pConnection, and the process dies.
ASSUME AuthServerAssumption ==
  /\ FdSetSize \in Nat \ {0}
  /\ MaxRequests \in Nat
  /\ 1..MaxRequests \subseteq UserId
  /\ "connect" \in SqlFaults => AuthFaults

VARIABLES
  pc,          \* where TCP_Run is
  clients,     \* the vector of accepted connections, in order of acceptance
  connected,   \* those whose connected flag is set
  ready,       \* the clients in socketsReadyForReading
  acceptReady, \* the listening socket is in socketsReadyForReading
  backlog,     \* connections not accepted yet, oldest first
  i,           \* the loop index, counted from 1
  reqMSG       \* the request in hand

loopVars == <<pc, clients, connected, ready, acceptReady, backlog, i, reqMSG>>

vars == <<serviceVars, storeVars, loopVars>>

NoRequest == [cmd |-> "NONE"]

\* The request in hand is being carried out in these places.
Busy == {"connect", "create", "profile", "login", "disconnect", "send"}

PcState == {"poll", "accept", "scan", "recv"} \cup Busy

LoopTypeOK ==
  /\ pc \in PcState
  /\ clients \in Seq(1..link)
  /\ connected \in SUBSET (1..link)
  /\ ready \in SUBSET (1..link)
  /\ acceptReady \in BOOLEAN
  /\ backlog \in Seq(1..link)
  /\ i \in 0..Len(clients)
  /\ pc \in Busy \cup {"recv"} => i > 0
  /\ pc = "accept" /\ acceptReady => backlog # <<>>
  /\ reqMSG \in Request \cup {NoRequest}
  /\ pc \in Busy => reqMSG # NoRequest /\ reqMSG.cred # NoCred

TypeOK == LinkTypeOK /\ history \in Nat /\ StoreTypeOK /\ LoopTypeOK

\* The constructors and TCP_init, and the connections made since.
LoopInit(pending) ==
  /\ pc = "poll"
  /\ clients = <<>>
  /\ connected = {}
  /\ ready = {}
  /\ acceptReady = FALSE
  /\ backlog = pending
  /\ i = 0
  /\ reqMSG = NoRequest

Init ==
  /\ ServiceInit
  /\ StoreInit
  /\ LoopInit(IF auth = "up" THEN <<1>> ELSE <<>>)

\* A step of TCP_Run, which leaves the peer's count alone.
Runs(from, to) == auth = "up" /\ pc = from /\ pc' = to /\ UNCHANGED history

-----------------------------------------------------------------------------
(* SelectConnection and AcceptConnection.                                  *)

\* recv on a connection would return.
Pending(k) == toAuth[k] # <<>> \/ sock[k] \in {"closed", "reset"}

\* The connected clients among the first n of the vector.
ConnectedUpTo(n) == {l \in 1..n : clients[l] \in connected}

\* FD_SET drops what does not fit: the listening socket comes first, then the
\* connected clients in the order of the vector.
Watched ==
  {clients[n] : n \in {m \in ConnectedUpTo(Len(clients)) :
                         Cardinality(ConnectedUpTo(m)) < FdSetSize}}

SelectConnection ==
  /\ Runs("poll", "accept")
  /\ ready' = {k \in Watched : Pending(k)}
  /\ acceptReady' = (backlog # <<>>)
  /\ UNCHANGED <<linkVars, storeVars, clients, connected, backlog, i, reqMSG>>

AcceptConnection ==
  /\ Runs("accept", "scan")
  /\ IF acceptReady
       THEN /\ clients' = Append(clients, Head(backlog))
            /\ connected' = connected \cup {Head(backlog)}
            /\ backlog' = Tail(backlog)
       ELSE UNCHANGED <<clients, connected, backlog>>
  /\ i' = Len(clients')
  /\ UNCHANGED <<linkVars, storeVars, ready, acceptReady, reqMSG>>

\* The process is gone, and what it holds with it; the tables are not.
LoopGone ==
  /\ pc' = "poll"
  /\ clients' = <<>>
  /\ connected' = {}
  /\ ready' = {}
  /\ acceptReady' = FALSE
  /\ backlog' = <<>>
  /\ i' = 0
  /\ reqMSG' = NoRequest
  /\ UNCHANGED <<history, storeVars>>

\* accept fails on a connection that was reset: after WSACleanup every socket
\* call of the process fails.
AcceptError ==
  /\ pc = "accept"
  /\ acceptReady
  /\ AuthAcceptError(Head(backlog))
  /\ LoopGone

-----------------------------------------------------------------------------
(* The loop of TCP_Run over the clients, from the last to the first.       *)

\* The flag of the client is set and FD_ISSET holds for its socket.
IsReady_Unwatched(k) == k \in connected
IsReady(k) == k \in connected \cap ready

ScanNext ==
  /\ \/ i = 0 /\ Runs("scan", "poll") /\ UNCHANGED i
     \/ i > 0 /\ ~IsReady(clients[i]) /\ Runs("scan", "scan") /\ i' = i - 1
     \/ i > 0 /\ IsReady(clients[i]) /\ Runs("scan", "recv") /\ UNCHANGED i
  /\ UNCHANGED <<linkVars, storeVars, clients, connected, ready, acceptReady,
                 backlog, reqMSG>>

\* recv returns a request, and it parses.
RecvRequest ==
  /\ Runs("recv", "connect")
  /\ LET k == clients[i] IN
     /\ sock[k] # "reset"
     /\ toAuth[k] # <<>>
     /\ Readable(Head(toAuth[k]), "clean")
     /\ reqMSG' = Head(toAuth[k])
     /\ toAuth' = [toAuth EXCEPT ![k] = Tail(@)]
  /\ UNCHANGED <<link, sock, fromAuth, auth, granted, storeVars, clients,
                 connected, ready, acceptReady, backlog, i>>

\* It does not parse: TCP_Run returns, and main ends.
RecvBadRequest ==
  /\ pc = "recv"
  /\ sock[clients[i]] # "reset"
  /\ AuthExit(clients[i])
  /\ LoopGone

\* recv returns 0.
RecvEnd_KeepsConnected ==
  /\ Runs("recv", "scan")
  /\ sock[clients[i]] = "closed"
  /\ toAuth[clients[i]] = <<>>
  /\ i' = i - 1
  /\ UNCHANGED <<linkVars, storeVars, clients, connected, ready, acceptReady,
                 backlog, reqMSG>>
RecvEnd ==
  /\ Runs("recv", "scan")
  /\ sock[clients[i]] = "closed"
  /\ toAuth[clients[i]] = <<>>
  /\ connected' = connected \ {clients[i]}
  /\ i' = i - 1
  /\ UNCHANGED <<linkVars, storeVars, clients, ready, acceptReady, backlog,
                 reqMSG>>

\* recv fails, and is repeated for ever.
RecvFails ==
  /\ pc = "recv"
  /\ AuthStuck(clients[i])
  /\ UNCHANGED <<history, storeVars, loopVars>>

-----------------------------------------------------------------------------
(* Carrying out the request in hand.                                       *)

\* Connect on a new object, and the call for the request.  When only the schema
\* could not be set, it returns like this too, and the calls that follow throw.
SqlConnect ==
  /\ Runs("connect", IF reqMSG.cmd = "LOGIN" THEN "login" ELSE "create")
  /\ sqlStatus' = "UNSET"
  /\ uID' = 0
  /\ UNCHANGED <<linkVars, tables, clients, connected, ready, acceptReady,
                 backlog, i, reqMSG>>

\* Connect has no connection, and its result is not looked at.
SqlConnectFails ==
  /\ pc = "connect"
  /\ auth = "up"
  /\ "connect" \in SqlFaults
  /\ AuthKill
  /\ LoopGone

Store(from, to, call) ==
  /\ Runs(from, to)
  /\ call
  /\ UNCHANGED <<linkVars, clients, connected, ready, acceptReady, backlog, i,
                 reqMSG>>

CarryOut ==
  \/ Store("create", "disconnect", PrepareFails)
  \/ Store("create", "profile", InsertWebAuth(reqMSG))
  \/ Store("profile", "disconnect", InsertUser(reqMSG))
  \/ Store("login", "disconnect", UserAuthen(reqMSG))
  \/ Store("disconnect", "send", SqlDisconnect)

\* The two switches over the status.
ReplyMSG ==
  LET kind ==
        IF reqMSG.cmd = "LOGIN"
          THEN IF sqlStatus = "SUCCESS" THEN AuthSuccess ELSE AuthFail
          ELSE IF sqlStatus = "SUCCESS" THEN CreateDetail ELSE CreateFail
      reason ==
        CASE kind = AuthFail /\ sqlStatus = "INVALID_CREDENTIAL" ->
               INVALID_CREDENTIALS
          [] kind = AuthFail -> AuthInternalError
          [] kind = CreateFail /\ sqlStatus = "ACCOUNT_EXISTS" ->
               ACCOUNT_ALREADY_EXISTS
          [] kind = CreateFail /\ sqlStatus = "INVALID_PASS" -> INVALID_PASSWORD
          [] OTHER -> CreateInternalError
  IN [kind |-> kind, id |-> reqMSG.id,
      val |-> IF IsSuccess(kind) THEN uID ELSE reason]

\* send, and on to the next client.
Send ==
  /\ Runs("send", "scan")
  /\ SendAnswer(clients[i], reqMSG, ReplyMSG)
  /\ i' = i - 1
  /\ reqMSG' = NoRequest
  /\ UNCHANGED <<link, toAuth, auth, storeVars, clients, connected, ready,
                 acceptReady, backlog>>

TCP_Run ==
  \/ SelectConnection
  \/ AcceptConnection
  \/ AcceptError
  \/ ScanNext
  \/ RecvRequest
  \/ RecvBadRequest
  \/ RecvEnd
  \/ RecvFails
  \/ SqlConnect
  \/ SqlConnectFails
  \/ CarryOut
  \/ Send

-----------------------------------------------------------------------------
(* Death and start of the process, and the peer.                           *)

Kill == AuthKill /\ LoopGone

\* main: a new process, over the same tables.
Start ==
  /\ AuthStart
  /\ UNCHANGED <<history, storeVars, loopVars>>

\* The request in hand came by connection k.
InHand(k) == pc \in Busy /\ clients[i] = k

\* The peer waits for the answer to the request in hand.  A new connection
\* waits in the backlog.
Peer ==
  /\ PeerStep
  /\ history' > history /\ sock[link] = "up" => ~InHand(link)
  /\ history' <= MaxRequests
  /\ backlog' = IF link' # link /\ sock'[link'] = "up"
                  THEN Append(backlog, link') ELSE backlog
  /\ UNCHANGED <<storeVars, pc, clients, connected, ready, acceptReady, i,
                 reqMSG>>

Next == TCP_Run \/ Kill \/ Start \/ Peer

Spec == Init /\ [][Next]_vars

\* The thread runs.
FairSpec == Spec /\ WF_vars(TCP_Run)

-----------------------------------------------------------------------------
(* Properties.                                                             *)

\* The thread never blocks in recv: what select found is still there when the
\* scan comes to it.
RecvNeverBlocks == auth = "up" /\ pc = "recv" => Pending(clients[i])

\* User ids are request ids, which start at 1 with each chat server: as long as
\* that is started once, no two accounts have the same one, over all logins,
\* failures and starts of this process.
UserIdsDistinct ==
  link = 1 => \A r, s \in webAuth : r.userId = s.userId => r = s

\* What the comments in createNewAccount derive the user id from is the id of
\* the new row, which no other account has.
UserIdsUnique == \A r, s \in webAuth : r.userId = s.userId => r = s

\* A login is answered with a success only if there is an account with that
\* email and password, and with the id of that account: whatever fails, the
\* status and the id are those of the request in hand.
LoginIsAccount ==
  pc = "send" /\ ReplyMSG.kind = AuthSuccess =>
    [email |-> reqMSG.cred[1], passwd |-> reqMSG.cred[2],
     userId |-> ReplyMSG.val] \in webAuth

\* A creation that fails leaves no account behind it, up to Disconnect, which
\* can turn any status into a failure.
FailureIsClean ==
  pc = "disconnect" /\ reqMSG.cmd = "CREATEACCOUNT" /\ sqlStatus # "SUCCESS"
  /\ link = 1
    => \A r \in webAuth : r.userId # reqMSG.id

\* The proto file has a reason for a creation whose email is taken, and the
\* code sets it: a creation answered with a success made the account.
CreatedIsStored ==
  pc = "send" /\ ReplyMSG.kind = CreateDetail =>
    [email |-> reqMSG.cred[1], passwd |-> reqMSG.cred[2],
     userId |-> ReplyMSG.val] \in webAuth

\* Every request on a connection that holds is answered, unless the process
\* ends or spins on a connection that was reset: no connection is starved by the
\* ones that older chat servers left behind.
Served ==
  \A k \in Link :
    toAuth[k] # <<>> ~> fromAuth[k] # <<>> \/ sock[k] # "up" \/ auth # "up"
=============================================================================
