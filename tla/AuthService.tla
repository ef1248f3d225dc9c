---------------------------- MODULE AuthService ----------------------------
(***************************************************************************)
(* The contract between the chat server and the authentication server over *)
(* the TCP connections between them: what the first, the peer, may do with *)
(* a connection, and what the second does with a request.                  *)
(*                                                                         *)
(* ChatServer is written over the second half and keeps to the first;      *)
(* AuthServer runs with the first and implements the second.               *)
(*                                                                         *)
(* The authentication server is the main of AuthenServer: here a request   *)
(* is taken and answered in one step.                                      *)
(***************************************************************************)
EXTENDS AuthProtocol, Sequences

CONSTANTS
  Restarts,    \* bound: how often the chat server is started again
  AuthFaults   \* whether the authentication server may die of any cause

ASSUME ServiceAssumption ==
  /\ Restarts \in Nat
  /\ AuthFaults \in BOOLEAN

\* Connections to the authentication server, one per start of a chat server.
Link == 1..(Restarts + 1)

VARIABLES
  link,      \* the connection of the chat server started last
  history,   \* the number of requests it sent, mCMDHistory
  sock,      \* the state of each connection
  toAuth,    \* requests under way
  fromAuth,  \* responses under way
  auth,      \* the authentication server: up, stuck (in a recv loop) or down
  granted    \* history: the commands and credentials it answered with a success

linkVars == <<link, sock, toAuth, fromAuth, auth, granted>>

serviceVars == <<linkVars, history>>

\* none    not made yet
\* up      established
\* fin     closed in order by the authentication server
\* rst     reset by it, or never established
\* closed  closed in order from the chat server's end
\* reset   reset from the chat server's end
SockState == {"none", "up", "fin", "rst", "closed", "reset"}

LinkTypeOK ==
  /\ link \in Link
  /\ sock \in [Link -> SockState]
  /\ toAuth \in [Link -> Seq(Request)]
  /\ fromAuth \in [Link -> Seq(Response)]
  /\ \A k \in Link : k > link =>
       sock[k] = "none" /\ toAuth[k] = <<>> /\ fromAuth[k] = <<>>
  /\ auth \in {"up", "stuck", "down"}
  /\ granted \subseteq Cmd \X Cred

LinkInit ==
  /\ link = 1
  /\ auth \in IF AuthFaults THEN {"up", "down"} ELSE {"up"}
  /\ sock = [k \in Link |-> IF k > 1 THEN "none"
                            ELSE IF auth = "up" THEN "up" ELSE "rst"]
  /\ toAuth = [k \in Link |-> <<>>]
  /\ fromAuth = [k \in Link |-> <<>>]
  /\ granted = {}

-----------------------------------------------------------------------------
(* The peer: the chat server, as seen from the authentication server.      *)

\* It asks when nothing is under way.  What is sent after the other end closed
\* is lost, and may cause a reset.
PeerSend ==
  /\ history' = history + 1
  /\ \/ /\ sock[link] = "up"
        /\ toAuth[link] = <<>>
        /\ fromAuth[link] = <<>>
        /\ \E cmd \in Cmd, cred \in Cred \cup {NoCred} :
             toAuth' = [toAuth EXCEPT ![link] =
                          Append(@, [cmd |-> cmd, id |-> history + 1, cred |-> cred])]
        /\ UNCHANGED sock
     \/ /\ sock[link] \in {"fin", "rst"}
        /\ sock' \in {sock, [sock EXCEPT ![link] = "rst"]}
        /\ UNCHANGED toAuth
  /\ UNCHANGED <<link, fromAuth, auth, granted>>

PeerReceive ==
  /\ sock[link] \in {"up", "fin"}
  /\ fromAuth[link] # <<>>
  /\ fromAuth' = [fromAuth EXCEPT ![link] = Tail(@)]
  /\ UNCHANGED <<link, history, sock, toAuth, auth, granted>>

\* Its process ends: the connection is closed or reset.
PeerEnd ==
  /\ sock[link] = "up"
  /\ \E end \in {"closed", "reset"} : sock' = [sock EXCEPT ![link] = end]
  /\ UNCHANGED <<link, history, toAuth, fromAuth, auth, granted>>

\* A new process connects, if it can, and numbers its requests from 1 again.
PeerStart ==
  /\ sock[link] # "up"
  /\ link <= Restarts
  /\ link' = link + 1
  /\ history' = 0
  /\ sock' = [sock EXCEPT ![link + 1] = IF auth = "down" THEN "rst" ELSE "up"]
  /\ UNCHANGED <<toAuth, fromAuth, auth, granted>>

PeerStep == PeerSend \/ PeerReceive \/ PeerEnd \/ PeerStart

-----------------------------------------------------------------------------
(* The authentication server, as seen from the chat server.                *)

\* The responses to a request: of the kind that answers it, with its id.
Answers(q) ==
  IF q.cmd = "LOGIN"
    THEN [kind : {AuthSuccess}, id : {q.id}, val : UserId]
         \cup [kind : {AuthFail}, id : {q.id}, val : AuthReason]
    ELSE [kind : {CreateDetail}, id : {q.id}, val : {q.id}]
         \cup [kind : {CreateFail}, id : {q.id}, val : CreateReason]

\* The answer is lost when the chat server is gone, and may be answered in turn
\* by a reset.
SendAnswer(k, q, r) ==
  /\ fromAuth' = IF sock[k] = "up"
                   THEN [fromAuth EXCEPT ![k] = Append(@, r)] ELSE fromAuth
  /\ \/ UNCHANGED sock
     \/ sock[k] = "closed" /\ sock' = [sock EXCEPT ![k] = "reset"]
  /\ granted' = IF IsSuccess(r.kind)
                  THEN granted \cup {<<q.cmd, q.cred>>} ELSE granted

\* It takes one request and answers it.
AuthServe(k) ==
  /\ auth = "up"
  /\ toAuth[k] # <<>>
  /\ LET q == Head(toAuth[k]) IN
     /\ Readable(q, "clean")
     /\ \E r \in Answers(q) : SendAnswer(k, q, r)
  /\ toAuth' = [toAuth EXCEPT ![k] = Tail(@)]
  /\ UNCHANGED <<link, auth>>

\* The process is gone, and with it the requests it did not read and its end of
\* the connection of this chat server, closed in order or reset.
AuthGone(end) ==
  /\ auth' = "down"
  /\ toAuth' = [j \in Link |-> <<>>]
  /\ sock' = [sock EXCEPT ![link] = IF @ = "up" THEN end ELSE @]
  /\ UNCHANGED <<link, fromAuth, granted>>

\* A request that does not parse ends the authentication server.
AuthExit(k) ==
  /\ auth = "up"
  /\ toAuth[k] # <<>>
  /\ \E tail \in Residue \ {"detail"} : ~Readable(Head(toAuth[k]), tail)
  /\ \E end \in {"fin", "rst"} : AuthGone(end)

\* A connection reset from the chat server's end: recv fails, and is repeated
\* for ever; no connection is served any more.
AuthStuck(k) ==
  /\ auth = "up"
  /\ sock[k] = "reset"
  /\ auth' = "stuck"
  /\ UNCHANGED <<link, sock, toAuth, fromAuth, granted>>

\* accept reports a connection that was reset while it waited: WSACleanup
\* takes every socket away.
AuthAcceptError(k) ==
  /\ auth = "up"
  /\ sock[k] = "reset"
  /\ AuthGone("rst")

AuthKill ==
  /\ AuthFaults
  /\ auth # "down"
  /\ AuthGone("rst")

\* A new authentication server knows no old connection: those that were reset
\* from this end are as good as closed.
AuthStart ==
  /\ AuthFaults
  /\ auth = "down"
  /\ auth' = "up"
  /\ sock' = [j \in Link |-> IF sock[j] = "reset" THEN "closed" ELSE sock[j]]
  /\ UNCHANGED <<link, toAuth, fromAuth, granted>>

AuthStep ==
  \/ \E k \in Link :
       AuthServe(k) \/ AuthExit(k) \/ AuthStuck(k) \/ AuthAcceptError(k)
  \/ AuthKill
  \/ AuthStart

-----------------------------------------------------------------------------

ServiceInit == LinkInit /\ history = 0

ServiceNext == PeerStep \/ (AuthStep /\ UNCHANGED history)

ServiceSpec == ServiceInit /\ [][ServiceNext]_serviceVars
=============================================================================
