----------------------------- MODULE ChatSystem -----------------------------
(***************************************************************************)
(* The three programs together: the clients and the chat server of         *)
(* ChatServer, and in the place of what AuthService says, the              *)
(* authentication server of AuthServer over its database.                  *)
(*                                                                         *)
(* They share the connections between the two servers, and nothing else.   *)
(* Each is verified alone against one half of AuthService; here no half is *)
(* assumed.                                                                *)
(***************************************************************************)
EXTENDS ChatServer

CONSTANTS
  Email, Passwd,  \* what a credential is a pair of
  SqlFaults,      \* the database calls that may throw an SQLException
  MaxRequests     \* bound: the requests of one chat server process

\* The bound is no restriction: a client causes two relays at most.  Numbers of
\* requests become user ids.
ASSUME SystemAssumption ==
  /\ Cred \subseteq Email \X Passwd
  /\ SqlFaults \subseteq
       {"connect", "prepare", "insert", "profile", "login", "close"}
  /\ "connect" \in SqlFaults => AuthFaults
  /\ IsFiniteSet(Client)
  /\ MaxRequests \in Nat /\ 2 * Cardinality(Client) <= MaxRequests
  /\ 1..MaxRequests \subseteq UserId

\* The variables of AccountStore, and those of AuthServer with an "auth" in
\* front of the names that ChatServer has too.
VARIABLES
  webAuth, user, sqlStatus, uID,
  authPc, authClients, authConnected, authReady, authAcceptReady, authBacklog,
  authI, reqMSG

authVars == <<webAuth, user, sqlStatus, uID, authPc, authClients, authConnected,
              authReady, authAcceptReady, authBacklog, authI, reqMSG>>

systemVars == <<vars, authVars>>

Auth == INSTANCE AuthServer
  WITH pc <- authPc, clients <- authClients, connected <- authConnected,
       ready <- authReady, acceptReady <- authAcceptReady,
       backlog <- authBacklog, i <- authI

SystemInit ==
  /\ Init
  /\ Auth!StoreInit
  /\ Auth!LoopInit(IF auth = "up" THEN <<1>> ELSE <<>>)

-----------------------------------------------------------------------------

\* A connection that a chat server makes waits in the backlog of the
\* authentication server, until that accepts it.
ChatSide(Step) ==
  /\ Step
  /\ authBacklog' = IF link' # link /\ sock'[link'] = "up"
                      THEN Append(authBacklog, link') ELSE authBacklog
  /\ UNCHANGED <<webAuth, user, sqlStatus, uID, authPc, authClients,
                 authConnected, authReady, authAcceptReady, authI, reqMSG>>

AuthSide(Step) ==
  /\ Step
  /\ UNCHANGED <<clientVars, pc, clients, connected, ready, acceptReady, i,
                 action, credential, result, status, rcvBuff>>

ClientSide(c, Step) == ChatSide(Step /\ UNCHANGED <<serverVars, linkVars>>)

SystemNext ==
  \/ \E c \in Client : ClientSide(c, ClientStep(c))
  \/ ChatSide(ServerStep)
  \/ ChatSide(ServerKill)
  \/ ChatSide(ServerStart)
  \/ AuthSide(Auth!TCP_Run)
  \/ AuthSide(Auth!Kill)
  \/ AuthSide(Auth!Start)

SystemSpec == SystemInit /\ [][SystemNext]_systemVars

-----------------------------------------------------------------------------
(* Properties.                                                             *)

Account(cred) ==
  \E r \in webAuth : r.email = cred[1] /\ r.passwd = cred[2]

\* From the screen to the table: a client that prints "login completed" was
\* given an email and a password that are those of an account, whatever the
\* database calls throw and the chat server goes through, as long as no
\* connection between the servers was lost.
LoginMeansAccount ==
  AuthKept =>
    \A c \in Client : seen[c].kind = AuthSuccess => Account(req[c].cred)

AskedToCreate(c) == req[c] # NoReq /\ req[c].cmd = "CREATEACCOUNT"

\* A client that prints "account created" was given the email and the password
\* of an account, unless another user asked for the same email: createNewAccount
\* answers a taken one with a success, but then the account is that user's.  An
\* exception of the insert is answered in the same way and would leave neither.
CreatedMeansAccount ==
  AuthKept /\ "insert" \notin SqlFaults =>
    \A c \in Client : seen[c].kind = CreateDetail =>
      \/ Account(req[c].cred)
      \/ \E d \in Client \ {c} : /\ AskedToCreate(d)
                                /\ req[d].cred[1] = req[c].cred[1]
                                /\ Account(req[d].cred)

\* From the table to the keyboard: an account has the email and the password
\* that one user typed, together, to create an account.  No request that was
\* relayed again, or behind one that does not parse, makes another.
AccountsWereAskedFor ==
  \A r \in webAuth : \E c \in Client :
    AskedToCreate(c) /\ req[c].cred = <<r.email, r.passwd>>

\* What AuthServer assumes of its peer, the real chat server does.
PeerIsChatServer == Auth!Spec

\* What ChatServer assumes of the authentication server, the real one does: a
\* request in hand is still under way.  So every property of ChatServer that
\* does not speak of toAuth is one of this system.
toAuthOf ==
  [k \in Link |-> IF Auth!InHand(k) THEN <<reqMSG>> \o toAuth[k] ELSE toAuth[k]]

Service == INSTANCE ChatServer WITH toAuth <- toAuthOf

ServiceIsAuthServer == Service!Spec
=============================================================================
