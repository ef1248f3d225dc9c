--------------------------- MODULE ChatSystemProofs ---------------------------
(***************************************************************************)
(* What is proved of the three programs together, for every number of      *)
(* clients and of starts, and every failure of the models.                 *)
(*                                                                         *)
(* Each server was verified against what AuthService says of the other.    *)
(* Here each is shown to do that, so that what is proved of them alone     *)
(* holds of them together.  That is no circle: both show it in each step,  *)
(* from what both did before.                                              *)
(***************************************************************************)
EXTENDS ChatSystem, FiniteSetTheorems, TLAPS

-----------------------------------------------------------------------------
(* The servers alone.                                                      *)

\* The chat server and its clients, with what is proved of them.
Chat == INSTANCE ChatServerRefinementProofs WITH toAuth <- toAuthOf

\* The authentication server and its database, with what is proved of them.
DB == INSTANCE AuthServerProofs
  WITH pc <- authPc, clients <- authClients, connected <- authConnected,
       ready <- authReady, acceptReady <- authAcceptReady,
       backlog <- authBacklog, i <- authI

ChatInv == Chat!Inv /\ Chat!Attached /\ Chat!OwnInv /\ Chat!Distinct /\ Chat!Owed

DBInv == DB!TypeOK /\ DB!IdsBounded /\ DB!AnswerReady

LEMMA ChatAssumption == Chat!ServerAssumption
BY ServerAssumption DEF Chat!ServerAssumption, Chat!Cmd, Cmd

LEMMA DBAssumption == DB!StoreAssumption /\ DB!AuthServerAssumption
BY ServerAssumption, SystemAssumption DEF DB!StoreAssumption, DB!AuthServerAssumption

LEMMA ChatInvStep == ChatInv /\ [Chat!Next]_(Chat!vars) => ChatInv'
<1> SUFFICES ASSUME ChatInv, [Chat!Next]_(Chat!vars) PROVE ChatInv'
  OBVIOUS
<1> USE ChatAssumption, ResidueAssumption, CredAssumption, UserIdAssumption,
        ServiceAssumption, ClientAssumption
<1>0. Chat!Inv /\ Chat!Attached /\ Chat!OwnInv /\ Chat!Distinct /\ Chat!Owed /\ Chat!TypeOK
  BY DEF ChatInv, Chat!Inv
<1>1. Chat!Inv'
  BY <1>0, Chat!StepInv
<1>2. Chat!Attached'
  BY <1>0, Chat!StepAttached
<1>3. Chat!OwnInv'
  BY <1>0, Chat!StepOwn
<1>4. Chat!Distinct'
  BY <1>0, Chat!DistinctStep
<1>5. Chat!Owed'
  BY <1>0, Chat!OwedStep
<1> QED  BY <1>1, <1>2, <1>3, <1>4, <1>5 DEF ChatInv

LEMMA DBInvStep == DBInv /\ [DB!Next]_(DB!vars) => DBInv'
<1> SUFFICES ASSUME DBInv, [DB!Next]_(DB!vars) PROVE DBInv'
  OBVIOUS
<1> USE DBAssumption, ResidueAssumption, CredAssumption, UserIdAssumption,
        ServiceAssumption
<1>0. DB!TypeOK /\ DB!IdsBounded /\ DB!AnswerReady
  BY DEF DBInv
<1>1. DB!TypeOK'
  BY <1>0, DB!StepTypeOK
<1>2. DB!IdsBounded'
  BY <1>0, DB!BoundedStep
<1>3. DB!AnswerReady'
  BY <1>0, DB!ReadyStep
<1> QED  BY <1>1, <1>2, <1>3 DEF DBInv

\* The authentication server of ChatSystem is the one these proofs are about.
LEMMA SameDB ==
  /\ Auth!Init <=> DB!Init
  /\ Auth!TCP_Run <=> DB!TCP_Run
  /\ Auth!Kill <=> DB!Kill
  /\ Auth!Start <=> DB!Start
  /\ Auth!Next <=> DB!Next
  /\ UNCHANGED Auth!vars <=> UNCHANGED DB!vars
<1>1. Auth!Init <=> DB!Init
  BY DEF Auth!Init, DB!Init, Auth!ServiceInit, DB!ServiceInit, Auth!StoreInit,
      DB!StoreInit, Auth!LoopInit, DB!LoopInit, Auth!LinkInit, DB!LinkInit,
      Auth!NoRequest, DB!NoRequest, Auth!Link, DB!Link
<1>2. Auth!TCP_Run <=> DB!TCP_Run
  BY DEF Auth!TCP_Run, DB!TCP_Run, Auth!SelectConnection, DB!SelectConnection,
      Auth!AcceptConnection, DB!AcceptConnection, Auth!AcceptError, DB!AcceptError,
      Auth!ScanNext, DB!ScanNext, Auth!RecvRequest, DB!RecvRequest,
      Auth!RecvBadRequest, DB!RecvBadRequest, Auth!RecvEnd, DB!RecvEnd,
      Auth!RecvFails, DB!RecvFails, Auth!SqlConnect, DB!SqlConnect,
      Auth!SqlConnectFails, DB!SqlConnectFails, Auth!CarryOut, DB!CarryOut, Auth!Send,
      DB!Send, Auth!Runs, DB!Runs, Auth!Watched, DB!Watched, Auth!Pending, DB!Pending,
      Auth!linkVars, DB!linkVars, Auth!storeVars, DB!storeVars, Auth!AuthAcceptError,
      DB!AuthAcceptError, Auth!LoopGone, DB!LoopGone, Auth!IsReady, DB!IsReady,
      Auth!Readable, DB!Readable, Auth!AuthExit, DB!AuthExit, Auth!AuthStuck,
      DB!AuthStuck, Auth!loopVars, DB!loopVars, Auth!tables, DB!tables, Auth!AuthKill,
      DB!AuthKill, Auth!Store, DB!Store, Auth!PrepareFails, DB!PrepareFails,
      Auth!InsertWebAuth, DB!InsertWebAuth, Auth!InsertUser, DB!InsertUser,
      Auth!UserAuthen, DB!UserAuthen, Auth!SqlDisconnect, DB!SqlDisconnect,
      Auth!SendAnswer, DB!SendAnswer, Auth!ReplyMSG, DB!ReplyMSG, Auth!NoRequest,
      DB!NoRequest, Auth!ConnectedUpTo, DB!ConnectedUpTo, Auth!Cardinality,
      DB!Cardinality, Auth!AuthGone, DB!AuthGone, Auth!AccountOf, DB!AccountOf,
      Auth!IsSuccess, DB!IsSuccess, Auth!AuthSuccess, DB!AuthSuccess, Auth!AuthFail,
      DB!AuthFail, Auth!CreateDetail, DB!CreateDetail, Auth!CreateFail, DB!CreateFail,
      Auth!INVALID_CREDENTIALS, DB!INVALID_CREDENTIALS, Auth!AuthInternalError,
      DB!AuthInternalError, Auth!ACCOUNT_ALREADY_EXISTS, DB!ACCOUNT_ALREADY_EXISTS,
      Auth!INVALID_PASSWORD, DB!INVALID_PASSWORD, Auth!CreateInternalError,
      DB!CreateInternalError, Auth!Link, DB!Link
<1>3. /\ Auth!Kill <=> DB!Kill
      /\ Auth!Start <=> DB!Start
      /\ Auth!Peer <=> DB!Peer
  BY DEF Auth!Kill, DB!Kill, Auth!Start, DB!Start, Auth!Peer, DB!Peer, Auth!AuthKill,
      DB!AuthKill, Auth!LoopGone, DB!LoopGone, Auth!AuthStart, DB!AuthStart,
      Auth!storeVars, DB!storeVars, Auth!loopVars, DB!loopVars, Auth!PeerStep,
      DB!PeerStep, Auth!InHand, DB!InHand, Auth!AuthGone, DB!AuthGone, Auth!NoRequest,
      DB!NoRequest, Auth!Link, DB!Link, Auth!tables, DB!tables, Auth!PeerSend,
      DB!PeerSend, Auth!PeerReceive, DB!PeerReceive, Auth!PeerEnd, DB!PeerEnd,
      Auth!PeerStart, DB!PeerStart, Auth!Busy, DB!Busy, Auth!Cmd, DB!Cmd
<1>4. UNCHANGED Auth!vars <=> UNCHANGED DB!vars
  BY DEF Auth!vars, DB!vars, Auth!serviceVars, DB!serviceVars, Auth!storeVars,
      DB!storeVars, Auth!loopVars, DB!loopVars, Auth!linkVars, DB!linkVars,
      Auth!tables, DB!tables
<1> QED  BY <1>1, <1>2, <1>3, <1>4 DEF Auth!Next, DB!Next

\* So is the chat server over that authentication server.
LEMMA SameChat ==
  /\ Service!Init <=> Chat!Init
  /\ Service!Next <=> Chat!Next
  /\ UNCHANGED Service!vars <=> UNCHANGED Chat!vars
<1>1. Service!Init <=> Chat!Init
  BY DEF Service!Init, Chat!Init, Service!ClientInit, Chat!ClientInit,
      Service!ServerInit, Chat!ServerInit, Service!LinkInit, Chat!LinkInit,
      Service!NoReq, Chat!NoReq, Service!NothingSeen, Chat!NothingSeen,
      Service!NoResponse, Chat!NoResponse, Service!Link, Chat!Link
<1>2. Service!Next <=> Chat!Next
  BY DEF Service!Next, Chat!Next, Service!ClientStep, Chat!ClientStep,
      Service!serverVars, Chat!serverVars, Service!linkVars, Chat!linkVars,
      Service!ServerStep, Chat!ServerStep, Service!ServerKill, Chat!ServerKill,
      Service!ServerStart, Chat!ServerStart, Service!AuthStep, Chat!AuthStep,
      Service!clientVars, Chat!clientVars, Service!Connect, Chat!Connect,
      Service!ConnectRefused, Chat!ConnectRefused, Service!SendToServer,
      Chat!SendToServer, Service!ReceiveFromServer, Chat!ReceiveFromServer,
      Service!CloseSocket, Chat!CloseSocket, Service!Kill, Chat!Kill,
      Service!SelectConnection, Chat!SelectConnection, Service!AcceptConnection,
      Chat!AcceptConnection, Service!AcceptError, Chat!AcceptError,
      Service!SelectError, Chat!SelectError, Service!ScanNext, Chat!ScanNext,
      Service!ReadFromClient, Chat!ReadFromClient, Service!SkipRelay, Chat!SkipRelay,
      Service!Relay, Chat!Relay, Service!Await, Chat!Await, Service!Reply, Chat!Reply,
      Service!ProcessEnds, Chat!ProcessEnds, Service!NoResponse, Chat!NoResponse,
      Service!Link, Chat!Link, Service!AuthServe, Chat!AuthServe, Service!AuthExit,
      Chat!AuthExit, Service!AuthStuck, Chat!AuthStuck, Service!AuthAcceptError,
      Chat!AuthAcceptError, Service!AuthKill, Chat!AuthKill, Service!AuthStart,
      Chat!AuthStart, Service!Cmd, Chat!Cmd, Service!KindSeen, Chat!KindSeen,
      Service!StatusOf, Chat!StatusOf, Service!ValSeen, Chat!ValSeen, Service!Watched,
      Chat!Watched, Service!Pending, Chat!Pending, Service!ScanStart, Chat!ScanStart,
      Service!IsReady, Chat!IsReady, Service!ReadRequest, Chat!ReadRequest,
      Service!ReadEnd, Chat!ReadEnd, Service!ReceiveAnswer, Chat!ReceiveAnswer,
      Service!ReceiveEnd, Chat!ReceiveEnd, Service!ResponseToChatClient,
      Chat!ResponseToChatClient, Service!Readable, Chat!Readable, Service!Answers,
      Chat!Answers, Service!SendAnswer, Chat!SendAnswer, Service!AuthGone,
      Chat!AuthGone, Service!KindsSeen, Chat!KindsSeen, Service!AuthSuccess,
      Chat!AuthSuccess, Service!CreateDetail, Chat!CreateDetail, Service!AuthFail,
      Chat!AuthFail, Service!INVALID_CREDENTIALS, Chat!INVALID_CREDENTIALS,
      Service!CreateFail, Chat!CreateFail, Service!ACCOUNT_ALREADY_EXISTS,
      Chat!ACCOUNT_ALREADY_EXISTS, Service!INVALID_PASSWORD, Chat!INVALID_PASSWORD,
      Service!ConnectedUpTo, Chat!ConnectedUpTo, Service!Cardinality,
      Chat!Cardinality, Service!Kind, Chat!Kind, Service!CreateInternalError,
      Chat!CreateInternalError, Service!AuthInternalError, Chat!AuthInternalError,
      Service!AuthReason, Chat!AuthReason, Service!CreateReason, Chat!CreateReason,
      Service!IsSuccess, Chat!IsSuccess, Service!Truncated, Chat!Truncated
<1>3. UNCHANGED Service!vars <=> UNCHANGED Chat!vars
  BY DEF Service!vars, Chat!vars, Service!clientVars, Chat!clientVars,
      Service!serverVars, Chat!serverVars, Service!linkVars, Chat!linkVars
<1> QED  BY <1>1, <1>2, <1>3

\* What the chat server and its clients do, but for sending to the
\* authentication server, does not depend on what is under way to that.
LEMMA SameQuiet ==
  ASSUME toAuthOf' = toAuthOf
  PROVE  /\ SelectConnection \/ AcceptConnection \/ AcceptError \/ ScanNext
            \/ ReadFromClient \/ SkipRelay \/ Reply
           => Chat!ServerStep
         /\ Await => Chat!Await
         /\ SelectError \/ ServerKill => Chat!SelectError \/ Chat!ServerKill
         /\ ServerStart => Chat!ServerStart
         /\ \A c \in Client : ClientStep(c) => Chat!ClientStep(c)
<1>1. SelectConnection => Chat!SelectConnection
  BY DEF SelectConnection, Chat!SelectConnection, Watched, Chat!Watched, Pending,
      Chat!Pending, clientVars, Chat!clientVars, linkVars, Chat!linkVars,
      ConnectedUpTo, Chat!ConnectedUpTo, Cardinality, Chat!Cardinality
<1>2. AcceptConnection \/ AcceptError => Chat!AcceptConnection \/ Chat!AcceptError
  BY DEF AcceptConnection, Chat!AcceptConnection, AcceptError, Chat!AcceptError,
      ScanStart, Chat!ScanStart, linkVars, Chat!linkVars
<1>3. ScanNext \/ ReadFromClient \/ SkipRelay \/ Reply
        => Chat!ScanNext \/ Chat!ReadFromClient \/ Chat!SkipRelay \/ Chat!Reply
  BY DEF ScanNext, Chat!ScanNext, ReadFromClient, Chat!ReadFromClient, SkipRelay,
      Chat!SkipRelay, Reply, Chat!Reply, IsReady, Chat!IsReady, clientVars,
      Chat!clientVars, linkVars, Chat!linkVars, ReadRequest, Chat!ReadRequest,
      ReadEnd, Chat!ReadEnd, Cmd, Chat!Cmd, ResponseToChatClient,
      Chat!ResponseToChatClient, Readable, Chat!Readable, CreateFail, Chat!CreateFail,
      INVALID_PASSWORD, Chat!INVALID_PASSWORD, CreateInternalError,
      Chat!CreateInternalError, AuthFail, Chat!AuthFail, AuthInternalError,
      Chat!AuthInternalError
<1>4. Await => Chat!Await
  BY DEF Await, Chat!Await, ReceiveAnswer, Chat!ReceiveAnswer, ReceiveEnd,
      Chat!ReceiveEnd, clientVars, Chat!clientVars, KindSeen, Chat!KindSeen, StatusOf,
      Chat!StatusOf, ValSeen, Chat!ValSeen, AuthSuccess, Chat!AuthSuccess, NoResponse,
      Chat!NoResponse, Kind, Chat!Kind, KindsSeen, Chat!KindsSeen, CreateDetail,
      Chat!CreateDetail, AuthFail, Chat!AuthFail, INVALID_CREDENTIALS,
      Chat!INVALID_CREDENTIALS, CreateFail, Chat!CreateFail, ACCOUNT_ALREADY_EXISTS,
      Chat!ACCOUNT_ALREADY_EXISTS, INVALID_PASSWORD, Chat!INVALID_PASSWORD, Truncated,
      Chat!Truncated
<1>5. SelectError \/ ServerKill => Chat!SelectError \/ Chat!ServerKill
  BY DEF SelectError, Chat!SelectError, ServerKill, Chat!ServerKill, ProcessEnds,
      Chat!ProcessEnds
<1>6. ServerStart => Chat!ServerStart
  BY DEF ServerStart, Chat!ServerStart, NoResponse, Chat!NoResponse
<1>7. ASSUME NEW c \in Client, ClientStep(c) PROVE Chat!ClientStep(c)
  BY <1>7 DEF ClientStep, Chat!ClientStep, Connect, Chat!Connect, ConnectRefused,
      Chat!ConnectRefused, SendToServer, Chat!SendToServer, ReceiveFromServer,
      Chat!ReceiveFromServer, CloseSocket, Chat!CloseSocket, Kill, Chat!Kill, Cmd,
      Chat!Cmd, KindSeen, Chat!KindSeen, StatusOf, Chat!StatusOf, ValSeen,
      Chat!ValSeen, KindsSeen, Chat!KindsSeen, AuthSuccess, Chat!AuthSuccess,
      CreateDetail, Chat!CreateDetail, AuthFail, Chat!AuthFail, INVALID_CREDENTIALS,
      Chat!INVALID_CREDENTIALS, CreateFail, Chat!CreateFail, ACCOUNT_ALREADY_EXISTS,
      Chat!ACCOUNT_ALREADY_EXISTS, INVALID_PASSWORD, Chat!INVALID_PASSWORD, Truncated,
      Chat!Truncated
<1> QED  BY <1>1, <1>2, <1>3, <1>4, <1>5, <1>6, <1>7 DEF Chat!ServerStep

-----------------------------------------------------------------------------
(* The chat server does what the authentication server assumes.            *)

SystemInv == ChatInv /\ DBInv

LEMMA LinkTypes ==
  ASSUME SystemInv
  PROVE  /\ link \in Link /\ history \in Nat
         /\ toAuth \in [Link -> Seq(Request)]
         /\ sock \in [Link -> SockState]
         /\ pc \in PcState
         /\ action \in Cmd \cup {"OTHER"} /\ credential \in Cred \cup {NoCred}
<1>1. DB!LinkTypeOK /\ history \in Nat
  BY DEF SystemInv, DBInv, DB!TypeOK
<1>2. Chat!ServerTypeOK
  BY DEF SystemInv, ChatInv, Chat!Inv, Chat!TypeOK
<1>3. /\ link \in Link /\ toAuth \in [Link -> Seq(Request)] /\ sock \in [Link -> SockState]
  BY <1>1
  DEF DB!LinkTypeOK, DB!Link, Link, DB!Request, Request, DB!Cmd, Cmd, DB!SockState,
      SockState
<1>4. /\ pc \in PcState
      /\ action \in Cmd \cup {"OTHER"} /\ credential \in Cred \cup {NoCred}
  BY <1>2 DEF Chat!ServerTypeOK, Chat!PcState, PcState, Chat!Cmd, Cmd
<1> QED  BY <1>1, <1>3, <1>4

\* When the chat server does not wait for an answer, nothing of its connection is
\* under way, in hand or unread.
LEMMA NothingUnderWay ==
  ASSUME SystemInv, sock[link] = "up", pc # "await"
  PROVE  toAuth[link] = <<>> /\ fromAuth[link] = <<>> /\ ~Auth!InHand(link)
<1>1. toAuthOf[link] = <<>> /\ fromAuth[link] = <<>>
  BY DEF SystemInv, ChatInv, Chat!Inv, Chat!LockStep
<1>2. toAuthOf[link] = IF Auth!InHand(link) THEN <<reqMSG>> \o toAuth[link] ELSE toAuth[link]
  BY LinkTypes DEF toAuthOf
<1>3. toAuth[link] \in Seq(Request)
  BY LinkTypes
<1>4. Auth!InHand(link) => reqMSG \in Request
  BY DEF SystemInv, DBInv, DB!TypeOK, DB!LoopTypeOK, Auth!InHand, DB!Busy, Auth!Busy,
         DB!NoRequest, DB!Request, Request, DB!Cmd, Cmd
<1>5. Auth!InHand(link) => <<reqMSG>> \o toAuth[link] # <<>>
  BY <1>3, <1>4
<1> QED  BY <1>1, <1>2, <1>5

\* A process relays no more than the clients cause, which is within the bound.
LEMMA WithinBound ==
  ASSUME SystemInv, pc = "relay"
  PROVE  history + 1 <= MaxRequests
<1>1. /\ IsFiniteSet(Chat!Accepted)
      /\ history + 1 <= Cardinality(Chat!RequestRead) + Cardinality(Chat!EndRead)
  BY DEF SystemInv, ChatInv, Chat!Owed, Chat!IsFiniteSet, IsFiniteSet,
         Chat!Cardinality, Cardinality
<1>2. Chat!RequestRead \subseteq Client /\ Chat!EndRead \subseteq Client
  <2>1. clients \in Seq(Client)
    BY DEF SystemInv, ChatInv, Chat!Inv, Chat!TypeOK, Chat!ServerTypeOK
  <2> QED  BY <2>1 DEF Chat!RequestRead, Chat!EndRead
<1>3. /\ IsFiniteSet(Client) /\ Cardinality(Client) \in Nat
      /\ Cardinality(Chat!RequestRead) <= Cardinality(Client)
      /\ Cardinality(Chat!EndRead) <= Cardinality(Client)
      /\ Cardinality(Chat!RequestRead) \in Nat /\ Cardinality(Chat!EndRead) \in Nat
  BY <1>2, SystemAssumption, FS_Subset, FS_CardinalityType
<1>4. MaxRequests \in Nat /\ 2 * Cardinality(Client) <= MaxRequests /\ history \in Nat
  BY SystemAssumption, LinkTypes
<1> QED  BY <1>1, <1>3, <1>4

\* The chat server asks.
LEMMA RelayIsPeer ==
  ASSUME SystemInv, ChatSide(Relay)
  PROVE  DB!Peer
<1>1. /\ Relay /\ pc = "relay" /\ action \in Cmd /\ history' = history + 1
      /\ UNCHANGED <<link, fromAuth, auth, granted>>
  BY DEF ChatSide, Relay
<1>2. /\ history' <= MaxRequests /\ link \in Link /\ history \in Nat
      /\ credential \in Cred \cup {NoCred}
  BY <1>1, WithinBound, LinkTypes
<1>3. DB!PeerSend
  <2>1. CASE sock[link] = "up"
    <3>1. toAuth[link] = <<>> /\ fromAuth[link] = <<>>
      BY <1>1, <2>1, NothingUnderWay
    <3>2. /\ sock' = sock
          /\ toAuth' = [toAuth EXCEPT ![link] =
               Append(@, [cmd |-> action, id |-> history + 1, cred |-> credential])]
      BY <1>1, <2>1 DEF Relay
    <3> QED  BY <1>1, <1>2, <2>1, <3>1, <3>2 DEF DB!PeerSend, DB!Cmd, Cmd
  <2>2. CASE sock[link] # "up"
    BY <1>1, <2>2 DEF Relay, DB!PeerSend
  <2> QED  BY <2>1, <2>2
<1>4. sock[link] = "up" => ~DB!InHand(link)
  BY <1>1, NothingUnderWay DEF Auth!InHand, DB!InHand, Auth!Busy, DB!Busy
<1> QED  BY <1>1, <1>2, <1>3, <1>4 DEF ChatSide, DB!Peer, DB!PeerStep, DB!storeVars, DB!tables

\* It reads the answer, or nothing.
LEMMA AwaitIsPeer ==
  ASSUME SystemInv, ChatSide(Await)
  PROVE  DB!Peer \/ UNCHANGED DB!vars
<1>1. /\ pc = "await" /\ UNCHANGED <<link, history, sock, toAuth, auth, granted>>
  BY DEF ChatSide, Await
<1>2. CASE fromAuth' = fromAuth
  BY <1>1, <1>2
  DEF ChatSide, DB!vars, DB!serviceVars, DB!linkVars, DB!storeVars, DB!tables,
      DB!loopVars
<1>3. CASE fromAuth' # fromAuth
  <2>1. /\ sock[link] # "rst" /\ fromAuth[link] # <<>>
        /\ fromAuth' = [fromAuth EXCEPT ![link] = Tail(@)]
    BY <1>3 DEF ChatSide, Await, ReceiveAnswer, ReceiveEnd
  <2>2. sock[link] \in {"up", "fin"}
    BY <1>1, <2>1 DEF SystemInv, ChatInv, Chat!Attached
  <2>3. DB!PeerReceive
    BY <1>1, <2>1, <2>2 DEF DB!PeerReceive
  <2>4. history \in Nat /\ history' <= MaxRequests
    BY <1>1, LinkTypes DEF SystemInv, DBInv, DB!IdsBounded
  <2> QED
    BY <1>1, <2>3, <2>4
    DEF ChatSide, DB!Peer, DB!PeerStep, DB!storeVars, DB!tables
<1> QED  BY <1>2, <1>3

\* Its process ends.
LEMMA EndIsPeer ==
  ASSUME SystemInv, ChatSide(SelectError \/ ServerKill)
  PROVE  DB!Peer \/ UNCHANGED DB!vars
<1>1. /\ ProcessEnds /\ UNCHANGED <<link, history, toAuth, fromAuth, auth, granted>>
      /\ history \in Nat /\ history <= MaxRequests
  BY LinkTypes
  DEF ChatSide, SelectError, ServerKill, ProcessEnds, SystemInv, DBInv, DB!IdsBounded
<1>2. CASE sock[link] = "up"
  <2>1. DB!PeerEnd
    BY <1>1, <1>2 DEF ProcessEnds, DB!PeerEnd
  <2> QED
    BY <1>1, <2>1 DEF ChatSide, DB!Peer, DB!PeerStep, DB!storeVars, DB!tables
<1>3. CASE sock[link] # "up"
  <2>1. sock' = sock
    BY <1>1, <1>3 DEF ProcessEnds
  <2> QED
    BY <1>1, <2>1
    DEF ChatSide, DB!vars, DB!serviceVars, DB!linkVars, DB!storeVars, DB!tables,
        DB!loopVars
<1> QED  BY <1>2, <1>3

\* Another starts, with a new connection.
LEMMA StartIsPeer ==
  ASSUME SystemInv, ChatSide(ServerStart)
  PROVE  DB!Peer
<1>1. sock[link] # "up"
  BY DEF ChatSide, ServerStart, SystemInv, ChatInv, Chat!Inv, Chat!LockStep
<1>2. DB!PeerStart /\ history' = 0
  BY <1>1 DEF ChatSide, ServerStart, DB!PeerStart
<1>3. ~(history' > history) /\ history' <= MaxRequests
  BY <1>2, LinkTypes, SystemAssumption
<1> QED
  BY <1>2, <1>3 DEF ChatSide, DB!Peer, DB!PeerStep, DB!storeVars, DB!tables

LEMMA PeerIsChatServerStep ==
  ASSUME SystemInv, [SystemNext]_systemVars
  PROVE  [DB!Next]_(DB!vars)
<1> SUFFICES ASSUME SystemNext \/ UNCHANGED systemVars
             PROVE  DB!Next \/ UNCHANGED DB!vars
  OBVIOUS
<1>1. CASE ChatSide(Relay \/ Await \/ SelectError \/ ServerKill \/ ServerStart)
  <2>1. \/ ChatSide(Relay) \/ ChatSide(Await) \/ ChatSide(SelectError \/ ServerKill)
        \/ ChatSide(ServerStart)
    BY <1>1 DEF ChatSide
  <2> QED
    BY <2>1, RelayIsPeer, AwaitIsPeer, EndIsPeer, StartIsPeer DEF DB!Next
<1>2. CASE AuthSide(Auth!TCP_Run) \/ AuthSide(Auth!Kill) \/ AuthSide(Auth!Start)
  BY <1>2, SameDB DEF AuthSide, DB!Next
<1>3. CASE \/ UNCHANGED systemVars
           \/ ChatSide(TRUE) /\ UNCHANGED <<history, linkVars>>
  BY <1>3
  DEF systemVars, vars, authVars, serverVars, linkVars, ChatSide, DB!vars,
      DB!serviceVars, DB!linkVars, DB!storeVars, DB!tables, DB!loopVars
<1>4. ASSUME ChatSide(ServerStep)
      PROVE  \/ ChatSide(Relay \/ Await \/ SelectError \/ ServerKill \/ ServerStart)
             \/ ChatSide(TRUE) /\ UNCHANGED <<history, linkVars>>
  BY <1>4
  DEF ChatSide, ServerStep, SelectConnection, AcceptConnection, AcceptError, ScanNext,
      ReadFromClient, SkipRelay, Reply
<1>5. ASSUME NEW c \in Client, ClientSide(c, ClientStep(c))
      PROVE  ChatSide(TRUE) /\ UNCHANGED <<history, linkVars>>
  BY <1>5 DEF ClientSide, ChatSide, serverVars
<1>6. ASSUME ChatSide(ServerKill) \/ ChatSide(ServerStart)
      PROVE  ChatSide(Relay \/ Await \/ SelectError \/ ServerKill \/ ServerStart)
  BY <1>6 DEF ChatSide
<1>7. CASE SystemNext
  BY <1>1, <1>2, <1>3, <1>4, <1>5, <1>6, <1>7 DEF SystemNext
<1> QED  BY <1>3, <1>7

-----------------------------------------------------------------------------
(* The authentication server does what the chat server assumes.            *)

\* What the connections carry, for the chat server, is the same for the proofs
\* of the authentication server.
LEMMA SameOf == toAuthOf = DB!toAuthOf /\ toAuthOf' = DB!toAuthOf'
BY DEF toAuthOf, DB!toAuthOf, Auth!InHand, DB!InHand, Auth!Busy, DB!Busy, Link, DB!Link

\* What the chat server does with a request does not depend on the ones in front.
LEMMA RelayIsRelay ==
  ASSUME SystemInv, ChatSide(Relay)
  PROVE  Chat!Relay
<1> DEFINE q == [cmd |-> action, id |-> history + 1, cred |-> credential]
<1>1. UNCHANGED <<authPc, authClients, authI, reqMSG>> /\ Relay
  BY DEF ChatSide
<1>2. toAuth \in [Link -> Seq(Request)] /\ link \in Link
  BY LinkTypes
<1>3. CASE toAuth' = toAuth
  <2>1. toAuthOf' = toAuthOf
    BY <1>1, <1>3 DEF toAuthOf, Auth!InHand, Auth!Busy
  <2>2. sock[link] # "up"
    <3> SUFFICES ASSUME sock[link] = "up" PROVE FALSE
      OBVIOUS
    <3>1. toAuth' = [toAuth EXCEPT ![link] = Append(@, q)]
      BY <1>1 DEF Relay
    <3> HIDE DEF q
    <3>2. toAuth'[link] = Append(toAuth[link], q) /\ toAuth[link] \in Seq(Request)
      BY <1>2, <3>1
    <3>3. Len(Append(toAuth[link], q)) = Len(toAuth[link]) + 1 /\ Len(toAuth[link]) \in Nat
      BY <3>2
    <3> QED  BY <1>3, <3>2, <3>3
  <2> QED
    BY <1>1, <2>1, <2>2
    DEF Relay, Chat!Relay, Cmd, Chat!Cmd, clientVars, Chat!clientVars
<1>4. CASE toAuth' # toAuth
  <2>1. /\ sock[link] = "up" /\ sock' = sock
        /\ toAuth' = [toAuth EXCEPT ![link] = Append(@, q)]
    BY <1>1, <1>4 DEF Relay
  <2>2. ~Auth!InHand(link) /\ toAuth[link] = <<>>
    BY <1>1, <2>1, NothingUnderWay DEF Relay
  <2> HIDE DEF q
  <2>3. toAuthOf[link] = toAuth[link]
    BY <1>2, <2>2 DEF toAuthOf
  <2>4. toAuthOf' = [j \in Link |-> IF Auth!InHand(j) THEN <<reqMSG>> \o toAuth'[j]
                                                  ELSE toAuth'[j]]
    BY <1>1 DEF toAuthOf, Auth!InHand, Auth!Busy
  <2>5. [toAuthOf EXCEPT ![link] = Append(@, q)]
          = [j \in Link |-> IF j = link THEN Append(toAuthOf[link], q) ELSE toAuthOf[j]]
    BY <1>2 DEF toAuthOf
  <2>6. ASSUME NEW j \in Link
        PROVE  (IF Auth!InHand(j) THEN <<reqMSG>> \o toAuth'[j] ELSE toAuth'[j])
                 = IF j = link THEN Append(toAuthOf[link], q) ELSE toAuthOf[j]
    BY <1>2, <2>1, <2>2, <2>3 DEF toAuthOf
  <2>7. toAuthOf' = [toAuthOf EXCEPT ![link] = Append(@, q)]
    BY <2>4, <2>5, <2>6
  <2> QED
    BY <1>1, <2>1, <2>7
    DEF q, Relay, Chat!Relay, Cmd, Chat!Cmd, clientVars, Chat!clientVars
<1> QED  BY <1>3, <1>4


\* What it answers is what the chat server expects.
LEMMA SameAuthStep == DB!Service!AuthStep => Chat!AuthStep
<1>1. DB!Service!Link = Chat!Link
  BY DEF DB!Service!Link, Chat!Link
<1>2. ASSUME NEW q PROVE DB!Service!Answers(q) = Chat!Answers(q)
  BY DEF DB!Service!Answers, Chat!Answers, DB!Service!AuthSuccess, Chat!AuthSuccess,
      DB!Service!AuthFail, Chat!AuthFail, DB!Service!AuthReason, Chat!AuthReason,
      DB!Service!CreateDetail, Chat!CreateDetail, DB!Service!CreateFail,
      Chat!CreateFail, DB!Service!CreateReason, Chat!CreateReason,
      DB!Service!INVALID_CREDENTIALS, Chat!INVALID_CREDENTIALS,
      DB!Service!ACCOUNT_ALREADY_EXISTS, Chat!ACCOUNT_ALREADY_EXISTS,
      DB!Service!AuthInternalError, Chat!AuthInternalError,
      DB!Service!CreateInternalError, Chat!CreateInternalError
<1>3. ASSUME NEW q, NEW tail PROVE DB!Service!Readable(q, tail) <=> Chat!Readable(q, tail)
  BY DEF DB!Service!Readable, Chat!Readable
<1>4. ASSUME NEW k, NEW q, NEW r, DB!Service!SendAnswer(k, q, r)
      PROVE  Chat!SendAnswer(k, q, r)
  BY <1>4
  DEF DB!Service!SendAnswer, Chat!SendAnswer, DB!Service!IsSuccess, Chat!IsSuccess,
      DB!Service!AuthSuccess, Chat!AuthSuccess, DB!Service!CreateDetail,
      Chat!CreateDetail
<1>5. ASSUME NEW k, DB!Service!AuthServe(k) PROVE Chat!AuthServe(k)
  BY <1>2, <1>3, <1>4, <1>5, SameOf DEF DB!Service!AuthServe, Chat!AuthServe
<1>6. ASSUME NEW end, DB!Service!AuthGone(end) PROVE Chat!AuthGone(end)
  BY <1>1, <1>6, SameOf DEF DB!Service!AuthGone, Chat!AuthGone
<1>7. ASSUME NEW k,
             DB!Service!AuthExit(k) \/ DB!Service!AuthStuck(k) \/ DB!Service!AuthAcceptError(k)
      PROVE  Chat!AuthExit(k) \/ Chat!AuthStuck(k) \/ Chat!AuthAcceptError(k)
  BY <1>3, <1>6, <1>7, SameOf
  DEF DB!Service!AuthExit, Chat!AuthExit, DB!Service!AuthStuck, Chat!AuthStuck,
      DB!Service!AuthAcceptError, Chat!AuthAcceptError
<1>8. DB!Service!AuthKill \/ DB!Service!AuthStart => Chat!AuthKill \/ Chat!AuthStart
  BY <1>1, <1>6, SameOf
  DEF DB!Service!AuthKill, Chat!AuthKill, DB!Service!AuthStart, Chat!AuthStart
<1> QED  BY <1>1, <1>5, <1>7, <1>8 DEF DB!Service!AuthStep, Chat!AuthStep

LEMMA AuthSideIsAuth ==
  ASSUME SystemInv, AuthSide(Auth!TCP_Run \/ Auth!Kill \/ Auth!Start)
  PROVE  (Chat!AuthStep \/ UNCHANGED Chat!linkVars) /\ UNCHANGED history
<1>1. DB!TCP_Run \/ DB!Kill \/ DB!Start
  BY SameDB DEF AuthSide
<1>2. DB!TypeOK /\ DB!AnswerReady
  BY DEF SystemInv, DBInv
<1>3. \/ DB!Service!AuthStep /\ UNCHANGED history
      \/ UNCHANGED DB!Service!serviceVars
  BY <1>1, <1>2, DBAssumption, ResidueAssumption, CredAssumption, UserIdAssumption,
     ServiceAssumption, DB!ServiceAuthStep
<1>4. CASE UNCHANGED DB!Service!serviceVars
  BY <1>4, SameOf DEF DB!Service!serviceVars, DB!Service!linkVars, Chat!linkVars
<1> QED  BY <1>3, <1>4, SameAuthStep

\* Nothing but what it sends changes what is under way to the authentication
\* server.
LEMMA OfKept ==
  ASSUME UNCHANGED <<toAuth, authPc, authClients, authI, reqMSG>>
  PROVE  toAuthOf' = toAuthOf
BY DEF toAuthOf, Auth!InHand

LEMMA ServerIsServer ==
  ASSUME SystemInv, ChatSide(ServerStep \/ ServerKill \/ ServerStart)
  PROVE  Chat!Next
<1>0. UNCHANGED <<authPc, authClients, authI, reqMSG>>
  BY DEF ChatSide
<1>1. CASE ChatSide(Relay)
  BY <1>1, RelayIsRelay DEF Chat!ServerStep, Chat!Next
<1>2. CASE Await \/ SelectError \/ ServerKill \/ ServerStart
  <2>1. UNCHANGED toAuth
    BY <1>2 DEF Await, SelectError, ServerKill, ServerStart, ProcessEnds
  <2>2. toAuthOf' = toAuthOf
    BY <1>0, <2>1, OfKept
  <2> QED  BY <1>2, <2>2, SameQuiet DEF Chat!ServerStep, Chat!Next
<1>3. CASE SelectConnection \/ AcceptConnection \/ AcceptError \/ ScanNext
           \/ ReadFromClient \/ SkipRelay \/ Reply
  <2>1. UNCHANGED toAuth
    BY <1>3
    DEF SelectConnection, AcceptConnection, AcceptError, ScanNext, ReadFromClient,
        SkipRelay, Reply, linkVars
  <2>2. toAuthOf' = toAuthOf
    BY <1>0, <2>1, OfKept
  <2> QED  BY <1>3, <2>2, SameQuiet DEF Chat!Next
<1> QED  BY <1>1, <1>2, <1>3 DEF ChatSide, ServerStep

LEMMA ClientIsClient ==
  ASSUME NEW c \in Client, ClientSide(c, ClientStep(c))
  PROVE  Chat!Next
<1>1. /\ ClientStep(c) /\ UNCHANGED <<serverVars, linkVars>>
      /\ UNCHANGED <<authPc, authClients, authI, reqMSG>>
  BY DEF ClientSide, ChatSide
<1>2. toAuthOf' = toAuthOf
  BY <1>1, OfKept DEF linkVars
<1>3. UNCHANGED <<Chat!serverVars, Chat!linkVars>>
  BY <1>1, <1>2 DEF serverVars, linkVars, Chat!serverVars, Chat!linkVars
<1> QED  BY <1>1, <1>2, <1>3, SameQuiet DEF Chat!Next

LEMMA AuthIsAuth ==
  ASSUME SystemInv, AuthSide(Auth!TCP_Run \/ Auth!Kill \/ Auth!Start)
  PROVE  [Chat!Next]_(Chat!vars)
<1>1. /\ UNCHANGED <<clientVars, pc, clients, connected, ready, acceptReady, i,
                     action, credential, result, status, rcvBuff>>
      /\ Chat!AuthStep \/ UNCHANGED Chat!linkVars
      /\ UNCHANGED history
  BY AuthSideIsAuth DEF AuthSide
<1> QED
  BY <1>1
  DEF Chat!Next, Chat!vars, Chat!serverVars, Chat!clientVars, clientVars

LEMMA ServiceIsAuthServerStep ==
  ASSUME SystemInv, [SystemNext]_systemVars
  PROVE  [Chat!Next]_(Chat!vars)
<1>1. CASE UNCHANGED systemVars
  <2>1. toAuthOf' = toAuthOf
    BY <1>1, OfKept DEF systemVars, vars, authVars, linkVars
  <2> QED
    BY <1>1, <2>1
    DEF systemVars, vars, clientVars, serverVars, linkVars, Chat!vars,
        Chat!clientVars, Chat!serverVars, Chat!linkVars
<1>2. ASSUME NEW c \in Client, ClientSide(c, ClientStep(c)) PROVE Chat!Next
  BY <1>2, ClientIsClient
<1>3. ASSUME ChatSide(ServerStep) \/ ChatSide(ServerKill) \/ ChatSide(ServerStart)
      PROVE  Chat!Next
  BY <1>3, ServerIsServer DEF ChatSide
<1>4. ASSUME AuthSide(Auth!TCP_Run) \/ AuthSide(Auth!Kill) \/ AuthSide(Auth!Start)
      PROVE  [Chat!Next]_(Chat!vars)
  BY <1>4, AuthIsAuth DEF AuthSide
<1> QED  BY <1>1, <1>2, <1>3, <1>4 DEF SystemNext

-----------------------------------------------------------------------------
(* The three programs.                                                     *)

LEMMA InitIsInit == SystemInit => Chat!Init /\ DB!Init
<1> SUFFICES ASSUME SystemInit PROVE Chat!Init /\ DB!Init
  OBVIOUS
<1>1. DB!Init
  <2>1. Auth!Init
    BY DEF SystemInit, Init, ServerInit, LinkInit, Link, Auth!Init, Auth!ServiceInit,
           Auth!LinkInit, Auth!Link
  <2> QED  BY <2>1, SameDB
<1>2. toAuthOf = toAuth
  <2>1. authPc = "poll" /\ toAuth = [k \in Link |-> <<>>]
    BY DEF SystemInit, Init, LinkInit, Auth!LoopInit
  <2> QED  BY <2>1 DEF toAuthOf, Auth!InHand, Auth!Busy
<1>3. Chat!Init
  BY <1>2
  DEF SystemInit, Init, ServerInit, LinkInit, ClientInit, Link, NoReq, NothingSeen,
      NoResponse, Chat!Init, Chat!ServerInit, Chat!LinkInit, Chat!ClientInit,
      Chat!Link, Chat!NoReq, Chat!NothingSeen, Chat!NoResponse
<1> QED  BY <1>1, <1>3

LEMMA InitSystemInv == SystemInit => SystemInv
<1> SUFFICES ASSUME SystemInit PROVE SystemInv
  OBVIOUS
<1> USE ChatAssumption, DBAssumption, ResidueAssumption, CredAssumption,
        UserIdAssumption, ServiceAssumption, ClientAssumption
<1>1. Chat!Init /\ DB!Init
  BY InitIsInit
<1>2. DBInv
  BY <1>1, DB!InitTypeOK, DB!InitBounded DEF DBInv
<1>3. Chat!Inv /\ Chat!Attached
  BY <1>1, Chat!InitInv, Chat!InitAttached
<1>4. Chat!OwnInv
  BY <1>1, <1>3, Chat!InitOwn DEF Chat!OwnInv, Chat!Inv
<1>5. Chat!Distinct /\ Chat!Owed
  BY <1>1, Chat!InitDistinct, Chat!InitOwed
<1> QED  BY <1>2, <1>3, <1>4, <1>5 DEF SystemInv, ChatInv

LEMMA SystemInvStep ==
  ASSUME SystemInv, [SystemNext]_systemVars
  PROVE  SystemInv'
<1>1. [Chat!Next]_(Chat!vars) /\ [DB!Next]_(DB!vars)
  BY ServiceIsAuthServerStep, PeerIsChatServerStep
<1> QED  BY <1>1, ChatInvStep, DBInvStep DEF SystemInv

LEMMA SystemInvHolds == SystemSpec => []SystemInv
BY InitSystemInv, SystemInvStep, PTL DEF SystemSpec

LEMMA SystemIsChat == SystemSpec => Chat!Spec
<1>1. SystemInv /\ [SystemNext]_systemVars => [Chat!Next]_(Chat!vars)
  BY ServiceIsAuthServerStep
<1> QED  BY <1>1, InitIsInit, SystemInvHolds, PTL DEF SystemSpec, Chat!Spec

LEMMA SystemIsDB == SystemSpec => DB!Spec
<1>1. SystemInv /\ [SystemNext]_systemVars => [DB!Next]_(DB!vars)
  BY PeerIsChatServerStep
<1> QED  BY <1>1, InitIsInit, SystemInvHolds, PTL DEF SystemSpec, DB!Spec

\* The authentication server asks nothing of its peer that the chat server with
\* its clients does not keep to: what AuthServer assumes of the chat server is
\* true of it, whatever its users, their kills and the processes do.
THEOREM PeerIsChatServerHolds == SystemSpec => PeerIsChatServer
<1>1. SystemInv /\ [SystemNext]_systemVars => [Auth!Next]_(Auth!vars)
  BY PeerIsChatServerStep, SameDB
<1>2. SystemInit => Auth!Init
  BY InitIsInit, SameDB
<1> QED  BY <1>1, <1>2, SystemInvHolds, PTL DEF SystemSpec, PeerIsChatServer, Auth!Spec

\* The chat server asks nothing of its peer that the authentication server does
\* not keep to, over its database and whatever fails in that: every property of
\* ChatServer that does not speak of toAuth holds of the three programs.
THEOREM ServiceIsAuthServerHolds == SystemSpec => ServiceIsAuthServer
<1>1. SystemInv /\ [SystemNext]_systemVars => [Service!Next]_(Service!vars)
  BY ServiceIsAuthServerStep, SameChat
<1>2. SystemInit => Service!Init
  BY InitIsInit, SameChat
<1> QED
  BY <1>1, <1>2, SystemInvHolds, PTL DEF SystemSpec, ServiceIsAuthServer, Service!Spec

-----------------------------------------------------------------------------
(* From the screen to the table, and from the table to the keyboard.       *)

\* A client that prints "login completed" was given an email and a password that
\* are those of an account, if no stale bytes follow a request or a response, no
\* request is empty and no connection between the servers was lost, whatever the
\* database calls throw.  The chat server
\* prints it only if the other granted that login, and that granted it only if
\* it found the account.
THEOREM LoginMeansAccountHolds ==
  SystemSpec => [](Chat!NothingStale => LoginMeansAccount)
<1>1. SystemInv /\ Chat!OnItsWay /\ DB!GrantedIsAccount
        => (Chat!NothingStale => LoginMeansAccount)
  <2> SUFFICES ASSUME SystemInv, Chat!OnItsWay, DB!GrantedIsAccount,
                      Chat!NothingStale, AuthKept,
                      NEW c \in Client, seen[c].kind = AuthSuccess
               PROVE  Account(req[c].cred)
    BY DEF LoginMeansAccount
  <2>1. Chat!AuthKept
    BY DEF AuthKept, Chat!AuthKept, Link, Chat!Link
  <2>2. Chat!Fits(c, AuthSuccess)
    <3>1. seen[c].kind # 0
      BY DEF AuthSuccess
    <3> QED  BY <2>1, <3>1 DEF Chat!OnItsWay, Chat!FitsAtClient
  <2>3. req[c].cmd = "LOGIN" /\ <<req[c].cmd, req[c].cred>> \in granted
    BY <2>2
    DEF Chat!Fits, Chat!AnswerKinds, Chat!IsSuccess, AuthSuccess, Chat!AuthSuccess,
        Chat!AuthFail, Chat!CreateDetail, Chat!CreateFail
  <2>4. <<"LOGIN", req[c].cred>> \in granted
    BY <2>3
  <2>5. req[c].cred \in Cred
    <3>1. granted \subseteq DB!Cmd \X Cred
      BY DEF SystemInv, DBInv, DB!TypeOK, DB!LinkTypeOK
    <3> QED  BY <2>4, <3>1
  <2> QED  BY <2>4, <2>5 DEF DB!GrantedIsAccount, Account
<1>2. Chat!Spec => []Chat!OnItsWay
  BY ChatAssumption, ResidueAssumption, CredAssumption, UserIdAssumption,
     ServiceAssumption, ClientAssumption, Chat!OnItsWayHolds
<1>3. DB!Spec => []DB!GrantedIsAccount
  BY DBAssumption, ResidueAssumption, CredAssumption, UserIdAssumption,
     ServiceAssumption, DB!GrantedIsAccountHolds
<1> QED  BY <1>1, <1>2, <1>3, SystemInvHolds, SystemIsChat, SystemIsDB, PTL

\* The rows of web_auth were asked for.
RowsAsked ==
  \A r \in webAuth : /\ <<r.email, r.passwd>> \in Cred
                     /\ Chat!WasAsked("CREATEACCOUNT", <<r.email, r.passwd>>)

\* A row that is made is one for the request in hand.
LEMMA NewRow ==
  ASSUME SystemInv, [DB!Next]_(DB!vars), NEW r \in webAuth', r \notin webAuth
  PROVE  /\ authPc = "create" /\ reqMSG.cmd = "CREATEACCOUNT"
         /\ r.email = reqMSG.cred[1] /\ r.passwd = reqMSG.cred[2]
<1>1. authPc = "create" /\ DB!InsertWebAuth(reqMSG)
  BY DEF DB!Next, DB!TCP_Run, DB!Kill, DB!Start, DB!Peer, DB!SelectConnection,
      DB!AcceptConnection, DB!AcceptError, DB!ScanNext, DB!RecvRequest,
      DB!RecvBadRequest, DB!RecvEnd, DB!RecvFails, DB!SqlConnect, DB!SqlConnectFails,
      DB!CarryOut, DB!Store, DB!Runs, DB!PrepareFails, DB!InsertUser, DB!UserAuthen,
      DB!SqlDisconnect, DB!Send, DB!LoopGone, DB!vars, DB!storeVars, DB!tables
<1>2. reqMSG.cmd = "CREATEACCOUNT"
  BY <1>1 DEF SystemInv, DBInv, DB!AnswerReady
<1>3. r = [email |-> reqMSG.cred[1], passwd |-> reqMSG.cred[2], userId |-> reqMSG.id]
  BY <1>1 DEF DB!InsertWebAuth
<1> QED  BY <1>1, <1>2, <1>3

\* The request in hand is one of those that the chat server has under way.
LEMMA InHandAsked ==
  ASSUME SystemInv, Chat!AllAsked, authPc = "create"
  PROVE  reqMSG.cred \in Cred /\ Chat!WasAsked(reqMSG.cmd, reqMSG.cred)
<1> DEFINE k == authClients[authI]
<1>1. DB!TypeOK /\ DB!LinkTypeOK /\ DB!LoopTypeOK
  BY DEF SystemInv, DBInv, DB!TypeOK
<1>2. reqMSG \in Request /\ reqMSG.cred \in Cred /\ authI > 0
  BY <1>1 DEF DB!LoopTypeOK, DB!Busy, DB!NoRequest, DB!Request, Request, DB!Cmd, Cmd
<1>3. k \in Link
  <2>1. k \in DB!Link
    BY <1>1, <1>2, DBAssumption, ResidueAssumption, CredAssumption, UserIdAssumption,
       ServiceAssumption, DB!ClientIsLink
  <2> QED  BY <2>1 DEF DB!Link, Link
<1>4. toAuthOf[k] = <<reqMSG>> \o toAuth[k] /\ toAuth[k] \in Seq(Request)
  BY <1>3, LinkTypes DEF toAuthOf, Auth!InHand, Auth!Busy
<1>5. 1 \in DOMAIN toAuthOf[k] /\ toAuthOf[k][1] = reqMSG
  <2> HIDE DEF k
  <2> QED  BY <1>2, <1>4
<1> QED  BY <1>2, <1>3, <1>5 DEF Chat!AllAsked, Link, Chat!Link

LEMMA RowsAskedStep ==
  ASSUME SystemInv, Chat!AllAsked, RowsAsked, [Chat!Next]_(Chat!vars), [DB!Next]_(DB!vars)
  PROVE  RowsAsked'
<1> SUFFICES ASSUME NEW r \in webAuth'
             PROVE  /\ <<r.email, r.passwd>> \in Cred
                    /\ Chat!WasAsked("CREATEACCOUNT", <<r.email, r.passwd>>)'
  BY DEF RowsAsked
<1>1. /\ <<r.email, r.passwd>> \in Cred
      /\ Chat!WasAsked("CREATEACCOUNT", <<r.email, r.passwd>>)
  <2>1. CASE r \in webAuth
    BY <2>1 DEF RowsAsked
  <2>2. CASE r \notin webAuth
    <3>1. /\ authPc = "create" /\ reqMSG.cmd = "CREATEACCOUNT"
          /\ r.email = reqMSG.cred[1] /\ r.passwd = reqMSG.cred[2]
      BY <2>2, NewRow
    <3>2. reqMSG.cred \in Cred /\ Chat!WasAsked("CREATEACCOUNT", reqMSG.cred)
      BY <3>1, InHandAsked
    <3>3. reqMSG.cred = <<r.email, r.passwd>>
      BY <3>1, <3>2, SystemAssumption
    <3> QED  BY <3>2, <3>3
  <2> QED  BY <2>1, <2>2
<1>2. \A cmd, cred : Chat!WasAsked(cmd, cred) => Chat!WasAsked(cmd, cred)'
  BY ChatAssumption, ResidueAssumption, CredAssumption, UserIdAssumption,
     ServiceAssumption, ClientAssumption, Chat!WasAskedStays DEF SystemInv, ChatInv
<1> QED  BY <1>1, <1>2

\* An account has the email and the password that one user typed, together, to
\* create an account.  The chat server may relay a request twice, and either
\* server may die with one in hand: no row comes of that which nobody asked for.
THEOREM AccountsWereAskedForHolds == SystemSpec => []AccountsWereAskedFor
<1>1. SystemInit => RowsAsked
  BY DEF SystemInit, Auth!StoreInit, RowsAsked
<1>2. SystemInv /\ Chat!AllAsked /\ RowsAsked /\ [SystemNext]_systemVars => RowsAsked'
  BY ServiceIsAuthServerStep, PeerIsChatServerStep, RowsAskedStep
<1>3. RowsAsked => AccountsWereAskedFor
  <2> SUFFICES ASSUME RowsAsked, NEW r \in webAuth
               PROVE  \E c \in Client :
                        AskedToCreate(c) /\ req[c].cred = <<r.email, r.passwd>>
    BY DEF AccountsWereAskedFor
  <2>1. <<r.email, r.passwd>> # NoCred
    BY CredAssumption DEF RowsAsked
  <2> QED  BY <2>1 DEF RowsAsked, AskedToCreate, Chat!WasAsked, NoReq, Chat!NoReq
<1>4. Chat!Spec => []Chat!AllAsked
  BY ChatAssumption, ResidueAssumption, CredAssumption, UserIdAssumption,
     ServiceAssumption, ClientAssumption, Chat!AllAskedHolds
<1> QED
  BY <1>1, <1>2, <1>3, <1>4, SystemInvHolds, SystemIsChat, PTL DEF SystemSpec

\* A client that prints "account created" was given the email and the password
\* of an account, or another user asked for that email and has it, if no stale
\* bytes follow a request or a response, no request is empty, no connection
\* between the servers was lost and the insert throws for no reason but a taken email.  There is an account with the email,
\* as that was granted; and one user asked for what it holds.
THEOREM CreatedMeansAccountHolds ==
  SystemSpec => [](Chat!NothingStale => CreatedMeansAccount)
<1>1. SystemInv /\ Chat!OnItsWay /\ DB!GrantedIsStored /\ AccountsWereAskedFor
        => (Chat!NothingStale => CreatedMeansAccount)
  <2> SUFFICES ASSUME SystemInv, Chat!OnItsWay, DB!GrantedIsStored, AccountsWereAskedFor,
                      Chat!NothingStale, AuthKept, "insert" \notin SqlFaults,
                      NEW c \in Client, seen[c].kind = CreateDetail
               PROVE  \/ Account(req[c].cred)
                      \/ \E d \in Client \ {c} : /\ AskedToCreate(d)
                                                /\ req[d].cred[1] = req[c].cred[1]
                                                /\ Account(req[d].cred)
    BY DEF CreatedMeansAccount
  <2>1. Chat!AuthKept
    BY DEF AuthKept, Chat!AuthKept, Link, Chat!Link
  <2>2. Chat!Fits(c, CreateDetail)
    <3>1. seen[c].kind # 0
      BY DEF CreateDetail
    <3> QED  BY <2>1, <3>1 DEF Chat!OnItsWay, Chat!FitsAtClient
  <2>3. req[c].cmd # "LOGIN" /\ <<req[c].cmd, req[c].cred>> \in granted
    BY <2>2
    DEF Chat!Fits, Chat!AnswerKinds, Chat!IsSuccess, CreateDetail, Chat!CreateDetail,
        Chat!AuthFail, Chat!AuthSuccess, Chat!CreateFail
  <2>4. /\ <<"CREATEACCOUNT", req[c].cred>> \in granted
        /\ req[c].cred \in Cred
    <3>1. granted \subseteq DB!Cmd \X Cred
      BY DEF SystemInv, DBInv, DB!TypeOK, DB!LinkTypeOK
    <3>2. req[c].cmd \in {"CREATEACCOUNT", "LOGIN"} /\ req[c].cred \in Cred
      BY <2>3, <3>1 DEF DB!Cmd
    <3> QED  BY <2>3, <3>2
  <2>5. PICK r \in webAuth : r.email = req[c].cred[1]
    BY <2>4 DEF DB!GrantedIsStored
  <2>6. PICK d \in Client : AskedToCreate(d) /\ req[d].cred = <<r.email, r.passwd>>
    BY DEF AccountsWereAskedFor
  <2>7. req[d].cred[1] = r.email /\ req[d].cred[2] = r.passwd
    BY <2>6
  <2>8. Account(req[d].cred)
    BY <2>7 DEF Account
  <2> QED  BY <2>5, <2>6, <2>7, <2>8
<1>2. Chat!Spec => []Chat!OnItsWay
  BY ChatAssumption, ResidueAssumption, CredAssumption, UserIdAssumption,
     ServiceAssumption, ClientAssumption, Chat!OnItsWayHolds
<1>3. DB!Spec => []DB!GrantedIsStored
  BY DBAssumption, ResidueAssumption, CredAssumption, UserIdAssumption,
     ServiceAssumption, DB!GrantedIsStoredHolds
<1> QED
  BY <1>1, <1>2, <1>3, SystemInvHolds, SystemIsChat, SystemIsDB,
     AccountsWereAskedForHolds, PTL

-----------------------------------------------------------------------------
(* What users are promised.                                                *)

\* The three programs implement RequestService, until a connection between the
\* servers is lost, if no stale bytes follow a request or a response and no
\* request is empty: each client reads the outcome of
\* its own command, which was fixed after it asked, when the authentication
\* server answered from its database, and is given to no other client.  What the
\* chat server promises over a service it promises over the real one: nothing in
\* the promise depends on what is under way to that.
THEOREM SystemImplementsService ==
  Chat!NothingStale => (SystemSpec => Chat!ImplementsService)
<1>1. Chat!NothingStale => (Chat!Spec => Chat!ImplementsService)
  BY ChatAssumption, ResidueAssumption, CredAssumption, UserIdAssumption,
     ServiceAssumption, ClientAssumption, Chat!ImplementsServiceHolds
<1> QED  BY <1>1, SystemIsChat, PTL

-----------------------------------------------------------------------------
(* What was proved of each server alone.                                   *)

LEMMA SameChatProperties ==
  /\ RelayOwn <=> Chat!RelayOwn
  /\ AnswerIsCurrent <=> Chat!AnswerIsCurrent
  /\ RecvNeverBlocks <=> Chat!RecvNeverBlocks
  /\ RelaysBounded <=> Chat!RelaysBounded
  /\ NoFalseSuccess <=> Chat!NoFalseSuccess
  /\ AnswerFitsCommand <=> Chat!AnswerFitsCommand
  /\ Service!LockStep <=> Chat!LockStep
  /\ Service!BareRequestIsFirst <=> Chat!BareRequestIsFirst
<1>1. RelayOwn <=> Chat!RelayOwn
  BY DEF RelayOwn, Chat!RelayOwn, Cmd, Chat!Cmd, NoReq, Chat!NoReq
<1>2. AnswerIsCurrent <=> Chat!AnswerIsCurrent
  BY DEF AnswerIsCurrent, Chat!AnswerIsCurrent, AnswerKinds, Chat!AnswerKinds,
      AuthSuccess, Chat!AuthSuccess, AuthFail, Chat!AuthFail, CreateDetail,
      Chat!CreateDetail, CreateFail, Chat!CreateFail
<1>3. RecvNeverBlocks <=> Chat!RecvNeverBlocks
  BY DEF RecvNeverBlocks, Chat!RecvNeverBlocks, Pending, Chat!Pending
<1>4. RelaysBounded <=> Chat!RelaysBounded
  BY DEF RelaysBounded, Chat!RelaysBounded, Cardinality, Chat!Cardinality, RequestRead,
      Chat!RequestRead, EndRead, Chat!EndRead, NoReq, Chat!NoReq
<1>5. NoFalseSuccess <=> Chat!NoFalseSuccess
  BY DEF NoFalseSuccess, Chat!NoFalseSuccess, AuthKept, Chat!AuthKept, IsSuccess,
      Chat!IsSuccess, Link, Chat!Link, AuthSuccess, Chat!AuthSuccess, CreateDetail,
      Chat!CreateDetail
<1>6. AnswerFitsCommand <=> Chat!AnswerFitsCommand
  BY DEF AnswerFitsCommand, Chat!AnswerFitsCommand, AuthKept, Chat!AuthKept, AnswerKinds,
      Chat!AnswerKinds, Link, Chat!Link, AuthSuccess, Chat!AuthSuccess, AuthFail,
      Chat!AuthFail, CreateDetail, Chat!CreateDetail, CreateFail, Chat!CreateFail
<1>7. Service!LockStep <=> Chat!LockStep
  BY DEF Service!LockStep, Chat!LockStep, Service!Relayed, Chat!Relayed, Service!Answers,
      Chat!Answers, Service!AuthSuccess, Chat!AuthSuccess, Service!AuthFail,
      Chat!AuthFail, Service!AuthReason, Chat!AuthReason, Service!CreateDetail,
      Chat!CreateDetail, Service!CreateFail, Chat!CreateFail, Service!CreateReason,
      Chat!CreateReason, Service!INVALID_CREDENTIALS, Chat!INVALID_CREDENTIALS,
      Service!ACCOUNT_ALREADY_EXISTS, Chat!ACCOUNT_ALREADY_EXISTS,
      Service!AuthInternalError, Chat!AuthInternalError, Service!CreateInternalError,
      Chat!CreateInternalError
<1>8. Service!BareRequestIsFirst <=> Chat!BareRequestIsFirst
  BY DEF Service!BareRequestIsFirst, Chat!BareRequestIsFirst, Service!Link, Chat!Link
<1> QED  BY <1>1, <1>2, <1>3, <1>4, <1>5, <1>6, <1>7, <1>8

LEMMA SameDBProperties ==
  /\ Auth!LoginIsAccount <=> DB!LoginIsAccount
  /\ Auth!UserIdsDistinct <=> DB!UserIdsDistinct
  /\ Auth!FailureIsClean <=> DB!FailureIsClean
  /\ Auth!RecvNeverBlocks <=> DB!RecvNeverBlocks
<1>1. Auth!LoginIsAccount <=> DB!LoginIsAccount
  BY DEF Auth!LoginIsAccount, DB!LoginIsAccount, Auth!ReplyMSG, DB!ReplyMSG,
      Auth!AuthSuccess, DB!AuthSuccess, Auth!AuthFail, DB!AuthFail, Auth!CreateDetail,
      DB!CreateDetail, Auth!CreateFail, DB!CreateFail, Auth!INVALID_CREDENTIALS,
      DB!INVALID_CREDENTIALS, Auth!AuthInternalError, DB!AuthInternalError,
      Auth!ACCOUNT_ALREADY_EXISTS, DB!ACCOUNT_ALREADY_EXISTS, Auth!INVALID_PASSWORD,
      DB!INVALID_PASSWORD, Auth!CreateInternalError, DB!CreateInternalError,
      Auth!IsSuccess, DB!IsSuccess
<1>2. Auth!UserIdsDistinct <=> DB!UserIdsDistinct
  BY DEF Auth!UserIdsDistinct, DB!UserIdsDistinct
<1>3. Auth!FailureIsClean <=> DB!FailureIsClean
  BY DEF Auth!FailureIsClean, DB!FailureIsClean
<1>4. Auth!RecvNeverBlocks <=> DB!RecvNeverBlocks
  BY DEF Auth!RecvNeverBlocks, DB!RecvNeverBlocks, Auth!Pending, DB!Pending
<1> QED  BY <1>1, <1>2, <1>3, <1>4

\* What the chat server was shown to do over a contract it does over the real
\* authentication server: one request under way and its answer passed on to the
\* client that asked, no recv that blocks, two relays for each client, and no
\* unreadable request but its first.
THEOREM ChatServerHolds ==
  SystemSpec => [](/\ Service!LockStep /\ Service!BareRequestIsFirst
                   /\ AnswerIsCurrent /\ RelayOwn /\ RecvNeverBlocks /\ RelaysBounded
                   /\ Chat!NothingStale => NoFalseSuccess /\ AnswerFitsCommand)
<1> USE ChatAssumption, ResidueAssumption, CredAssumption, UserIdAssumption,
        ServiceAssumption, ClientAssumption
<1>1. Chat!Spec => []Chat!LockStep /\ []Chat!AnswerIsCurrent
  BY Chat!LockStepHolds, Chat!AnswerIsCurrentHolds
<1>2. Chat!Spec => []Chat!RelayOwn /\ []Chat!RecvNeverBlocks
  BY Chat!RelayOwnHolds, Chat!RecvNeverBlocksHolds
<1>3. Chat!Spec => []Chat!RelaysBounded /\ []Chat!BareRequestIsFirst
  BY Chat!RelaysBoundedHolds, Chat!BareRequestIsFirstHolds
<1>4. Chat!Spec => /\ [](Chat!NothingStale => Chat!NoFalseSuccess)
                   /\ [](Chat!NothingStale => Chat!AnswerFitsCommand)
  BY Chat!NoFalseSuccessHolds, Chat!AnswerFitsCommandHolds
<1> QED  BY <1>1, <1>2, <1>3, <1>4, SystemIsChat, SameChatProperties, PTL

\* What the authentication server was shown to do for any peer that keeps to the
\* contract it does for the real chat server: no login without the account, no
\* account left by a failure and no two with one id while the chat server was
\* started once, and no recv that blocks.
THEOREM AuthServerHolds ==
  SystemSpec => [](/\ Auth!LoginIsAccount /\ Auth!UserIdsDistinct
                   /\ Auth!FailureIsClean /\ Auth!RecvNeverBlocks)
<1> USE DBAssumption, ResidueAssumption, CredAssumption, UserIdAssumption,
        ServiceAssumption
<1>1. DB!Spec => []DB!LoginIsAccount /\ []DB!UserIdsDistinct
  BY DB!LoginIsAccountHolds, DB!UserIdsDistinctHolds
<1>2. DB!Spec => []DB!FailureIsClean /\ []DB!RecvNeverBlocks
  BY DB!FailureIsCleanHolds, DB!RecvNeverBlocksHolds
<1> QED  BY <1>1, <1>2, SystemIsDB, SameDBProperties, PTL
=============================================================================
