-------------------------- MODULE AuthServerProofs --------------------------
(***************************************************************************)
(* What is proved of AuthServer, for every value of its constants; at the  *)
(* end that it implements AuthService.                                     *)
(***************************************************************************)
EXTENDS AuthServerRefinement, AuthServiceProofs

-----------------------------------------------------------------------------
(* Types.                                                                  *)

\* A credential that is one has an email and a password.
LEMMA CredParts ==
  ASSUME NEW c \in Cred
  PROVE  c[1] \in Email /\ c[2] \in Passwd
BY StoreAssumption

\* What a poll found is unchanged when the process ends.
LEMMA LoopGoneType ==
  ASSUME TypeOK, LoopGone, LinkTypeOK'
  PROVE  TypeOK'
<1>1. clients' \in Seq(1..link') /\ backlog' \in Seq(1..link') /\ i' \in 0..Len(clients')
  BY DEF LoopGone
<1>2. LoopTypeOK'
  BY <1>1 DEF LoopGone, LoopTypeOK, PcState, Busy
<1>3. StoreTypeOK' /\ history' \in Nat
  BY DEF LoopGone, TypeOK, StoreTypeOK, storeVars, tables
<1> QED  BY <1>2, <1>3 DEF TypeOK

\* The client the scan is at is a connection there is.
LEMMA ClientIsLink ==
  ASSUME LinkTypeOK, LoopTypeOK, i > 0
  PROVE  clients[i] \in 1..link /\ clients[i] \in Link /\ ~(clients[i] > link)
<1> DEFINE S == 1..link
<1>1. clients \in Seq(S) /\ i \in 1..Len(clients)
  BY DEF LoopTypeOK
<1> HIDE DEF S
<1>2. clients[i] \in S
  BY <1>1, ElementOfSeq
<1>3. clients[i] \in 1..link
  BY <1>2 DEF S
<1>4. link \in Nat /\ link <= Restarts + 1
  BY ServiceAssumption DEF LinkTypeOK, Link
<1> QED  BY <1>3, <1>4, ServiceAssumption DEF Link

LEMMA InitTypeOK == Init => TypeOK
<1> SUFFICES ASSUME Init PROVE TypeOK
  OBVIOUS
<1>1. LinkTypeOK /\ history \in Nat
  BY LinkInitType DEF Init, ServiceInit
<1>2. StoreTypeOK
  BY DEF Init, StoreInit, StoreTypeOK, Status
<1>3. backlog \in Seq(1..link)
  <2>1. link = 1 /\ (backlog = <<1>> \/ backlog = <<>>)
    BY DEF Init, ServiceInit, LinkInit, LoopInit
  <2>2. <<1>> \in Seq(1..1) /\ <<>> \in Seq(1..1)
    OBVIOUS
  <2> QED  BY <2>1, <2>2
<1>4. clients \in Seq(1..link) /\ i \in 0..Len(clients)
  BY DEF Init, LoopInit
<1>5. LoopTypeOK
  BY <1>3, <1>4 DEF Init, LoopInit, LoopTypeOK, PcState, Busy
<1> QED  BY <1>1, <1>2, <1>5 DEF TypeOK

LEMMA PollType ==
  ASSUME TypeOK, SelectConnection \/ AcceptConnection \/ AcceptError
  PROVE  TypeOK'
<1>0. LinkTypeOK /\ StoreTypeOK /\ LoopTypeOK /\ history \in Nat
  BY DEF TypeOK
<1>1. CASE SelectConnection
  <2>1. Watched \subseteq 1..link
    BY <1>0 DEF Watched, ConnectedUpTo, LoopTypeOK
  <2>2. LoopTypeOK'
    BY <1>0, <1>1, <2>1 DEF SelectConnection, Runs, LoopTypeOK, PcState, Busy, linkVars
  <2>3. LinkTypeOK' /\ StoreTypeOK' /\ history' \in Nat
    BY <1>0, <1>1, LinkVarsType
    DEF SelectConnection, Runs, StoreTypeOK, storeVars, tables
  <2> QED  BY <2>2, <2>3 DEF TypeOK
<1>2. CASE AcceptConnection
  <2>1. LinkTypeOK' /\ StoreTypeOK' /\ history' \in Nat /\ link' = link
    BY <1>0, <1>2, LinkVarsType
    DEF AcceptConnection, Runs, StoreTypeOK, storeVars, tables, linkVars
  <2>2. CASE acceptReady
    <3>1. backlog # <<>> /\ backlog \in Seq(1..link)
      BY <1>0, <1>2, <2>2 DEF AcceptConnection, Runs, LoopTypeOK
    <3>2. Head(backlog) \in 1..link /\ Tail(backlog) \in Seq(1..link)
      <4> DEFINE S == 1..link
      <4>1. backlog \in Seq(S) /\ backlog # <<>>
        BY <3>1
      <4> HIDE DEF S
      <4>2. Head(backlog) \in S /\ Tail(backlog) \in Seq(S)
        BY <4>1, HeadTailProperties
      <4> QED  BY <4>2 DEF S
    <3>3. clients' = Append(clients, Head(backlog)) /\ i' = Len(clients')
      BY <1>2, <2>2 DEF AcceptConnection
    <3>4. clients' \in Seq(1..link) /\ i' \in 0..Len(clients')
      BY <1>0, <3>2, <3>3 DEF LoopTypeOK
    <3>5. LoopTypeOK'
      BY <1>0, <1>2, <2>1, <2>2, <3>2, <3>4
      DEF AcceptConnection, Runs, LoopTypeOK, PcState, Busy
    <3> QED  BY <2>1, <3>5 DEF TypeOK
  <2>3. CASE ~acceptReady
    <3>1. clients' \in Seq(1..link) /\ i' \in 0..Len(clients')
      BY <1>0, <1>2, <2>3 DEF AcceptConnection, LoopTypeOK
    <3>2. LoopTypeOK'
      BY <1>0, <1>2, <2>1, <2>3, <3>1
      DEF AcceptConnection, Runs, LoopTypeOK, PcState, Busy
    <3> QED  BY <2>1, <3>2 DEF TypeOK
  <2> QED  BY <2>2, <2>3
<1>3. CASE AcceptError
  <2>1. LinkTypeOK'
    BY <1>0, <1>3, AuthGoneType DEF AcceptError, AuthAcceptError
  <2> QED  BY <1>3, <2>1, LoopGoneType DEF AcceptError
<1> QED  BY <1>1, <1>2, <1>3

LEMMA RecvType ==
  ASSUME TypeOK,
         ScanNext \/ RecvRequest \/ RecvBadRequest \/ RecvEnd \/ RecvFails
  PROVE  TypeOK'
<1>0. LinkTypeOK /\ StoreTypeOK /\ LoopTypeOK /\ history \in Nat
  BY DEF TypeOK
<1>1. ASSUME UNCHANGED storeVars PROVE StoreTypeOK'
  BY <1>0, <1>1 DEF StoreTypeOK, storeVars, tables
<1>2. CASE ScanNext
  <2>1. LoopTypeOK'
    BY <1>0, <1>2 DEF ScanNext, Runs, LoopTypeOK, PcState, Busy, linkVars
  <2>2. LinkTypeOK' /\ history' \in Nat
    BY <1>0, <1>2, LinkVarsType DEF ScanNext, Runs
  <2> QED  BY <1>1, <1>2, <2>1, <2>2 DEF ScanNext, TypeOK
<1>3. CASE RecvRequest
  <2> DEFINE k == clients[i]
  <2>1. k \in 1..link /\ k \in Link /\ ~(k > link)
    <3>1. i > 0
      BY <1>0, <1>3 DEF RecvRequest, Runs, LoopTypeOK
    <3> QED  BY <1>0, <3>1, ClientIsLink
  <2>2. toAuth[k] \in Seq(Request) /\ toAuth[k] # <<>>
    BY <1>0, <1>3, <2>1 DEF RecvRequest, LinkTypeOK
  <2>3. Head(toAuth[k]) \in Request /\ Tail(toAuth[k]) \in Seq(Request)
    BY <2>2
  <2>4. /\ toAuth' \in [Link -> Seq(Request)]
        /\ \A j \in Link : j > link => toAuth'[j] = toAuth[j]
    BY <1>0, <1>3, <2>1, <2>3 DEF RecvRequest, LinkTypeOK, Link
  <2>5. LinkTypeOK'
    BY <1>0, <1>3, <2>4 DEF RecvRequest, LinkTypeOK
  <2>6. reqMSG' \in Request /\ reqMSG'.cred # NoCred
    BY <1>3, <2>3 DEF RecvRequest, Readable
  <2>7. reqMSG' # NoRequest
    <3>1. reqMSG'.cmd \in Cmd
      BY <2>6 DEF Request
    <3>2. NoRequest.cmd \notin Cmd
      BY DEF NoRequest, Cmd
    <3> QED  BY <3>1, <3>2
  <2>8. LoopTypeOK'
    BY <1>0, <1>3, <2>6, <2>7 DEF RecvRequest, Runs, LoopTypeOK, PcState, Busy
  <2> QED  BY <1>0, <1>1, <1>3, <2>5, <2>8 DEF RecvRequest, Runs, TypeOK
<1>4. CASE RecvBadRequest
  <2>1. LinkTypeOK'
    BY <1>0, <1>4, AuthGoneType DEF RecvBadRequest, AuthExit
  <2> QED  BY <1>4, <2>1, LoopGoneType DEF RecvBadRequest
<1>5. CASE RecvEnd
  <2>3. i' \in 0..Len(clients') /\ pc' = "scan"
    BY <1>0, <1>5 DEF RecvEnd, Runs, LoopTypeOK
  <2>4. connected' \subseteq 1..link
    BY <1>0, <1>5 DEF RecvEnd, LoopTypeOK
  <2>1. LoopTypeOK'
    BY <1>0, <1>5, <2>3, <2>4 DEF RecvEnd, LoopTypeOK, PcState, Busy, linkVars
  <2>2. LinkTypeOK' /\ history' \in Nat
    BY <1>0, <1>5, LinkVarsType DEF RecvEnd, Runs
  <2> QED  BY <1>1, <1>5, <2>1, <2>2 DEF RecvEnd, TypeOK
<1>6. CASE RecvFails
  <2>1. LinkTypeOK' /\ link' = link
    BY <1>0, <1>6 DEF RecvFails, AuthStuck, LinkTypeOK
  <2>2. LoopTypeOK'
    BY <1>0, <1>6, <2>1 DEF RecvFails, LoopTypeOK, loopVars
  <2> QED  BY <1>0, <1>1, <1>6, <2>1, <2>2 DEF RecvFails, TypeOK
<1> QED  BY <1>2, <1>3, <1>4, <1>5, <1>6

\* The calls of cMySQL keep the types of what they change.
LEMMA CarryOutType ==
  ASSUME TypeOK, SqlConnect \/ SqlConnectFails \/ CarryOut
  PROVE  TypeOK'
<1>0. LinkTypeOK /\ StoreTypeOK /\ LoopTypeOK /\ history \in Nat
  BY DEF TypeOK
<1>1. CASE SqlConnectFails
  <2>1. LinkTypeOK'
    BY <1>0, <1>1, AuthGoneType DEF SqlConnectFails, AuthKill
  <2> QED  BY <1>1, <2>1, LoopGoneType DEF SqlConnectFails
<1>2. CASE SqlConnect
  <2>1. LinkTypeOK' /\ history' \in Nat
    BY <1>0, <1>2, LinkVarsType DEF SqlConnect, Runs
  <2>2. StoreTypeOK'
    BY <1>0, <1>2 DEF SqlConnect, StoreTypeOK, tables, Status
  <2>3. LoopTypeOK'
    BY <1>0, <1>2 DEF SqlConnect, Runs, LoopTypeOK, PcState, Busy, linkVars
  <2> QED  BY <2>1, <2>2, <2>3 DEF TypeOK
<1>3. ASSUME NEW from \in {"create", "profile", "login", "disconnect"},
             NEW to \in {"profile", "disconnect", "send"},
             Store(from, to, TRUE), StoreTypeOK'
      PROVE  TypeOK'
  <2>1. LinkTypeOK' /\ history' \in Nat
    BY <1>0, <1>3, LinkVarsType DEF Store, Runs
  <2>2. LoopTypeOK'
    BY <1>0, <1>3 DEF Store, Runs, LoopTypeOK, PcState, Busy, linkVars
  <2> QED  BY <1>3, <2>1, <2>2 DEF TypeOK
<1>4. ASSUME pc \in Busy
      PROVE  reqMSG.id \in Nat /\ reqMSG.cred \in Cred
  BY <1>0, <1>4 DEF LoopTypeOK, Request
<1>5. ASSUME Store("create", "disconnect", PrepareFails) PROVE TypeOK'
  <2>1. StoreTypeOK'
    BY <1>0, <1>5 DEF Store, PrepareFails, StoreTypeOK, tables, Status
  <2> QED  BY <1>3, <1>5, <2>1 DEF Store
<1>6. ASSUME Store("create", "profile", InsertWebAuth(reqMSG)) PROVE TypeOK'
  <2>1. reqMSG.id \in Nat /\ reqMSG.cred \in Cred
    BY <1>4, <1>6 DEF Store, Runs, Busy
  <2>2. [email |-> reqMSG.cred[1], passwd |-> reqMSG.cred[2],
         userId |-> reqMSG.id] \in Row
    BY <2>1, CredParts DEF Row
  <2>3. StoreTypeOK'
    BY <1>0, <1>6, <2>1, <2>2 DEF Store, InsertWebAuth, StoreTypeOK, Status
  <2> QED  BY <1>3, <1>6, <2>3 DEF Store
<1>7. ASSUME Store("profile", "disconnect", InsertUser(reqMSG)) PROVE TypeOK'
  <2>1. reqMSG.id \in Nat
    BY <1>4, <1>7 DEF Store, Runs, Busy
  <2>2. user' \in Seq(Nat)
    BY <1>0, <1>7, <2>1 DEF Store, InsertUser, StoreTypeOK
  <2>3. StoreTypeOK'
    BY <1>0, <1>7, <2>2 DEF Store, InsertUser, StoreTypeOK, Status
  <2> QED  BY <1>3, <1>7, <2>3 DEF Store
<1>8. ASSUME Store("login", "disconnect", UserAuthen(reqMSG)) PROVE TypeOK'
  <2>1. uID' \in Nat /\ sqlStatus' \in Status
    BY <1>0, <1>8 DEF Store, UserAuthen, AccountOf, StoreTypeOK, Status, Row
  <2>2. StoreTypeOK'
    BY <1>0, <1>8, <2>1 DEF Store, UserAuthen, StoreTypeOK, tables
  <2> QED  BY <1>3, <1>8, <2>2 DEF Store
<1>9. ASSUME Store("disconnect", "send", SqlDisconnect) PROVE TypeOK'
  <2>1. StoreTypeOK'
    BY <1>0, <1>9 DEF Store, SqlDisconnect, StoreTypeOK, tables, Status
  <2> QED  BY <1>3, <1>9, <2>1 DEF Store
<1> QED  BY <1>1, <1>2, <1>5, <1>6, <1>7, <1>8, <1>9 DEF CarryOut

\* What ReplyMSG builds is a response.
LEMMA ReplyIsResponse ==
  ASSUME StoreTypeOK, reqMSG \in Request
  PROVE  ReplyMSG \in Response
<1> DEFINE kind == ReplyMSG.kind
<1>1. kind \in Kind
  BY DEF ReplyMSG, Kind, AuthSuccess, AuthFail, CreateDetail, CreateFail
<1>2. ReplyMSG.val \in Nat
  BY DEF ReplyMSG, StoreTypeOK, INVALID_CREDENTIALS, AuthInternalError,
         ACCOUNT_ALREADY_EXISTS, INVALID_PASSWORD, CreateInternalError
<1>3. ReplyMSG.id \in Nat
  BY DEF ReplyMSG, Request
<1>4. ReplyMSG = [kind |-> ReplyMSG.kind, id |-> ReplyMSG.id, val |-> ReplyMSG.val]
  BY DEF ReplyMSG
<1> QED  BY <1>1, <1>2, <1>3, <1>4 DEF Response

LEMMA SendType ==
  ASSUME TypeOK, Send
  PROVE  TypeOK'
<1>0. LinkTypeOK /\ StoreTypeOK /\ LoopTypeOK /\ history \in Nat
  BY DEF TypeOK
<1>1. i > 0 /\ reqMSG \in Request /\ reqMSG.cmd \in Cmd /\ reqMSG.cred \in Cred
  BY <1>0 DEF Send, Runs, LoopTypeOK, Busy, Request
<1>2. clients[i] \in Link /\ ~(clients[i] > link)
  BY <1>0, <1>1, ClientIsLink
<1>3. /\ fromAuth' \in [Link -> Seq(Response)]
      /\ sock' \in [Link -> SockState]
      /\ granted' \subseteq Cmd \X Cred
      /\ \A j \in Link : j > link =>
           fromAuth'[j] = fromAuth[j] /\ sock'[j] = sock[j]
  BY <1>0, <1>1, <1>2, ReplyIsResponse, SendAnswerType DEF Send
<1>4. LinkTypeOK'
  BY <1>0, <1>3 DEF Send, LinkTypeOK
<1>5. LoopTypeOK'
  BY <1>0, <1>1 DEF Send, Runs, LoopTypeOK, PcState, Busy
<1>6. StoreTypeOK' /\ history' \in Nat
  BY <1>0 DEF Send, Runs, StoreTypeOK, storeVars, tables
<1> QED  BY <1>4, <1>5, <1>6 DEF TypeOK

LEMMA PeerType ==
  ASSUME TypeOK, Peer
  PROVE  TypeOK'
<1>0. LinkTypeOK /\ StoreTypeOK /\ LoopTypeOK /\ history \in Nat
  BY DEF TypeOK
<1>1. LinkTypeOK' /\ history' \in Nat
  BY <1>0, PeerStepType DEF Peer
<1>2. link \in Nat /\ (link' = link \/ link' = link + 1)
  BY <1>0, ServiceAssumption
  DEF LinkTypeOK, Link, Peer, PeerStep, PeerSend, PeerReceive, PeerEnd, PeerStart
<1>3. 1..link \subseteq 1..link'
  BY <1>2
<1>4. clients' \in Seq(1..link') /\ backlog \in Seq(1..link')
  <2> DEFINE S == 1..link
             T == 1..link'
  <2>1. clients \in Seq(S) /\ backlog \in Seq(S) /\ S \subseteq T /\ clients' = clients
    BY <1>0, <1>3 DEF LoopTypeOK, Peer
  <2> HIDE DEF S, T
  <2>2. clients' \in Seq(T) /\ backlog \in Seq(T)
    BY <2>1, SeqMonotonic
  <2> QED  BY <2>2 DEF T
<1>5. backlog' \in Seq(1..link') /\ (backlog # <<>> => backlog' # <<>>)
  <2> DEFINE T == 1..link'
  <2>1. link' \in T /\ backlog \in Seq(T)
    BY <1>0, <1>2, <1>4 DEF Peer, LinkTypeOK, Link
  <2>2. backlog' = Append(backlog, link') \/ backlog' = backlog
    BY DEF Peer
  <2> HIDE DEF T
  <2>3. backlog' \in Seq(T) /\ (backlog # <<>> => backlog' # <<>>)
    BY <2>1, <2>2, AppendProperties
  <2> QED  BY <2>3 DEF T
<1>6. LoopTypeOK'
  BY <1>0, <1>3, <1>4, <1>5 DEF Peer, LoopTypeOK
<1>7. StoreTypeOK'
  BY <1>0 DEF Peer, StoreTypeOK, storeVars, tables
<1> QED  BY <1>1, <1>6, <1>7 DEF TypeOK

LEMMA StepTypeOK ==
  ASSUME TypeOK, [Next]_vars
  PROVE  TypeOK'
<1>0. LinkTypeOK /\ StoreTypeOK /\ LoopTypeOK /\ history \in Nat
  BY DEF TypeOK
<1>1. CASE TCP_Run
  BY <1>1, PollType, RecvType, CarryOutType, SendType DEF TCP_Run
<1>2. CASE Kill
  <2>1. LinkTypeOK'
    BY <1>0, <1>2, AuthGoneType DEF Kill, AuthKill
  <2> QED  BY <1>2, <2>1, LoopGoneType DEF Kill
<1>3. CASE Start
  <2>1. LinkTypeOK' /\ link' = link
    BY <1>0, <1>3 DEF Start, AuthStart, LinkTypeOK, SockState
  <2>2. LoopTypeOK' /\ StoreTypeOK' /\ history' \in Nat
    BY <1>0, <1>3, <2>1
    DEF Start, LoopTypeOK, loopVars, StoreTypeOK, storeVars, tables
  <2> QED  BY <2>1, <2>2 DEF TypeOK
<1>4. CASE Peer
  BY <1>4, PeerType
<1>5. CASE UNCHANGED vars
  <2>1. LinkTypeOK' /\ history' \in Nat /\ link' = link
    BY <1>0, <1>5, LinkVarsType DEF vars, serviceVars, linkVars
  <2>2. StoreTypeOK'
    BY <1>0, <1>5 DEF vars, storeVars, tables, StoreTypeOK
  <2>3. LoopTypeOK'
    BY <1>0, <1>5, <2>1 DEF vars, loopVars, LoopTypeOK
  <2> QED  BY <2>1, <2>2, <2>3 DEF TypeOK
<1> QED  BY <1>1, <1>2, <1>3, <1>4, <1>5 DEF Next

\* All variables of the authentication server keep their types, the scan stays
\* within the vector of clients, and a request in hand is a readable one: for
\* any number of chat server starts and requests and any failure.
THEOREM TypeCorrect == Spec => []TypeOK
BY InitTypeOK, StepTypeOK, PTL DEF Spec

-----------------------------------------------------------------------------
(* A login is answered with an account.                                    *)

\* The calls follow the command, and a status of success of a login was set by
\* userAuthen for the row it found, with the id of that row.
LoginDone ==
  /\ pc = "login" => reqMSG.cmd = "LOGIN"
  /\ pc \in {"create", "profile"} => reqMSG.cmd # "LOGIN"
  /\ pc \in {"disconnect", "send"} /\ reqMSG.cmd = "LOGIN" /\ sqlStatus = "SUCCESS"
       => [email |-> reqMSG.cred[1], passwd |-> reqMSG.cred[2],
           userId |-> uID] \in webAuth

LEMMA LoginDoneStep ==
  ASSUME TypeOK, LoginDone, [Next]_vars
  PROVE  LoginDone'
<1>0. webAuth \subseteq Row
  BY DEF TypeOK, StoreTypeOK
<1>1. CASE pc' \notin {"login", "create", "profile", "disconnect", "send"}
  BY <1>1 DEF LoginDone
<1>2. CASE SqlConnect
  BY <1>2 DEF SqlConnect, Runs, LoginDone
<1>3. CASE CarryOut
  <2>1. ASSUME Store("create", "disconnect", PrepareFails) PROVE LoginDone'
    BY <2>1 DEF Store, Runs, LoginDone
  <2>2. ASSUME Store("create", "profile", InsertWebAuth(reqMSG)) PROVE LoginDone'
    BY <2>2 DEF Store, Runs, LoginDone
  <2>3. ASSUME Store("profile", "disconnect", InsertUser(reqMSG)) PROVE LoginDone'
    BY <2>3 DEF Store, Runs, LoginDone
  <2>4. ASSUME Store("login", "disconnect", UserAuthen(reqMSG)) PROVE LoginDone'
    <3>1. pc' = "disconnect" /\ reqMSG' = reqMSG /\ webAuth' = webAuth
      BY <2>4 DEF Store, Runs, UserAuthen, tables
    <3>2. ASSUME sqlStatus' = "SUCCESS"
          PROVE  [email |-> reqMSG.cred[1], passwd |-> reqMSG.cred[2],
                  userId |-> uID'] \in webAuth
      <4>1. PICK r \in AccountOf(reqMSG.cred[1]) :
              r.passwd = reqMSG.cred[2] /\ uID' = r.userId
        BY <2>4, <3>2 DEF Store, UserAuthen
      <4>2. r \in webAuth /\ r \in Row /\ r.email = reqMSG.cred[1]
        BY <1>0, <4>1 DEF AccountOf
      <4>3. r = [email |-> r.email, passwd |-> r.passwd, userId |-> r.userId]
        BY <4>2 DEF Row
      <4> QED  BY <4>1, <4>2, <4>3
    <3> QED  BY <3>1, <3>2 DEF LoginDone
  <2>5. ASSUME Store("disconnect", "send", SqlDisconnect) PROVE LoginDone'
    BY <2>5 DEF Store, Runs, SqlDisconnect, tables, LoginDone
  <2> QED  BY <1>3, <2>1, <2>2, <2>3, <2>4, <2>5 DEF CarryOut
<1>4. CASE RecvFails \/ Start \/ Peer \/ UNCHANGED vars
  <2>1. UNCHANGED <<pc, reqMSG, sqlStatus, uID, webAuth>>
    BY <1>4 DEF RecvFails, Start, Peer, vars, storeVars, loopVars, tables
  <2> QED  BY <2>1 DEF LoginDone
<1>5. CASE \/ SelectConnection \/ AcceptConnection \/ AcceptError \/ ScanNext
           \/ RecvRequest \/ RecvBadRequest \/ RecvEnd \/ SqlConnectFails
           \/ Send \/ Kill
  <2>1. pc' \notin {"login", "create", "profile", "disconnect", "send"}
    BY <1>5
    DEF SelectConnection, AcceptConnection, AcceptError, ScanNext, RecvRequest,
        RecvBadRequest, RecvEnd, SqlConnectFails, Send, Kill, LoopGone, Runs
  <2> QED  BY <1>1, <2>1
<1> QED  BY <1>2, <1>3, <1>4, <1>5 DEF Next, TCP_Run

\* Whatever fails in the database and whenever the process dies, a login is
\* answered with a success only for an account with that email and password,
\* and with its id.
THEOREM LoginIsAccountHolds == Spec => []LoginIsAccount
<1>1. Init => LoginDone
  BY DEF Init, LoopInit, LoginDone
<1>2. LoginDone => LoginIsAccount
  BY DEF LoginDone, LoginIsAccount, ReplyMSG, IsSuccess, AuthSuccess, AuthFail,
         CreateDetail, CreateFail
<1> QED  BY <1>1, <1>2, LoginDoneStep, TypeCorrect, PTL DEF Spec

\* No row is deleted.
LEMMA RowsKept == [Next]_vars => webAuth \subseteq webAuth'
BY DEF Next, TCP_Run, Kill, Start, Peer, SelectConnection, AcceptConnection,
       AcceptError, ScanNext, RecvRequest, RecvBadRequest, RecvEnd, RecvFails,
       SqlConnect, SqlConnectFails, CarryOut, Store, PrepareFails, InsertWebAuth,
       InsertUser, UserAuthen, SqlDisconnect, Send, LoopGone, vars, storeVars, tables

\* Nothing is granted but by an answer.
LEMMA GrantsAreSent == [Next]_vars => Send \/ granted' = granted
BY DEF Next, TCP_Run, Kill, Start, Peer, SelectConnection, AcceptConnection,
       AcceptError, ScanNext, RecvRequest, RecvBadRequest, RecvEnd, RecvFails,
       SqlConnect, SqlConnectFails, CarryOut, Store, AuthGone, AuthAcceptError,
       AuthExit, AuthStuck, AuthKill, AuthStart, PeerStep, PeerSend, PeerReceive,
       PeerEnd, PeerStart, vars, serviceVars, linkVars

\* An account is never lost, so what was granted to a login is one for good.
GrantedIsAccount ==
  \A cred \in Cred : <<"LOGIN", cred>> \in granted =>
    \E r \in webAuth : r.email = cred[1] /\ r.passwd = cred[2]

LEMMA GrantedIsAccountStep ==
  ASSUME TypeOK, LoginDone, GrantedIsAccount, [Next]_vars
  PROVE  GrantedIsAccount'
<1>1. webAuth \subseteq webAuth'
  BY RowsKept
<1>2. CASE Send
  <2>1. /\ granted' \subseteq granted \cup {<<reqMSG.cmd, reqMSG.cred>>}
        /\ ~IsSuccess(ReplyMSG.kind) => granted' = granted
        /\ pc = "send"
    BY <1>2 DEF Send, SendAnswer, Runs
  <2>2. reqMSG.cmd = "LOGIN" /\ IsSuccess(ReplyMSG.kind) => sqlStatus = "SUCCESS"
    BY DEF ReplyMSG, IsSuccess, AuthSuccess, AuthFail, CreateDetail
  <2>3. reqMSG.cmd = "LOGIN" /\ IsSuccess(ReplyMSG.kind) =>
          \E r \in webAuth : r.email = reqMSG.cred[1] /\ r.passwd = reqMSG.cred[2]
    BY <2>1, <2>2 DEF LoginDone
  <2>4. ASSUME NEW cred \in Cred, <<"LOGIN", cred>> \in granted'
        PROVE  \E r \in webAuth : r.email = cred[1] /\ r.passwd = cred[2]
    <3>1. CASE <<"LOGIN", cred>> \in granted
      BY <3>1 DEF GrantedIsAccount
    <3>2. CASE <<"LOGIN", cred>> \notin granted
      <4>1. IsSuccess(ReplyMSG.kind) /\ <<"LOGIN", cred>> = <<reqMSG.cmd, reqMSG.cred>>
        BY <2>1, <2>4, <3>2
      <4>2. reqMSG.cmd = "LOGIN" /\ reqMSG.cred = cred
        BY <4>1
      <4> QED  BY <2>3, <4>1, <4>2
    <3> QED  BY <3>1, <3>2
  <2> QED  BY <1>1, <2>4 DEF GrantedIsAccount
<1>3. CASE granted' = granted
  BY <1>1, <1>3 DEF GrantedIsAccount
<1> QED  BY <1>2, <1>3, GrantsAreSent

LEMMA GrantedIsAccountHolds == Spec => []GrantedIsAccount
<1>1. Init => LoginDone /\ GrantedIsAccount
  BY DEF Init, LoopInit, ServiceInit, LinkInit, LoginDone, GrantedIsAccount
<1> QED  BY <1>1, LoginDoneStep, GrantedIsAccountStep, TypeCorrect, PTL DEF Spec

\* From the first insert on there is an account with the email of a creation that
\* goes on or has succeeded, unless the insert threw for another reason than that
\* the email is taken.
CreateDone ==
  (/\ "insert" \notin SqlFaults
   /\ reqMSG.cmd # "LOGIN"
   /\ \/ pc = "profile"
      \/ pc \in {"disconnect", "send"} /\ sqlStatus = "SUCCESS")
  => \E r \in webAuth : r.email = reqMSG.cred[1]

LEMMA CreateDoneStep ==
  ASSUME LoginDone, CreateDone, [Next]_vars
  PROVE  CreateDone'
<1>1. CASE pc' \notin {"profile", "disconnect", "send"}
  BY <1>1 DEF CreateDone
<1>2. CASE CarryOut
  <2>1. ASSUME Store("create", "disconnect", PrepareFails) PROVE CreateDone'
    BY <2>1 DEF Store, Runs, PrepareFails, CreateDone
  <2>2. ASSUME Store("create", "profile", InsertWebAuth(reqMSG)) PROVE CreateDone'
    <3>1. reqMSG' = reqMSG
      BY <2>2 DEF Store
    <3>2. "insert" \notin SqlFaults => \E r \in webAuth' : r.email = reqMSG.cred[1]
      <4> DEFINE row == [email |-> reqMSG.cred[1], passwd |-> reqMSG.cred[2],
                         userId |-> reqMSG.id]
      <4>1. row.email = reqMSG.cred[1]
        OBVIOUS
      <4>2. "insert" \notin SqlFaults =>
              webAuth' = webAuth \cup {row} \/ (AccountOf(row.email) # {} /\ webAuth' = webAuth)
        BY <2>2 DEF Store, InsertWebAuth
      <4> HIDE DEF row
      <4> QED  BY <4>1, <4>2 DEF AccountOf
    <3> QED  BY <3>1, <3>2 DEF CreateDone
  <2>3. ASSUME Store("profile", "disconnect", InsertUser(reqMSG)) PROVE CreateDone'
    BY <2>3 DEF Store, Runs, InsertUser, CreateDone
  <2>4. ASSUME Store("login", "disconnect", UserAuthen(reqMSG)) PROVE CreateDone'
    BY <2>4 DEF Store, Runs, LoginDone, CreateDone
  <2>5. ASSUME Store("disconnect", "send", SqlDisconnect) PROVE CreateDone'
    BY <2>5 DEF Store, Runs, SqlDisconnect, tables, CreateDone
  <2> QED  BY <1>2, <2>1, <2>2, <2>3, <2>4, <2>5 DEF CarryOut
<1>3. CASE RecvFails \/ Start \/ Peer \/ UNCHANGED vars
  <2>1. UNCHANGED <<pc, reqMSG, sqlStatus, webAuth>>
    BY <1>3 DEF RecvFails, Start, Peer, vars, storeVars, loopVars, tables
  <2> QED  BY <2>1 DEF CreateDone
<1>4. CASE \/ SelectConnection \/ AcceptConnection \/ AcceptError \/ ScanNext
           \/ RecvRequest \/ RecvBadRequest \/ RecvEnd \/ SqlConnect
           \/ SqlConnectFails \/ Send \/ Kill
  <2>1. pc' \notin {"profile", "disconnect", "send"}
    BY <1>4
    DEF SelectConnection, AcceptConnection, AcceptError, ScanNext, RecvRequest,
        RecvBadRequest, RecvEnd, SqlConnect, SqlConnectFails, Send, Kill, LoopGone, Runs
  <2> QED  BY <1>1, <2>1
<1> QED  BY <1>2, <1>3, <1>4 DEF Next, TCP_Run

\* So for what was granted to a creation there is an account, for good.
GrantedIsStored ==
  "insert" \notin SqlFaults =>
    \A cred \in Cred : <<"CREATEACCOUNT", cred>> \in granted =>
      \E r \in webAuth : r.email = cred[1]

LEMMA GrantedIsStoredStep ==
  ASSUME CreateDone, GrantedIsStored, [Next]_vars
  PROVE  GrantedIsStored'
<1>1. webAuth \subseteq webAuth'
  BY RowsKept
<1>2. CASE Send
  <2>1. /\ granted' \subseteq granted \cup {<<reqMSG.cmd, reqMSG.cred>>}
        /\ ~IsSuccess(ReplyMSG.kind) => granted' = granted
        /\ pc = "send"
    BY <1>2 DEF Send, SendAnswer, Runs
  <2>2. reqMSG.cmd # "LOGIN" /\ IsSuccess(ReplyMSG.kind) => sqlStatus = "SUCCESS"
    BY DEF ReplyMSG, IsSuccess, AuthSuccess, AuthFail, CreateDetail, CreateFail
  <2>3. ASSUME "insert" \notin SqlFaults,
               NEW cred \in Cred, <<"CREATEACCOUNT", cred>> \in granted'
        PROVE  \E r \in webAuth : r.email = cred[1]
    <3>1. CASE <<"CREATEACCOUNT", cred>> \in granted
      BY <2>3, <3>1 DEF GrantedIsStored
    <3>2. CASE <<"CREATEACCOUNT", cred>> \notin granted
      <4>1. /\ IsSuccess(ReplyMSG.kind)
            /\ <<"CREATEACCOUNT", cred>> = <<reqMSG.cmd, reqMSG.cred>>
        BY <2>1, <2>3, <3>2
      <4>2. reqMSG.cmd = "CREATEACCOUNT" /\ reqMSG.cred = cred
        BY <4>1
      <4> QED  BY <2>1, <2>2, <2>3, <4>1, <4>2 DEF CreateDone
    <3> QED  BY <3>1, <3>2
  <2> QED  BY <1>1, <2>3 DEF GrantedIsStored
<1>3. CASE granted' = granted
  BY <1>1, <1>3 DEF GrantedIsStored
<1> QED  BY <1>2, <1>3, GrantsAreSent

LEMMA GrantedIsStoredHolds == Spec => []GrantedIsStored
<1>1. Init => LoginDone /\ CreateDone /\ GrantedIsStored
  BY DEF Init, LoopInit, ServiceInit, LinkInit, LoginDone, CreateDone, GrantedIsStored
<1> QED  BY <1>1, LoginDoneStep, CreateDoneStep, GrantedIsStoredStep, TypeCorrect, PTL DEF Spec

-----------------------------------------------------------------------------
(* User ids are distinct as long as the chat server is started once.       *)

\* One request is under way at a time; its id is larger than the ids of all
\* accounts until it is inserted, and at most the number of requests sent.
IdsFresh ==
  link = 1 =>
    /\ UserIdsDistinct
    /\ \A r \in webAuth : r.userId <= history
    /\ pc \in Busy => toAuth[1] = <<>> /\ reqMSG.id <= history
    /\ pc \in {"connect", "create"} => \A r \in webAuth : r.userId < reqMSG.id
    /\ \/ toAuth[1] = <<>>
       \/ \E q \in Request : /\ toAuth[1] = <<q>>
                            /\ q.id <= history
                            /\ \A r \in webAuth : r.userId < q.id

\* The steps that touch neither the accounts nor the requests under way.
LEMMA FreshKept ==
  ASSUME IdsFresh, UNCHANGED <<link, toAuth, history, webAuth>>,
         pc' \in Busy => pc \in Busy /\ reqMSG' = reqMSG,
         pc' \in {"connect", "create"} => pc \in {"connect", "create"}
  PROVE  IdsFresh'
BY DEF IdsFresh, UserIdsDistinct, Busy

\* The steps that end the process.
LEMMA FreshGone ==
  ASSUME TypeOK, IdsFresh, NEW end, AuthGone(end), LoopGone
  PROVE  IdsFresh'
<1>1. link' = link /\ pc' = "poll" /\ UNCHANGED <<history, webAuth>>
  BY DEF AuthGone, LoopGone, storeVars, tables
<1>2. toAuth'[1] = <<>>
  BY ServiceAssumption DEF AuthGone, Link
<1> QED  BY <1>1, <1>2 DEF IdsFresh, UserIdsDistinct, Busy

LEMMA FreshRecv ==
  ASSUME TypeOK, IdsFresh, RecvRequest
  PROVE  IdsFresh'
<1> SUFFICES ASSUME link = 1 PROVE IdsFresh'
  BY DEF IdsFresh, RecvRequest, UserIdsDistinct
<1>1. i > 0 /\ LinkTypeOK /\ LoopTypeOK
  BY DEF TypeOK, RecvRequest, Runs, LoopTypeOK
<1>2. clients[i] = 1
  BY <1>1, ClientIsLink
<1>3. PICK q \in Request : /\ toAuth[1] = <<q>>
                          /\ q.id <= history
                          /\ \A r \in webAuth : r.userId < q.id
  BY <1>2 DEF RecvRequest, IdsFresh
<1>4. Head(toAuth[1]) = q /\ Tail(toAuth[1]) = <<>>
  BY <1>3
<1>5. reqMSG' = q /\ toAuth'[1] = <<>> /\ pc' = "connect"
  BY <1>1, <1>2, <1>4, ServiceAssumption DEF RecvRequest, Runs, LinkTypeOK, Link
<1>6. UNCHANGED <<link, history, webAuth>>
  BY DEF RecvRequest, Runs, storeVars, tables
<1> QED  BY <1>3, <1>5, <1>6 DEF IdsFresh, UserIdsDistinct

LEMMA FreshInsert ==
  ASSUME TypeOK, IdsFresh, Store("create", "profile", InsertWebAuth(reqMSG))
  PROVE  IdsFresh'
<1> DEFINE new == [email |-> reqMSG.cred[1], passwd |-> reqMSG.cred[2],
                   userId |-> reqMSG.id]
<1>1. UNCHANGED <<link, toAuth, history, reqMSG>> /\ pc = "create" /\ pc' = "profile"
  BY DEF Store, Runs, linkVars
<1>2. webAuth' = webAuth \cup {new} \/ webAuth' = webAuth
  BY DEF Store, InsertWebAuth
<1>3. new.userId = reqMSG.id
  OBVIOUS
<1>4. reqMSG.id \in Nat /\ history \in Nat /\ \A r \in webAuth : r.userId \in Nat
  BY <1>1 DEF TypeOK, StoreTypeOK, Row, LoopTypeOK, Busy, Request
<1> HIDE DEF new
<1> SUFFICES ASSUME link = 1 PROVE IdsFresh'
  BY <1>1 DEF IdsFresh, UserIdsDistinct
<1>5. /\ toAuth[1] = <<>>
      /\ reqMSG.id <= history
      /\ \A r \in webAuth : r.userId < reqMSG.id
      /\ \A r \in webAuth : r.userId <= history
      /\ \A r, s \in webAuth : r.userId = s.userId => r = s
  BY <1>1 DEF IdsFresh, UserIdsDistinct, Busy
<1>6. \A r, s \in webAuth' : r.userId = s.userId => r = s
  BY <1>2, <1>3, <1>4, <1>5
<1>7. \A r \in webAuth' : r.userId <= history
  BY <1>2, <1>3, <1>5
<1> QED  BY <1>1, <1>5, <1>6, <1>7 DEF IdsFresh, UserIdsDistinct, Busy

LEMMA FreshPeer ==
  ASSUME TypeOK, IdsFresh, Peer
  PROVE  IdsFresh'
<1>1. link \in Nat \ {0} /\ LinkTypeOK /\ LoopTypeOK /\ history \in Nat
  BY ServiceAssumption DEF TypeOK, LinkTypeOK, Link
<1>2. UNCHANGED <<pc, reqMSG, webAuth>>
  BY DEF Peer, storeVars, tables
<1>3. \A r \in webAuth : r.userId \in Nat
  BY DEF TypeOK, StoreTypeOK, Row
<1>4. CASE PeerReceive \/ PeerEnd
  BY <1>2, <1>4, FreshKept DEF PeerReceive, PeerEnd
<1>5. CASE PeerStart
  BY <1>1, <1>5 DEF PeerStart, IdsFresh
<1>6. CASE PeerSend
  <2> SUFFICES ASSUME link = 1 PROVE IdsFresh'
    BY <1>6 DEF PeerSend, IdsFresh, UserIdsDistinct
  <2>1. link' = 1 /\ history' = history + 1
    BY <1>6 DEF PeerSend
  <2>2. CASE UNCHANGED toAuth
    <3>1. \/ toAuth[1] = <<>>
          \/ \E q \in Request : /\ toAuth[1] = <<q>>
                               /\ q.id <= history'
                               /\ \A r \in webAuth : r.userId < q.id
      BY <1>1, <2>1 DEF IdsFresh, Request
    <3>2. pc \in Busy => reqMSG.id \in Nat
      BY <1>1 DEF LoopTypeOK, Request
    <3> QED  BY <1>1, <1>2, <1>3, <2>1, <2>2, <3>1, <3>2 DEF IdsFresh, UserIdsDistinct
  <2>3. CASE ~UNCHANGED toAuth
    <3>1. sock[1] = "up" /\ toAuth[1] = <<>>
      BY <1>6, <2>3 DEF PeerSend
    <3>2. pc \notin Busy
      <4>1. ~InHand(1)
        BY <1>1, <2>1, <3>1 DEF Peer
      <4>2. pc \in Busy => clients[i] = 1
        BY <1>1, ClientIsLink DEF LoopTypeOK
      <4> QED  BY <4>1, <4>2 DEF InHand
    <3>3. PICK cmd \in Cmd, cred \in Cred \cup {NoCred} :
            toAuth' = [toAuth EXCEPT ![1] =
              Append(@, [cmd |-> cmd, id |-> history + 1, cred |-> cred])]
      BY <1>6, <2>3 DEF PeerSend
    <3> DEFINE q == [cmd |-> cmd, id |-> history + 1, cred |-> cred]
    <3>4. q \in Request /\ q.id = history + 1
      BY <1>1 DEF Request
    <3>5. toAuth'[1] = Append(<<>>, q)
      BY <1>1, <3>1, <3>3, ServiceAssumption DEF LinkTypeOK, Link
    <3> HIDE DEF q
    <3>6. toAuth'[1] = <<q>>
      BY <3>5
    <3>7. \A r \in webAuth : r.userId <= history /\ r.userId < q.id
      BY <1>1, <1>3, <3>4 DEF IdsFresh
    <3> QED  BY <1>1, <1>2, <1>3, <2>1, <3>2, <3>4, <3>6, <3>7
             DEF IdsFresh, UserIdsDistinct, Busy
  <2> QED  BY <2>2, <2>3
<1> QED  BY <1>4, <1>5, <1>6 DEF Peer, PeerStep

LEMMA FreshStep ==
  ASSUME TypeOK, IdsFresh, [Next]_vars
  PROVE  IdsFresh'
<1>1. CASE RecvRequest
  BY <1>1, FreshRecv
<1>2. CASE Peer
  BY <1>2, FreshPeer
<1>3. CASE AcceptError \/ RecvBadRequest \/ SqlConnectFails \/ Kill
  BY <1>3, FreshGone
  DEF AcceptError, AuthAcceptError, RecvBadRequest, AuthExit, SqlConnectFails,
      Kill, AuthKill
<1>4. CASE CarryOut
  <2>1. CASE Store("create", "profile", InsertWebAuth(reqMSG))
    BY <2>1, FreshInsert
  <2>2. CASE \/ Store("create", "disconnect", PrepareFails)
             \/ Store("profile", "disconnect", InsertUser(reqMSG))
             \/ Store("login", "disconnect", UserAuthen(reqMSG))
             \/ Store("disconnect", "send", SqlDisconnect)
    <3>1. /\ UNCHANGED <<link, toAuth, history, webAuth, reqMSG>>
          /\ pc \in Busy /\ pc' \in {"disconnect", "send"}
      BY <2>2
      DEF Store, Runs, linkVars, PrepareFails, InsertUser, UserAuthen,
          SqlDisconnect, tables, Busy
    <3> QED  BY <3>1, FreshKept
  <2> QED  BY <1>4, <2>1, <2>2 DEF CarryOut
<1>5. CASE SqlConnect
  <2>1. /\ UNCHANGED <<link, toAuth, history, webAuth, reqMSG>>
        /\ pc = "connect"
    BY <1>5 DEF SqlConnect, Runs, linkVars, tables
  <2> QED  BY <2>1, FreshKept DEF Busy
<1>6. CASE SelectConnection \/ AcceptConnection \/ ScanNext \/ RecvEnd \/ Send
  <2>1. UNCHANGED <<link, toAuth, history, webAuth>> /\ pc' \notin Busy
    BY <1>6
    DEF SelectConnection, AcceptConnection, ScanNext, RecvEnd, Send, Runs,
        linkVars, storeVars, tables, Busy
  <2> QED  BY <2>1, FreshKept DEF Busy
<1>7. CASE RecvFails \/ Start \/ UNCHANGED vars
  <2>1. UNCHANGED <<link, toAuth, history, webAuth, pc, reqMSG>>
    BY <1>7
    DEF RecvFails, AuthStuck, Start, AuthStart, vars, serviceVars, linkVars,
        storeVars, tables, loopVars
  <2> QED  BY <2>1, FreshKept
<1> QED  BY <1>1, <1>2, <1>3, <1>4, <1>5, <1>6, <1>7 DEF Next, TCP_Run

\* No two accounts get the same user id from one chat server process, over any
\* failures of the database and any deaths of this process, although the id is
\* only that of the request.
THEOREM UserIdsDistinctHolds == Spec => []UserIdsDistinct
<1>1. Init => IdsFresh
  <2> SUFFICES ASSUME Init PROVE IdsFresh
    OBVIOUS
  <2>1. webAuth = {} /\ pc = "poll"
    BY DEF Init, StoreInit, LoopInit
  <2>2. toAuth[1] = <<>>
    BY ServiceAssumption DEF Init, ServiceInit, LinkInit, Link
  <2> QED  BY <2>1, <2>2 DEF IdsFresh, UserIdsDistinct, Busy
<1>2. IdsFresh => UserIdsDistinct
  BY DEF IdsFresh, UserIdsDistinct
<1> QED  BY <1>1, <1>2, FreshStep, TypeCorrect, PTL DEF Spec

-----------------------------------------------------------------------------
(* Accounts that fail leave nothing behind, accounts that are made are whole. *)

LEMMA CleanStep ==
  ASSUME TypeOK, IdsFresh, LoginDone, FailureIsClean, [Next]_vars
  PROVE  FailureIsClean'
<1> SUFFICES ASSUME pc' = "disconnect", link' = 1, reqMSG'.cmd = "CREATEACCOUNT",
                    sqlStatus' # "SUCCESS"
             PROVE  \A r \in webAuth' : r.userId # reqMSG'.id
  BY DEF FailureIsClean
<1>0. \A r \in webAuth : r.userId \in Nat
  BY DEF TypeOK, StoreTypeOK, Row
<1>1. CASE Store("create", "disconnect", PrepareFails)
  <2>1. UNCHANGED <<webAuth, reqMSG>> /\ link = 1 /\ pc = "create"
    BY <1>1 DEF Store, Runs, linkVars, PrepareFails, tables
  <2>2. \A r \in webAuth : r.userId < reqMSG.id
    BY <2>1 DEF IdsFresh
  <2>3. reqMSG.id \in Nat
    BY <2>1 DEF TypeOK, LoopTypeOK, Busy, Request
  <2> QED  BY <1>0, <2>1, <2>2, <2>3
<1>2. CASE Store("profile", "disconnect", InsertUser(reqMSG))
  BY <1>2 DEF Store, InsertUser
<1>3. CASE Store("login", "disconnect", UserAuthen(reqMSG))
  BY <1>3 DEF Store, Runs, LoginDone
<1>4. CASE RecvFails \/ Start \/ UNCHANGED vars
  <2>1. UNCHANGED <<link, webAuth, pc, reqMSG, sqlStatus>>
    BY <1>4
    DEF RecvFails, AuthStuck, Start, AuthStart, vars, serviceVars, linkVars,
        storeVars, tables, loopVars
  <2> QED  BY <2>1 DEF FailureIsClean
<1>5. CASE Peer
  <2>1. UNCHANGED <<webAuth, pc, reqMSG, sqlStatus>>
    BY <1>5 DEF Peer, storeVars, tables
  <2>2. link \in 1..(Restarts + 1) /\ (link' = link \/ link' = link + 1)
    BY <1>5 DEF TypeOK, LinkTypeOK, Link, Peer, PeerStep, PeerSend, PeerReceive, PeerEnd, PeerStart
  <2>3. link = 1
    BY <2>2
  <2> QED  BY <2>1, <2>3 DEF FailureIsClean
<1>6. CASE \/ SelectConnection \/ AcceptConnection \/ AcceptError \/ ScanNext
           \/ RecvRequest \/ RecvBadRequest \/ RecvEnd \/ SqlConnect
           \/ SqlConnectFails \/ Send \/ Kill
           \/ Store("create", "profile", InsertWebAuth(reqMSG))
           \/ Store("disconnect", "send", SqlDisconnect)
  BY <1>6
  DEF SelectConnection, AcceptConnection, AcceptError, ScanNext, RecvRequest,
      RecvBadRequest, RecvEnd, SqlConnect, SqlConnectFails, Send, Kill,
      LoopGone, Runs, Store
<1> QED  BY <1>1, <1>2, <1>3, <1>4, <1>5, <1>6 DEF Next, TCP_Run, CarryOut

\* A creation that fails, for whatever reason, has put no row in web_auth under
\* its id, as long as the chat server is started once.
THEOREM FailureIsCleanHolds == Spec => []FailureIsClean
<1>1. Init => IdsFresh /\ LoginDone /\ FailureIsClean
  <2> SUFFICES ASSUME Init PROVE IdsFresh /\ LoginDone /\ FailureIsClean
    OBVIOUS
  <2>1. webAuth = {} /\ pc = "poll"
    BY DEF Init, StoreInit, LoopInit
  <2>2. toAuth[1] = <<>>
    BY ServiceAssumption DEF Init, ServiceInit, LinkInit, Link
  <2> QED  BY <2>1, <2>2 DEF IdsFresh, UserIdsDistinct, Busy, LoginDone, FailureIsClean
<1> QED  BY <1>1, CleanStep, FreshStep, LoginDoneStep, TypeCorrect, PTL DEF Spec

-----------------------------------------------------------------------------
(* recv does not block.                                                    *)

\* No connection is twice in the vector of clients or in the backlog.
Distinct ==
  /\ \A m, n \in DOMAIN clients : clients[m] = clients[n] => m = n
  /\ \A m, n \in DOMAIN backlog : backlog[m] = backlog[n] => m = n
  /\ \A m \in DOMAIN clients, n \in DOMAIN backlog : clients[m] # backlog[n]

\* What select found on the clients the scan has yet to come to is still there.
StillThere ==
  /\ auth = "down" => pc = "poll"
  /\ auth = "up" =>
       /\ pc = "accept" => \A k \in ready : Pending(k)
       /\ pc \in {"scan", "recv"} =>
            \A n \in 1..i : clients[n] \in ready => Pending(clients[n])
       /\ pc \in Busy =>
            \A n \in 1..(i - 1) : clients[n] \in ready => Pending(clients[n])
       /\ pc = "recv" => clients[i] \in ready

\* The clients of the vector are connections there are.
LEMMA ClientsAreLinks ==
  ASSUME LinkTypeOK, LoopTypeOK
  PROVE  \A n \in 1..Len(clients) : clients[n] \in 1..link /\ clients[n] \in Link
<1> DEFINE S == 1..link
<1>1. clients \in Seq(S)
  BY DEF LoopTypeOK
<1> HIDE DEF S
<1>2. \A n \in 1..Len(clients) : clients[n] \in S
  BY <1>1, ElementOfSeq
<1>3. \A k \in S : k \in 1..link /\ k \in Link
  BY ServiceAssumption DEF S, LinkTypeOK, Link
<1> QED  BY <1>2, <1>3

\* A connection the chat server makes is a new one.
LEMMA DistinctPeer ==
  ASSUME TypeOK, Distinct, Peer
  PROVE  Distinct'
<1>1. link \in Nat /\ clients \in Seq(1..link) /\ backlog \in Seq(1..link)
  BY ServiceAssumption DEF TypeOK, LinkTypeOK, LoopTypeOK, Link
<1>2. clients' = clients
  BY DEF Peer
<1>3. CASE backlog' = backlog
  BY <1>2, <1>3 DEF Distinct
<1>4. CASE backlog' # backlog
  <2>1. backlog' = Append(backlog, link + 1)
    BY <1>4 DEF Peer, PeerStep, PeerSend, PeerReceive, PeerEnd, PeerStart
  <2>2. DOMAIN backlog' = 1..(Len(backlog) + 1) /\ DOMAIN backlog = 1..Len(backlog)
    BY <1>1, <2>1
  <2>3. \A n \in DOMAIN backlog' : backlog'[n] =
          IF n = Len(backlog) + 1 THEN link + 1 ELSE backlog[n]
    BY <1>1, <2>1
  <2>4. \A n \in DOMAIN backlog : backlog[n] \in 1..link
    BY <1>1
  <2>5. \A n \in DOMAIN clients : clients[n] \in 1..link
    BY <1>1
  <2>6. Len(backlog) \in Nat
    BY <1>1
  <2>7. \A n \in DOMAIN backlog : backlog[n] # link + 1
    BY <1>1, <2>4
  <2>8. \A n \in DOMAIN clients : clients[n] # link + 1
    BY <1>1, <2>5
  <2> QED  BY <1>2, <2>2, <2>3, <2>6, <2>7, <2>8 DEF Distinct
<1> QED  BY <1>3, <1>4

LEMMA DistinctAccept ==
  ASSUME TypeOK, Distinct, AcceptConnection
  PROVE  Distinct'
<1>1. link \in Nat /\ clients \in Seq(1..link) /\ backlog \in Seq(1..link)
  BY ServiceAssumption DEF TypeOK, LinkTypeOK, LoopTypeOK, Link
<1>2. CASE ~acceptReady
  BY <1>2 DEF AcceptConnection, Distinct
<1>3. CASE acceptReady
  <2>1. /\ clients' = Append(clients, Head(backlog))
        /\ backlog' = Tail(backlog)
        /\ backlog # <<>>
    BY <1>3 DEF AcceptConnection, Runs, TypeOK, LoopTypeOK
  <2>2. /\ DOMAIN clients = 1..Len(clients) /\ DOMAIN backlog = 1..Len(backlog)
        /\ Len(clients) \in Nat /\ Len(backlog) \in Nat \ {0}
        /\ Head(backlog) = backlog[1]
    BY <1>1, <2>1
  <2>3. /\ DOMAIN clients' = 1..(Len(clients) + 1)
        /\ \A n \in DOMAIN clients' : clients'[n] =
             IF n = Len(clients) + 1 THEN backlog[1] ELSE clients[n]
    BY <1>1, <2>1, <2>2
  <2>4. /\ DOMAIN backlog' = 1..(Len(backlog) - 1)
        /\ \A n \in DOMAIN backlog' : backlog'[n] = backlog[n + 1]
    BY <1>1, <2>1, <2>2
  <2>5. \A m, n \in DOMAIN clients' : clients'[m] = clients'[n] => m = n
    BY <2>2, <2>3 DEF Distinct
  <2>6. \A m, n \in DOMAIN backlog' : backlog'[m] = backlog'[n] => m = n
    BY <2>2, <2>4 DEF Distinct
  <2>7. \A m \in DOMAIN clients', n \in DOMAIN backlog' : clients'[m] # backlog'[n]
    BY <2>2, <2>3, <2>4 DEF Distinct
  <2> QED  BY <2>5, <2>6, <2>7 DEF Distinct
<1> QED  BY <1>2, <1>3

LEMMA DistinctStep ==
  ASSUME TypeOK, Distinct, [Next]_vars
  PROVE  Distinct'
<1>1. CASE Peer
  BY <1>1, DistinctPeer
<1>2. CASE AcceptConnection
  BY <1>2, DistinctAccept
<1>3. CASE AcceptError \/ RecvBadRequest \/ SqlConnectFails \/ Kill
  BY <1>3 DEF AcceptError, RecvBadRequest, SqlConnectFails, Kill, LoopGone, Distinct
<1>4. CASE \/ SelectConnection \/ ScanNext \/ RecvRequest \/ RecvEnd \/ RecvFails
           \/ SqlConnect \/ CarryOut \/ Send \/ Start \/ UNCHANGED vars
  <2>1. UNCHANGED <<clients, backlog>>
    BY <1>4
    DEF SelectConnection, ScanNext, RecvRequest, RecvEnd, RecvFails, SqlConnect,
        CarryOut, Store, Send, Start, loopVars, vars
  <2> QED  BY <2>1 DEF Distinct
<1> QED  BY <1>1, <1>2, <1>3, <1>4 DEF Next, TCP_Run

\* The chat server never takes back what it sent or how it ended.
LEMMA PeerKeepsPending ==
  ASSUME TypeOK, Peer, NEW k \in 1..link, Pending(k)
  PROVE  Pending(k)'
<1>1. /\ LinkTypeOK /\ link \in Nat /\ k \in Link /\ k # link + 1
  BY ServiceAssumption DEF TypeOK, LinkTypeOK, Link
<1>2. toAuth \in [Link -> Seq(Request)] /\ sock \in [Link -> SockState] /\ link \in Link
  BY <1>1 DEF LinkTypeOK
<1>3. CASE PeerSend
  <2>1. \/ sock' = sock
        \/ sock' = [sock EXCEPT ![link] = "rst"] /\ sock[link] \in {"fin", "rst"}
    BY <1>3 DEF PeerSend
  <2>2. sock[k] \in {"closed", "reset"} => sock'[k] \in {"closed", "reset"}
    BY <1>1, <1>2, <2>1
  <2>3. ASSUME toAuth[k] # <<>> PROVE toAuth'[k] # <<>>
    <3>1. CASE toAuth' = toAuth
      BY <2>3, <3>1
    <3>2. CASE toAuth' # toAuth
      <4>1. toAuth[link] = <<>>
        BY <1>3, <3>2 DEF PeerSend
      <4>2. k # link
        BY <2>3, <4>1
      <4> QED  BY <1>1, <1>2, <1>3, <2>3, <4>2 DEF PeerSend
    <3> QED  BY <3>1, <3>2
  <2> QED  BY <2>2, <2>3 DEF Pending
<1>4. CASE PeerReceive
  BY <1>4 DEF PeerReceive, Pending
<1>5. CASE PeerEnd
  BY <1>1, <1>2, <1>5 DEF PeerEnd, Pending
<1>6. CASE PeerStart
  BY <1>1, <1>2, <1>6 DEF PeerStart, Pending
<1> QED  BY <1>3, <1>4, <1>5, <1>6 DEF Peer, PeerStep

LEMMA StillTherePoll ==
  ASSUME TypeOK, StillThere, SelectConnection \/ AcceptConnection \/ ScanNext \/ RecvEnd
  PROVE  StillThere'
<1>0. UNCHANGED <<sock, toAuth, auth>> /\ auth = "up"
  BY DEF SelectConnection, AcceptConnection, ScanNext, RecvEnd, Runs, linkVars
<1>1. CASE SelectConnection
  BY <1>0, <1>1 DEF SelectConnection, Runs, Pending, StillThere, Busy
<1>2. CASE AcceptConnection
  <2>1. \A k \in ready : Pending(k)
    BY <1>0, <1>2 DEF AcceptConnection, Runs, StillThere
  <2> QED  BY <1>0, <1>2, <2>1 DEF AcceptConnection, Runs, Pending, StillThere, Busy
<1>3. CASE ScanNext
  <2>1. i \in Nat
    BY DEF TypeOK, LoopTypeOK
  <2>2. UNCHANGED <<clients, ready>> /\ pc = "scan"
    BY <1>3 DEF ScanNext, Runs
  <2>3. /\ pc' \in {"scan", "poll", "recv"}
        /\ i' = i \/ i' = i - 1
        /\ pc' = "recv" => i' = i /\ IsReady(clients[i])
    BY <1>3 DEF ScanNext, Runs
  <2>4. i' <= i
    BY <2>1, <2>3
  <2>5. \A n \in 1..i' : n \in 1..i
    BY <2>1, <2>3, <2>4
  <2> QED  BY <1>0, <2>2, <2>3, <2>5 DEF IsReady, Pending, StillThere, Busy
<1>4. CASE RecvEnd
  <2>1. i \in Nat /\ i > 0
    BY <1>4 DEF TypeOK, LoopTypeOK, RecvEnd, Runs
  <2>2. UNCHANGED <<clients, ready>> /\ pc = "recv" /\ pc' = "scan" /\ i' = i - 1
    BY <1>4 DEF RecvEnd, Runs
  <2>3. \A n \in 1..i' : n \in 1..i
    BY <2>1, <2>2
  <2> QED  BY <1>0, <2>2, <2>3 DEF Pending, StillThere, Busy
<1> QED  BY <1>1, <1>2, <1>3, <1>4

\* Taking a request from one connection leaves the others as they are.
LEMMA StillThereRecv ==
  ASSUME TypeOK, Distinct, StillThere, RecvRequest
  PROVE  StillThere'
<1>1. /\ i \in 1..Len(clients) /\ DOMAIN clients = 1..Len(clients)
      /\ LinkTypeOK /\ LoopTypeOK /\ Len(clients) \in Nat
  BY DEF TypeOK, LoopTypeOK, RecvRequest, Runs
<1>2. /\ UNCHANGED <<clients, ready, i, sock, auth>>
      /\ pc = "recv" /\ pc' = "connect" /\ auth = "up"
      /\ toAuth' = [toAuth EXCEPT ![clients[i]] = Tail(@)]
  BY DEF RecvRequest, Runs
<1>3. \A n \in 1..(i - 1) : n \in DOMAIN clients /\ n # i /\ n \in 1..i
  BY <1>1
<1>4. \A n \in 1..(i - 1) : clients[n] # clients[i]
  BY <1>1, <1>3 DEF Distinct
<1>5. \A n \in 1..(i - 1) : clients[n] \in Link
  BY <1>1, <1>3, ClientsAreLinks
<1>6. \A n \in 1..(i - 1) : toAuth'[clients[n]] = toAuth[clients[n]]
  BY <1>1, <1>2, <1>4, <1>5 DEF LinkTypeOK
<1> QED  BY <1>2, <1>3, <1>6 DEF StillThere, Pending, Busy

LEMMA StillThereBusy ==
  ASSUME TypeOK, StillThere, SqlConnect \/ CarryOut \/ Send
  PROVE  StillThere'
<1>1. UNCHANGED <<clients, ready, toAuth, auth>> /\ pc \in Busy /\ auth = "up"
  BY DEF SqlConnect, CarryOut, Store, Send, Runs, linkVars, Busy
<1>2. \A k \in Link : Pending(k) => Pending(k)'
  BY <1>1 DEF SqlConnect, CarryOut, Store, Send, SendAnswer, Runs, linkVars, Pending,
              TypeOK, LinkTypeOK
<1>3. /\ i \in 1..Len(clients) /\ Len(clients) \in Nat
      /\ \A n \in 1..(i - 1) : clients[n] \in Link
  <2>1. Len(clients) \in Nat /\ i \in 1..Len(clients)
    BY <1>1 DEF TypeOK, LoopTypeOK
  <2>2. \A n \in 1..(i - 1) : n \in 1..Len(clients)
    BY <2>1
  <2> QED  BY <2>1, <2>2, ClientsAreLinks DEF TypeOK
<1>4. CASE SqlConnect \/ CarryOut
  <2>1. pc' \in Busy /\ i' = i
    BY <1>4 DEF SqlConnect, CarryOut, Store, Runs, Busy
  <2> QED  BY <1>1, <1>2, <1>3, <2>1 DEF StillThere, Busy
<1>5. CASE Send
  <2>1. pc' = "scan" /\ i' = i - 1
    BY <1>5 DEF Send, Runs
  <2> QED  BY <1>1, <1>2, <1>3, <2>1 DEF StillThere, Busy
<1> QED  BY <1>4, <1>5

LEMMA StillThereStep ==
  ASSUME TypeOK, Distinct, StillThere, [Next]_vars
  PROVE  StillThere'
<1>1. CASE SelectConnection \/ AcceptConnection \/ ScanNext \/ RecvEnd
  BY <1>1, StillTherePoll
<1>2. CASE RecvRequest
  BY <1>2, StillThereRecv
<1>3. CASE SqlConnect \/ CarryOut \/ Send
  BY <1>3, StillThereBusy
<1>4. CASE AcceptError \/ RecvBadRequest \/ SqlConnectFails \/ Kill
  <2>1. pc' = "poll" /\ auth' = "down"
    BY <1>4
    DEF AcceptError, AuthAcceptError, RecvBadRequest, AuthExit, SqlConnectFails,
        Kill, AuthKill, AuthGone, LoopGone
  <2> QED  BY <2>1 DEF StillThere, Busy
<1>5. CASE RecvFails
  BY <1>5 DEF RecvFails, AuthStuck, StillThere
<1>6. CASE Start
  BY <1>6 DEF Start, AuthStart, loopVars, StillThere, Busy
<1>7. CASE UNCHANGED vars
  BY <1>7 DEF vars, serviceVars, linkVars, loopVars, StillThere, Pending, Busy
<1>8. CASE Peer
  <2>1. UNCHANGED <<pc, clients, ready, i, auth>>
    BY <1>8 DEF Peer, PeerStep, PeerSend, PeerReceive, PeerEnd, PeerStart
  <2>2. Len(clients) \in Nat /\ ready \subseteq 1..link /\ i \in 0..Len(clients)
    BY DEF TypeOK, LoopTypeOK
  <2>3. \A k \in 1..link : Pending(k) => Pending(k)'
    BY <1>8, PeerKeepsPending
  <2>4. \A n \in 1..i : clients[n] \in 1..link
    BY <2>2, ClientsAreLinks DEF TypeOK
  <2>5. \A n \in 1..(i - 1) : n \in 1..i
    BY <2>2
  <2> QED  BY <2>1, <2>2, <2>3, <2>4, <2>5 DEF StillThere
<1> QED  BY <1>1, <1>2, <1>3, <1>4, <1>5, <1>6, <1>7, <1>8 DEF Next, TCP_Run

\* The only thread of the authentication server calls recv on a connection only
\* when there is something to read or its end to notice, for any number of
\* connections and any steps of the chat server since select looked.
THEOREM RecvNeverBlocksHolds == Spec => []RecvNeverBlocks
<1>1. Init => Distinct /\ StillThere
  BY DEF Init, LoopInit, Distinct, StillThere, Busy
<1>2. TypeOK /\ StillThere => RecvNeverBlocks
  BY DEF TypeOK, LoopTypeOK, StillThere, RecvNeverBlocks
<1> QED  BY <1>1, <1>2, DistinctStep, StillThereStep, TypeCorrect, PTL DEF Spec

-----------------------------------------------------------------------------
(* The answers are those AuthService allows.                               *)

\* Request ids are within the bound, and so are the user ids taken from them.
IdsBounded ==
  /\ history <= MaxRequests
  /\ \A k \in Link : \A n \in DOMAIN toAuth[k] : toAuth[k][n].id <= MaxRequests
  /\ pc \in Busy => reqMSG.id <= MaxRequests
  /\ \A r \in webAuth : r.userId \in UserId

\* What the object of cMySQL holds when Disconnect is over is an answer to the
\* request in hand.
AnswerReady ==
  /\ pc = "create" => reqMSG.cmd = "CREATEACCOUNT"
  /\ pc = "login" => reqMSG.cmd = "LOGIN"
  /\ pc = "profile" => reqMSG.cmd = "CREATEACCOUNT" /\ uID = reqMSG.id
  /\ pc \in {"disconnect", "send"} /\ sqlStatus = "SUCCESS" =>
       IF reqMSG.cmd = "LOGIN" THEN uID \in UserId ELSE uID = reqMSG.id

LEMMA InitBounded == Init => IdsBounded /\ AnswerReady
<1> SUFFICES ASSUME Init PROVE IdsBounded /\ AnswerReady
  OBVIOUS
<1>1. /\ webAuth = {} /\ pc = "poll" /\ history = 0 /\ MaxRequests \in Nat
      /\ toAuth = [k \in Link |-> <<>>]
  BY AuthServerAssumption DEF Init, StoreInit, LoopInit, ServiceInit, LinkInit
<1>2. \A k \in Link : toAuth[k] = <<>>
  BY <1>1
<1> QED  BY <1>1, <1>2 DEF IdsBounded, AnswerReady, Busy

LEMMA BoundedPeer ==
  ASSUME TypeOK, IdsBounded, Peer
  PROVE  IdsBounded'
<1>1. /\ LinkTypeOK /\ history \in Nat /\ MaxRequests \in Nat /\ link \in Link
      /\ toAuth \in [Link -> Seq(Request)]
  BY AuthServerAssumption DEF TypeOK, LinkTypeOK
<1>2. UNCHANGED <<pc, reqMSG, webAuth>> /\ history' <= MaxRequests
  BY DEF Peer, storeVars, tables
<1>3. CASE toAuth' = toAuth
  BY <1>2, <1>3 DEF IdsBounded
<1>4. CASE toAuth' # toAuth
  <2>1. PICK cmd \in Cmd, cred \in Cred \cup {NoCred} :
          /\ toAuth[link] = <<>>
          /\ toAuth' = [toAuth EXCEPT ![link] =
                          Append(@, [cmd |-> cmd, id |-> history + 1, cred |-> cred])]
          /\ history' = history + 1
    BY <1>4 DEF Peer, PeerStep, PeerSend, PeerReceive, PeerEnd, PeerStart
  <2> DEFINE q == [cmd |-> cmd, id |-> history + 1, cred |-> cred]
  <2>2. q.id <= MaxRequests
    BY <1>2, <2>1
  <2>3. toAuth'[link] = Append(<<>>, q)
    BY <1>1, <2>1
  <2> HIDE DEF q
  <2>4. toAuth'[link] = <<q>>
    BY <2>3
  <2>5. \A k \in Link : k # link => toAuth'[k] = toAuth[k]
    BY <1>1, <2>1
  <2>6. \A k \in Link : \A n \in DOMAIN toAuth'[k] : toAuth'[k][n].id <= MaxRequests
    BY <2>2, <2>4, <2>5 DEF IdsBounded
  <2> QED  BY <1>2, <2>6 DEF IdsBounded
<1> QED  BY <1>3, <1>4

LEMMA BoundedStep ==
  ASSUME TypeOK, IdsBounded, [Next]_vars
  PROVE  IdsBounded'
<1>0. /\ LinkTypeOK /\ LoopTypeOK /\ toAuth \in [Link -> Seq(Request)]
      /\ MaxRequests \in Nat
  BY AuthServerAssumption DEF TypeOK, LinkTypeOK
<1>1. CASE Peer
  BY <1>1, BoundedPeer
<1>2. CASE RecvRequest
  <2> DEFINE k == clients[i]
  <2>1. k \in Link /\ toAuth[k] # <<>> /\ toAuth[k] \in Seq(Request)
    BY <1>0, <1>2, ClientIsLink DEF RecvRequest, Runs, LoopTypeOK
  <2>2. /\ UNCHANGED <<webAuth, history>>
        /\ reqMSG' = Head(toAuth[k])
        /\ toAuth' = [toAuth EXCEPT ![k] = Tail(@)]
    BY <1>2 DEF RecvRequest, Runs, storeVars, tables
  <2>3. Head(toAuth[k]) = toAuth[k][1] /\ 1 \in DOMAIN toAuth[k]
    BY <2>1
  <2>4. \A n \in DOMAIN Tail(toAuth[k]) :
          n + 1 \in DOMAIN toAuth[k] /\ Tail(toAuth[k])[n] = toAuth[k][n + 1]
    BY <2>1
  <2>5. \A j \in Link : \A n \in DOMAIN toAuth'[j] : toAuth'[j][n].id <= MaxRequests
    <3> SUFFICES ASSUME NEW j \in Link, NEW n \in DOMAIN toAuth'[j]
                 PROVE  toAuth'[j][n].id <= MaxRequests
      OBVIOUS
    <3>1. CASE j = k
      BY <1>0, <2>1, <2>2, <2>4, <3>1 DEF IdsBounded
    <3>2. CASE j # k
      BY <1>0, <2>2, <3>2 DEF IdsBounded
    <3> QED  BY <3>1, <3>2
  <2>6. reqMSG'.id <= MaxRequests
    BY <2>1, <2>2, <2>3 DEF IdsBounded
  <2> QED  BY <2>2, <2>5, <2>6 DEF IdsBounded
<1>3. CASE AcceptError \/ RecvBadRequest \/ SqlConnectFails \/ Kill
  <2>1. /\ UNCHANGED <<history, webAuth>> /\ pc' = "poll"
        /\ toAuth' = [j \in Link |-> <<>>]
    BY <1>3
    DEF AcceptError, AuthAcceptError, RecvBadRequest, AuthExit, SqlConnectFails,
        Kill, AuthKill, AuthGone, LoopGone, storeVars, tables
  <2>2. \A k \in Link : toAuth'[k] = <<>>
    BY <2>1
  <2> QED  BY <2>1, <2>2 DEF IdsBounded, Busy
<1>4. CASE Store("create", "profile", InsertWebAuth(reqMSG))
  <2>1. UNCHANGED <<history, toAuth, reqMSG>> /\ pc = "create"
    BY <1>4 DEF Store, Runs, linkVars
  <2>2. reqMSG.id \in 1..MaxRequests
    BY <1>0, <2>1 DEF IdsBounded, LoopTypeOK, Busy, Request
  <2>3. \A r \in webAuth' : r.userId \in UserId
    <3> DEFINE new == [email |-> reqMSG.cred[1], passwd |-> reqMSG.cred[2],
                       userId |-> reqMSG.id]
    <3>1. webAuth' = webAuth \cup {new} \/ webAuth' = webAuth
      BY <1>4 DEF Store, InsertWebAuth
    <3>2. new.userId \in UserId
      BY <2>2, AuthServerAssumption
    <3> HIDE DEF new
    <3> QED  BY <3>1, <3>2 DEF IdsBounded
  <2> QED  BY <2>1, <2>3 DEF IdsBounded, Busy
<1>5. CASE /\ \/ SelectConnection \/ AcceptConnection \/ ScanNext \/ RecvEnd \/ RecvFails
              \/ SqlConnect \/ CarryOut \/ Send \/ Start \/ UNCHANGED vars
           /\ ~Store("create", "profile", InsertWebAuth(reqMSG))
  <2>1. /\ UNCHANGED <<history, toAuth, webAuth>>
        /\ pc' \in Busy => pc \in Busy /\ reqMSG' = reqMSG
    BY <1>5
    DEF SelectConnection, AcceptConnection, ScanNext, RecvEnd, RecvFails, AuthStuck,
        SqlConnect, CarryOut, Store, PrepareFails, InsertUser, UserAuthen,
        SqlDisconnect, Send, Start, AuthStart, Runs, linkVars, storeVars, tables,
        loopVars, vars, serviceVars, Busy
  <2> QED  BY <2>1 DEF IdsBounded
<1> QED  BY <1>1, <1>2, <1>3, <1>4, <1>5 DEF Next, TCP_Run

LEMMA ReadyStep ==
  ASSUME TypeOK, IdsBounded, AnswerReady, [Next]_vars
  PROVE  AnswerReady'
<1>1. CASE pc' \notin {"create", "login", "profile", "disconnect", "send"}
  BY <1>1 DEF AnswerReady
<1>2. CASE SqlConnect
  <2>1. pc = "connect" /\ reqMSG' = reqMSG /\ reqMSG.cmd \in Cmd
    BY <1>2 DEF SqlConnect, Runs, TypeOK, LoopTypeOK, Busy, Request
  <2> QED  BY <1>2, <2>1 DEF SqlConnect, Runs, AnswerReady, Cmd
<1>3. CASE Store("create", "disconnect", PrepareFails)
  BY <1>3 DEF Store, Runs, PrepareFails, AnswerReady
<1>4. CASE Store("create", "profile", InsertWebAuth(reqMSG))
  BY <1>4 DEF Store, Runs, InsertWebAuth, AnswerReady
<1>5. CASE Store("profile", "disconnect", InsertUser(reqMSG))
  BY <1>5 DEF Store, Runs, InsertUser, AnswerReady
<1>6. CASE Store("login", "disconnect", UserAuthen(reqMSG))
  <2>1. sqlStatus' = "SUCCESS" => uID' \in UserId
    BY <1>6 DEF Store, UserAuthen, AccountOf, IdsBounded
  <2> QED  BY <1>6, <2>1 DEF Store, Runs, AnswerReady
<1>7. CASE Store("disconnect", "send", SqlDisconnect)
  BY <1>7 DEF Store, Runs, SqlDisconnect, AnswerReady
<1>8. CASE RecvFails \/ Start \/ Peer \/ UNCHANGED vars
  <2>1. UNCHANGED <<pc, reqMSG, sqlStatus, uID>>
    BY <1>8 DEF RecvFails, Start, Peer, vars, storeVars, loopVars
  <2> QED  BY <2>1 DEF AnswerReady
<1>9. CASE \/ SelectConnection \/ AcceptConnection \/ AcceptError \/ ScanNext
           \/ RecvRequest \/ RecvBadRequest \/ RecvEnd \/ SqlConnectFails
           \/ Send \/ Kill
  <2>1. pc' \notin {"create", "login", "profile", "disconnect", "send"}
    BY <1>9
    DEF SelectConnection, AcceptConnection, AcceptError, ScanNext, RecvRequest,
        RecvBadRequest, RecvEnd, SqlConnectFails, Send, Kill, LoopGone, Runs
  <2> QED  BY <1>1, <2>1
<1> QED  BY <1>2, <1>3, <1>4, <1>5, <1>6, <1>7, <1>8, <1>9 DEF Next, TCP_Run, CarryOut

LEMMA ReplyIsAnswer ==
  ASSUME TypeOK, AnswerReady, pc = "send"
  PROVE  ReplyMSG \in Answers(reqMSG)
<1>1. reqMSG.cmd \in Cmd
  BY DEF TypeOK, LoopTypeOK, Busy, Request
<1>2. reqMSG.cmd = "LOGIN" \/ reqMSG.cmd = "CREATEACCOUNT"
  BY <1>1 DEF Cmd
<1>3. sqlStatus = "SUCCESS" =>
        IF reqMSG.cmd = "LOGIN" THEN uID \in UserId ELSE uID = reqMSG.id
  BY DEF AnswerReady
<1>4. ReplyMSG = [kind |-> ReplyMSG.kind, id |-> reqMSG.id, val |-> ReplyMSG.val]
  BY DEF ReplyMSG
<1>5. /\ INVALID_CREDENTIALS \in AuthReason /\ AuthInternalError \in AuthReason
      /\ ACCOUNT_ALREADY_EXISTS \in CreateReason /\ INVALID_PASSWORD \in CreateReason
      /\ CreateInternalError \in CreateReason
  BY DEF AuthReason, CreateReason, INVALID_CREDENTIALS, AuthInternalError,
         ACCOUNT_ALREADY_EXISTS, INVALID_PASSWORD, CreateInternalError
<1>6. AuthFail # CreateFail /\ ~IsSuccess(AuthFail) /\ ~IsSuccess(CreateFail)
      /\ IsSuccess(AuthSuccess) /\ IsSuccess(CreateDetail)
  BY DEF IsSuccess, AuthSuccess, AuthFail, CreateDetail, CreateFail
<1>7. CASE reqMSG.cmd = "LOGIN" /\ sqlStatus = "SUCCESS"
  BY <1>3, <1>4, <1>6, <1>7 DEF ReplyMSG, Answers
<1>8. CASE reqMSG.cmd = "LOGIN" /\ sqlStatus # "SUCCESS"
  <2>1. ReplyMSG.kind = AuthFail /\ ReplyMSG.val \in AuthReason
    BY <1>5, <1>6, <1>8 DEF ReplyMSG
  <2> QED  BY <1>4, <1>8, <2>1 DEF Answers
<1>9. CASE reqMSG.cmd # "LOGIN" /\ sqlStatus = "SUCCESS"
  BY <1>3, <1>4, <1>6, <1>9 DEF ReplyMSG, Answers
<1>10. CASE reqMSG.cmd # "LOGIN" /\ sqlStatus # "SUCCESS"
  <2>1. ReplyMSG.kind = CreateFail /\ ReplyMSG.val \in CreateReason
    BY <1>5, <1>6, <1>10 DEF ReplyMSG
  <2> QED  BY <1>4, <1>10, <2>1 DEF Answers
<1> QED  BY <1>7, <1>8, <1>9, <1>10

-----------------------------------------------------------------------------
(* Steps.                                                                  *)

\* toAuthOf is toAuth when no request is in hand.
LEMMA NothingInHand ==
  ASSUME TypeOK, pc \notin Busy
  PROVE  toAuthOf = toAuth
BY DEF TypeOK, LinkTypeOK, toAuthOf, InHand

\* The steps that keep the requests under way, taken from the connection or not.
LEMMA KeptOf ==
  ASSUME UNCHANGED <<toAuth, clients, i, reqMSG>>, pc \in Busy <=> pc' \in Busy
  PROVE  toAuthOf' = toAuthOf
BY DEF toAuthOf, InHand

LEMMA GoneOf ==
  ASSUME NEW end, AuthGone(end), LoopGone
  PROVE  Service!AuthGone(end)
<1>1. pc' = "poll" /\ toAuth' = [j \in Link |-> <<>>]
  BY DEF AuthGone, LoopGone
<1>2. toAuthOf' = [j \in Link |-> <<>>]
  BY <1>1 DEF toAuthOf, InHand, Busy
<1> QED  BY <1>2 DEF AuthGone, Service!AuthGone, Link, Service!Link

\* Taking a request in hand is no step of the service.
LEMMA RecvOf ==
  ASSUME TypeOK, RecvRequest
  PROVE  toAuthOf' = toAuthOf
<1> DEFINE k == clients[i]
<1>1. /\ k \in Link /\ toAuth \in [Link -> Seq(Request)]
      /\ pc = "recv" /\ pc' = "connect" /\ UNCHANGED <<clients, i>>
  BY ClientIsLink DEF TypeOK, LinkTypeOK, LoopTypeOK, RecvRequest, Runs
<1>2. /\ toAuth[k] # <<>> /\ reqMSG' = Head(toAuth[k])
      /\ toAuth' = [toAuth EXCEPT ![k] = Tail(@)]
  BY DEF RecvRequest
<1>3. <<Head(toAuth[k])>> \o Tail(toAuth[k]) = toAuth[k]
  BY <1>1, <1>2
<1>4. toAuthOf = [j \in Link |-> toAuth[j]]
  BY <1>1 DEF toAuthOf, InHand, Busy
<1>5. toAuthOf' = [j \in Link |-> IF j = k THEN <<reqMSG'>> \o toAuth'[j] ELSE toAuth'[j]]
  BY <1>1 DEF toAuthOf, InHand, Busy
<1>6. ASSUME NEW j \in Link
      PROVE  toAuth[j] = IF j = k THEN <<reqMSG'>> \o toAuth'[j] ELSE toAuth'[j]
  BY <1>1, <1>2, <1>3
<1> QED  BY <1>4, <1>5, <1>6

\* The answer is sent: the service takes the request and answers it.
LEMMA SendOf ==
  ASSUME TypeOK, AnswerReady, Send
  PROVE  Service!AuthServe(clients[i])
<1> DEFINE k == clients[i]
<1>1. /\ k \in Link /\ toAuth \in [Link -> Seq(Request)]
      /\ pc = "send" /\ pc' = "scan" /\ toAuth' = toAuth /\ auth = "up"
      /\ UNCHANGED <<link, auth>>
  BY ClientIsLink DEF TypeOK, LinkTypeOK, LoopTypeOK, Send, Runs, Busy
<1>2. reqMSG \in Request /\ reqMSG.cred # NoCred
  BY <1>1 DEF TypeOK, LoopTypeOK, Busy
<1>3. toAuthOf = [j \in Link |-> IF j = k THEN <<reqMSG>> \o toAuth[j] ELSE toAuth[j]]
  BY <1>1 DEF toAuthOf, InHand, Busy
<1>4. toAuthOf[k] = <<reqMSG>> \o toAuth[k]
  BY <1>1, <1>3
<1>5. toAuthOf[k] # <<>> /\ Head(toAuthOf[k]) = reqMSG /\ Tail(toAuthOf[k]) = toAuth[k]
  <2>1. toAuth[k] \in Seq(Request) /\ <<reqMSG>> \in Seq(Request)
    BY <1>1, <1>2
  <2> QED  BY <1>2, <1>4, <2>1
<1>6. toAuthOf' = [toAuthOf EXCEPT ![k] = Tail(@)]
  <2>1. toAuthOf' = [j \in Link |-> toAuth[j]]
    BY <1>1 DEF toAuthOf, InHand, Busy
  <2>2. [toAuthOf EXCEPT ![k] = Tail(@)]
          = [j \in Link |-> IF j = k THEN Tail(toAuthOf[k]) ELSE toAuthOf[j]]
    BY <1>1, <1>3
  <2>3. ASSUME NEW j \in Link
        PROVE  toAuth[j] = IF j = k THEN Tail(toAuthOf[k]) ELSE toAuthOf[j]
    BY <1>3, <1>5
  <2> QED  BY <2>1, <2>2, <2>3
<1>7. Service!Readable(reqMSG, "clean")
  BY <1>2 DEF Service!Readable
<1>8. ReplyMSG \in Service!Answers(reqMSG)
  <2>1. ReplyMSG \in Answers(reqMSG)
    BY <1>1, ReplyIsAnswer
  <2> QED
    BY <2>1
    DEF Answers, Service!Answers, AuthSuccess, Service!AuthSuccess, AuthFail,
        Service!AuthFail, CreateDetail, Service!CreateDetail, CreateFail,
        Service!CreateFail, AuthReason, Service!AuthReason, CreateReason,
        Service!CreateReason, INVALID_CREDENTIALS, Service!INVALID_CREDENTIALS,
        AuthInternalError, Service!AuthInternalError, ACCOUNT_ALREADY_EXISTS,
        Service!ACCOUNT_ALREADY_EXISTS, CreateInternalError,
        Service!CreateInternalError
<1>9. Service!SendAnswer(k, reqMSG, ReplyMSG)
  BY DEF Send, SendAnswer, Service!SendAnswer, IsSuccess, Service!IsSuccess,
         AuthSuccess, Service!AuthSuccess, CreateDetail, Service!CreateDetail
<1>10. \E r \in Service!Answers(reqMSG) : Service!SendAnswer(k, reqMSG, r)
  BY <1>8, <1>9
<1> QED  BY <1>1, <1>5, <1>6, <1>7, <1>10 DEF Service!AuthServe

\* The peer does the same to the service: it asks again only when its request
\* is not in hand.
LEMMA PeerOf ==
  ASSUME TypeOK, Peer
  PROVE  Service!PeerStep
<1>1. /\ toAuth \in [Link -> Seq(Request)] /\ link \in Link
      /\ UNCHANGED <<pc, clients, i, reqMSG>> /\ history \in Nat
  BY DEF TypeOK, LinkTypeOK, Peer
<1>2. ASSUME toAuth' = toAuth PROVE toAuthOf' = toAuthOf
  BY <1>1, <1>2 DEF toAuthOf, InHand
<1>3. CASE PeerReceive \/ PeerEnd \/ PeerStart
  <2>1. toAuthOf' = toAuthOf
    BY <1>2, <1>3 DEF PeerReceive, PeerEnd, PeerStart
  <2> QED
    BY <1>3, <2>1
    DEF PeerReceive, PeerEnd, PeerStart, Service!PeerReceive, Service!PeerEnd,
        Service!PeerStart, Service!PeerStep
<1>4. CASE PeerSend /\ toAuth' = toAuth
  <2>1. toAuthOf' = toAuthOf
    BY <1>2, <1>4
  <2>2. /\ history' = history + 1 /\ sock[link] \in {"fin", "rst"}
        /\ sock' \in {sock, [sock EXCEPT ![link] = "rst"]}
        /\ UNCHANGED <<link, fromAuth, auth, granted>>
    <3>1. ~\E q \in Request : toAuth[link] = <<>> /\ toAuth' = [toAuth EXCEPT ![link] = Append(@, q)]
      <4> SUFFICES ASSUME NEW q \in Request, toAuth[link] = <<>>,
                          toAuth' = [toAuth EXCEPT ![link] = Append(@, q)]
                   PROVE  FALSE
        OBVIOUS
      <4>1. toAuth'[link] = Append(<<>>, q)
        BY <1>1
      <4> QED  BY <1>4, <4>1
    <3>2. \A cmd \in Cmd, cred \in Cred \cup {NoCred} :
            [cmd |-> cmd, id |-> history + 1, cred |-> cred] \in Request
      BY <1>1 DEF Request
    <3> QED  BY <1>4, <3>1, <3>2 DEF PeerSend
  <2> QED  BY <2>1, <2>2 DEF Service!PeerSend, Service!PeerStep
<1>5. CASE PeerSend /\ toAuth' # toAuth
  <2>1. /\ history' = history + 1 /\ sock[link] = "up" /\ sock' = sock
        /\ toAuth[link] = <<>> /\ fromAuth[link] = <<>>
        /\ UNCHANGED <<link, fromAuth, auth, granted>>
    BY <1>5 DEF PeerSend
  <2>2. ~InHand(link)
    BY <1>1, <2>1 DEF Peer
  <2>3. toAuthOf[link] = <<>>
    BY <1>1, <2>1, <2>2 DEF toAuthOf
  <2>4. PICK cmd \in Cmd, cred \in Cred \cup {NoCred} :
          toAuth' = [toAuth EXCEPT ![link] =
                       Append(@, [cmd |-> cmd, id |-> history + 1, cred |-> cred])]
    BY <1>5 DEF PeerSend
  <2> DEFINE q == [cmd |-> cmd, id |-> history + 1, cred |-> cred]
  <2>5. toAuthOf' = [toAuthOf EXCEPT ![link] = Append(@, q)]
    <3> HIDE DEF q
    <3>1. \A j : InHand(j)' <=> InHand(j)
      BY <1>1 DEF InHand
    <3>2. toAuthOf' = [j \in Link |-> IF InHand(j) THEN <<reqMSG>> \o toAuth'[j] ELSE toAuth'[j]]
      BY <1>1, <3>1 DEF toAuthOf, InHand
    <3>3. toAuth' = [toAuth EXCEPT ![link] = Append(@, q)]
      BY <2>4 DEF q
    <3>4. toAuth'[link] = Append(toAuthOf[link], q)
      BY <1>1, <2>1, <2>3, <3>3
    <3>5. \A j \in Link : j # link => toAuth'[j] = toAuth[j]
      BY <1>1, <3>3
    <3>6. [toAuthOf EXCEPT ![link] = Append(@, q)]
            = [j \in Link |-> IF j = link THEN Append(toAuthOf[link], q) ELSE toAuthOf[j]]
      BY <1>1 DEF toAuthOf
    <3>7. ASSUME NEW j \in Link
          PROVE  (IF InHand(j) THEN <<reqMSG>> \o toAuth'[j] ELSE toAuth'[j])
                   = IF j = link THEN Append(toAuthOf[link], q) ELSE toAuthOf[j]
      BY <2>2, <3>4, <3>5 DEF toAuthOf
    <3> QED  BY <3>2, <3>6, <3>7
  <2> QED
    BY <2>1, <2>3, <2>4, <2>5
    DEF Service!PeerSend, Service!PeerStep, Cmd, Service!Cmd
<1> QED  BY <1>3, <1>4, <1>5 DEF Peer, PeerStep

\* What the authentication server does is what the service does, or nothing.
LEMMA ServiceAuthStep ==
  ASSUME TypeOK, AnswerReady, TCP_Run \/ Kill \/ Start
  PROVE  \/ Service!AuthStep /\ UNCHANGED history
         \/ UNCHANGED Service!serviceVars
<1> USE DEF Service!serviceVars, Service!linkVars
<1>0. link \in Link /\ \A n \in 1..Len(clients) : clients[n] \in Link
  BY ClientsAreLinks DEF TypeOK, LinkTypeOK
<1>1. CASE \/ SelectConnection \/ AcceptConnection \/ ScanNext \/ RecvEnd
  <2>1. UNCHANGED <<serviceVars, toAuth>> /\ pc \notin Busy /\ pc' \notin Busy
    BY <1>1
    DEF SelectConnection, AcceptConnection, ScanNext, RecvEnd, Runs, Busy,
        serviceVars, linkVars
  <2>2. toAuthOf' = toAuthOf
    BY <2>1 DEF toAuthOf, InHand
  <2> QED  BY <2>1, <2>2 DEF serviceVars, linkVars
<1>2. CASE RecvRequest
  <2>1. toAuthOf' = toAuthOf
    BY <1>2, RecvOf
  <2> QED  BY <1>2, <2>1 DEF RecvRequest, Runs
<1>3. CASE SqlConnect \/ CarryOut
  <2>1. UNCHANGED <<serviceVars, clients, i, reqMSG>> /\ pc \in Busy /\ pc' \in Busy
    BY <1>3 DEF SqlConnect, CarryOut, Store, Runs, Busy, serviceVars, linkVars
  <2>2. toAuthOf' = toAuthOf
    BY <2>1, KeptOf DEF serviceVars, linkVars
  <2> QED  BY <2>1, <2>2 DEF serviceVars, linkVars
<1>4. CASE Send
  <2>1. Service!AuthServe(clients[i]) /\ UNCHANGED history
    BY <1>4, SendOf DEF Send, Runs
  <2>2. clients[i] \in Link
    BY <1>0, <1>4 DEF Send, Runs, TypeOK, LoopTypeOK, Busy
  <2> QED  BY <2>1, <2>2 DEF Service!AuthStep, Link, Service!Link
<1>5. CASE AcceptError
  <2>1. PICK k \in Link : AuthAcceptError(k)
    <3> DEFINE S == 1..link
    <3>1. backlog \in Seq(S) /\ backlog # <<>>
      BY <1>5 DEF AcceptError, TypeOK, LoopTypeOK
    <3> HIDE DEF S
    <3>2. Head(backlog) \in S
      BY <3>1, HeadTailProperties
    <3>3. Head(backlog) \in Link
      BY <1>0, <3>2, ServiceAssumption DEF S, Link
    <3> QED  BY <1>5, <3>3 DEF AcceptError
  <2>2. Service!AuthAcceptError(k) /\ UNCHANGED history
    BY <1>5, <2>1, GoneOf
    DEF AcceptError, AuthAcceptError, Service!AuthAcceptError, LoopGone
  <2> QED  BY <2>1, <2>2 DEF Service!AuthStep, Link, Service!Link
<1>6. CASE RecvBadRequest
  <2> DEFINE k == clients[i]
  <2>1. k \in Link /\ pc \notin Busy
    BY <1>0, <1>6 DEF RecvBadRequest, TypeOK, LoopTypeOK, Busy
  <2>2. toAuthOf = toAuth
    BY <2>1, NothingInHand
  <2>3. Service!AuthExit(k)
    BY <1>6, <2>2, GoneOf
    DEF RecvBadRequest, AuthExit, Service!AuthExit, Readable, Service!Readable
  <2> QED
    BY <1>6, <2>1, <2>3
    DEF RecvBadRequest, LoopGone, Service!AuthStep, Link, Service!Link
<1>7. CASE RecvFails
  <2>1. clients[i] \in Link /\ AuthStuck(clients[i]) /\ UNCHANGED <<history, loopVars>>
    BY <1>0, <1>7 DEF RecvFails, TypeOK, LoopTypeOK, Busy
  <2>2. toAuthOf' = toAuthOf
    BY <2>1, KeptOf DEF AuthStuck, loopVars
  <2>3. Service!AuthStuck(clients[i])
    BY <2>1, <2>2 DEF AuthStuck, Service!AuthStuck
  <2> QED  BY <2>1, <2>3 DEF Service!AuthStep, Link, Service!Link
<1>8. CASE SqlConnectFails \/ Kill
  <2>1. Service!AuthKill /\ UNCHANGED history
    BY <1>8, GoneOf DEF SqlConnectFails, Kill, AuthKill, Service!AuthKill, LoopGone
  <2> QED  BY <2>1 DEF Service!AuthStep
<1>9. CASE Start
  <2>1. toAuthOf' = toAuthOf
    BY <1>9, KeptOf DEF Start, AuthStart, loopVars
  <2>2. Service!AuthStart /\ UNCHANGED history
    BY <1>9, <2>1 DEF Start, AuthStart, Service!AuthStart, Link, Service!Link
  <2> QED  BY <2>2 DEF Service!AuthStep
<1> QED  BY <1>1, <1>2, <1>3, <1>4, <1>5, <1>6, <1>7, <1>8, <1>9 DEF TCP_Run

LEMMA ServiceStep ==
  ASSUME TypeOK, AnswerReady, [Next]_vars
  PROVE  [Service!ServiceNext]_(Service!serviceVars)
<1>1. CASE TCP_Run \/ Kill \/ Start
  BY <1>1, ServiceAuthStep DEF Service!ServiceNext
<1>2. CASE Peer
  BY <1>2, PeerOf DEF Service!ServiceNext
<1>3. CASE UNCHANGED vars
  <2>1. toAuthOf' = toAuthOf
    BY <1>3, KeptOf DEF vars, serviceVars, linkVars, loopVars
  <2> QED
    BY <1>3, <2>1 DEF vars, serviceVars, linkVars, Service!serviceVars, Service!linkVars
<1> QED  BY <1>1, <1>2, <1>3 DEF Next

\* The authentication server, over any database failures, any deaths of its own
\* and any starts of the chat server, takes the requests of each connection in
\* order and answers each once, with a response of its kind and its id; it ends
\* or stops only for the causes AuthService names.
THEOREM ImplementsAuthServiceHolds == Spec => ImplementsAuthService
<1>1. Init => Service!ServiceInit
  <2> SUFFICES ASSUME Init PROVE Service!ServiceInit
    OBVIOUS
  <2>1. toAuthOf = toAuth
    <3>1. pc = "poll" /\ toAuth = [k \in Link |-> <<>>]
      BY DEF Init, LoopInit, ServiceInit, LinkInit
    <3> QED  BY <3>1 DEF toAuthOf, InHand, Busy
  <2> QED
    BY <2>1 DEF Init, ServiceInit, LinkInit, Service!ServiceInit, Service!LinkInit,
                Link, Service!Link
<1> QED  BY <1>1, InitBounded, TypeCorrect, BoundedStep, ReadyStep, ServiceStep, PTL
         DEF Spec, ImplementsAuthService, Service!ServiceSpec
=============================================================================
