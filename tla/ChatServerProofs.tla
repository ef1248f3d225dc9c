-------------------------- MODULE ChatServerProofs --------------------------
(***************************************************************************)
(* What is proved of ChatServer, for every number of clients and restarts  *)
(* and every failure of the model.  First its types and its one connection *)
(* to AuthServer; then the answers: whose request it relays, and that the  *)
(* user who reads a success was granted one; then its one thread and its   *)
(* vector of clients: it never blocks in a recv, a request without         *)
(* credentials can only be its first, and it relays no more than the       *)
(* clients caused.                                                         *)
(***************************************************************************)
EXTENDS ChatServer, AuthServiceProofs, FiniteSetTheorems

-----------------------------------------------------------------------------
(* Reading messages.                                                       *)

\* Whatever bytes follow a response, the kind ReceiveFromServer finds is its
\* own, but for a createFail, which stale bytes can turn into a createDetail.
LEMMA KindSurvives ==
  ASSUME NEW r \in Response, NEW tail
  PROVE  /\ KindSeen(r, tail) \in Kind
         /\ r.kind # CreateFail \/ tail # "detail" => KindSeen(r, tail) = r.kind
         /\ r.kind = CreateFail => KindSeen(r, tail) \in {CreateDetail, CreateFail}
<1> DEFINE Seen == KindsSeen(r, tail)
<1>1. r.kind \in 1..4
  BY DEF Response, Kind, AuthSuccess, CreateFail
<1>2. CASE Seen = {r.kind}
  <2>1. KindSeen(r, tail) = r.kind
    BY <1>1, <1>2 DEF KindSeen
  <2> QED  BY <1>1, <2>1 DEF Kind, AuthSuccess, CreateDetail, CreateFail
<1>3. CASE tail = "detail" /\ Seen = {r.kind, CreateDetail}
  <2> DEFINE least == IF r.kind <= 3 THEN r.kind ELSE 3
  <2>1. least \in Seen /\ \A j \in Seen : least <= j
    BY <1>1, <1>3 DEF CreateDetail
  <2>2. \A k \in Seen : (\A j \in Seen : k <= j) => k = least
    BY <1>1, <1>3, <2>1 DEF CreateDetail
  <2>3. KindSeen(r, tail) = least
    BY <2>1, <2>2 DEF KindSeen
  <2> QED  BY <1>1, <1>3, <2>3 DEF Kind, AuthSuccess, CreateDetail, CreateFail
<1> QED  BY <1>2, <1>3 DEF KindsSeen

\* The status is one of cTCP_Client::returnStatus.
LEMMA StatusOfType ==
  ASSUME NEW kind, NEW val
  PROVE  StatusOf(kind, val) \in Status
BY DEF StatusOf, Status

\* A stale tag of a createDetail leaves the kind among those that answer the command.
LEMMA KindFits ==
  ASSUME NEW q, q.id \in Nat, NEW r \in Answers(q), NEW tail
  PROVE  KindSeen(r, tail) \in AnswerKinds(q.cmd)
<1>1. r \in Response /\ r.kind \in AnswerKinds(q.cmd)
  BY AnswersFit
<1>2. CASE r.kind # CreateFail
  BY <1>1, <1>2, KindSurvives
<1>3. CASE r.kind = CreateFail
  <2>1. AnswerKinds(q.cmd) = {CreateDetail, CreateFail}
    BY <1>1, <1>3 DEF AnswerKinds, AuthSuccess, AuthFail, CreateFail
  <2> QED  BY <1>1, <1>3, <2>1, KindSurvives
<1> QED  BY <1>2, <1>3

-----------------------------------------------------------------------------
(* Types.                                                                  *)

LEMMA InitTypeOK == Init => TypeOK
<1> SUFFICES ASSUME Init PROVE TypeOK
  OBVIOUS
<1>1. ClientTypeOK
  BY DEF Init, ClientInit, ClientTypeOK, ChatState, NothingSeen, Status
<1>2. ServerTypeOK
  <2>1. action \in Cmd \cup {"OTHER"}
    BY ServerAssumption DEF Init, ServerInit
  <2>2. clients \in Seq(Client) /\ i \in 0..Len(clients)
    BY DEF Init, ServerInit
  <2> QED  BY <2>1, <2>2 DEF Init, ServerInit, ServerTypeOK, PcState, Status
<1>3. LinkTypeOK
  BY LinkInitType DEF Init
<1> QED  BY <1>1, <1>2, <1>3 DEF TypeOK

\* A step of a client disturbs only the client's variables.
LEMMA ClientStepType ==
  ASSUME TypeOK, NEW c \in Client, ClientStep(c),
         UNCHANGED <<serverVars, linkVars>>
  PROVE  TypeOK'
<1> USE DEF ClientTypeOK
<1>0. ClientTypeOK /\ ServerTypeOK /\ LinkTypeOK
  BY DEF TypeOK
<1>1. ClientTypeOK' /\ (backlog # <<>> => backlog' # <<>>)
  <2>1. CASE Connect(c)
    <3>1. backlog \in Seq(Client)
      BY <1>0
    <3>2. Append(backlog, c) \in Seq(Client)
      BY <3>1
    <3>3. Append(backlog, c) # <<>>
      BY <3>1, AppendProperties
    <3> QED  BY <1>0, <2>1, <3>2, <3>3 DEF Connect, ChatState
  <2>2. CASE ConnectRefused(c)
    BY <1>0, <2>2 DEF ConnectRefused, ChatState
  <2>3. CASE SendToServer(c)
    <3>1. PICK cmd \in Cmd, cred \in Typed :
            LET q == [cmd |-> cmd, id |-> 1, cred |-> cred] IN
            /\ req' = [req EXCEPT ![c] = q]
            /\ outbox' = [outbox EXCEPT ![c] = Append(@, q)]
      BY <2>3 DEF SendToServer
    <3> DEFINE q == [cmd |-> cmd, id |-> 1, cred |-> cred]
    <3>2. q \in Request
      BY ClientAssumption DEF Request
    <3> HIDE DEF q
    <3>3. req' \in [Client -> Request \cup {NoReq}]
      BY <1>0, <3>1, <3>2 DEF q
    <3>4. outbox' \in [Client -> Seq(Request)]
      BY <1>0, <3>1, <3>2 DEF q
    <3> QED  BY <1>0, <2>3, <3>3, <3>4 DEF SendToServer, ChatState
  <2>4. CASE ReceiveFromServer(c)
    <3> DEFINE r == Head(inbox[c])
               kind == KindSeen(r, "clean")
    <3>1. r \in Response
      BY <1>0, <2>4 DEF ReceiveFromServer
    <3>2. kind \in Kind /\ StatusOf(kind, ValSeen(r)) \in Status
      BY <3>1, KindSurvives, StatusOfType
    <3>3. seen' \in [Client -> [kind : Kind \cup {0}, status : Status]]
      BY <1>0, <2>4, <3>2 DEF ReceiveFromServer
    <3>4. inbox' \in [Client -> Seq(Response)]
      BY <1>0, <2>4 DEF ReceiveFromServer
    <3> QED  BY <1>0, <2>4, <3>3, <3>4 DEF ReceiveFromServer, ChatState
  <2>5. CASE CloseSocket(c)
    BY <1>0, <2>5 DEF CloseSocket, ChatState
  <2>6. CASE Kill(c)
    BY <1>0, <2>6 DEF Kill, ChatState
  <2> QED  BY <2>1, <2>2, <2>3, <2>4, <2>5, <2>6 DEF ClientStep
<1>2. ServerTypeOK'
  BY <1>0, <1>1 DEF ServerTypeOK, serverVars
<1>3. LinkTypeOK'
  BY <1>0 DEF LinkTypeOK, linkVars
<1> QED  BY <1>1, <1>2, <1>3 DEF TypeOK

\* Unchanged variables keep their types.
LEMMA ClientVarsType == TypeOK /\ UNCHANGED clientVars => ClientTypeOK'
BY DEF TypeOK, ClientTypeOK, clientVars

\* What select and accept do keeps the types.
LEMMA PollType ==
  ASSUME TypeOK, SelectConnection \/ AcceptConnection \/ AcceptError
  PROVE  TypeOK'
<1>0. ClientTypeOK /\ ServerTypeOK /\ LinkTypeOK
  BY DEF TypeOK
<1>1. CASE SelectConnection
  <2>1. Watched \subseteq Client
    BY <1>0 DEF Watched, ConnectedUpTo, ServerTypeOK
  <2>2. ServerTypeOK'
    BY <1>0, <1>1, <2>1 DEF SelectConnection, ServerTypeOK, PcState, clientVars
  <2> QED  BY <1>1, <2>2, ClientVarsType, LinkVarsType DEF SelectConnection, TypeOK
<1>2. CASE AcceptConnection
  <2>1. LinkTypeOK'
    BY <1>0, <1>2, LinkVarsType DEF AcceptConnection
  <2>2. CASE acceptReady
    <3>1. backlog # <<>> /\ backlog \in Seq(Client)
      BY <1>0, <1>2, <2>2 DEF AcceptConnection, ServerTypeOK, ClientTypeOK
    <3>2. Head(backlog) \in Client /\ Tail(backlog) \in Seq(Client)
      BY <3>1
    <3>3. ClientTypeOK'
      BY <1>0, <1>2, <2>2, <3>2 DEF AcceptConnection, ClientTypeOK
    <3>4. clients' \in Seq(Client) /\ i' \in 0..Len(clients')
      <4>1. clients' = Append(clients, Head(backlog)) /\ i' = Len(clients')
        BY <1>2, <2>2 DEF AcceptConnection, ScanStart
      <4>2. clients' \in Seq(Client)
        BY <1>0, <3>2, <4>1 DEF ServerTypeOK
      <4> QED  BY <4>1, <4>2
    <3>5. ServerTypeOK'
      BY <1>0, <1>2, <2>2, <3>2, <3>4 DEF AcceptConnection, ServerTypeOK, PcState
    <3> QED  BY <2>1, <3>3, <3>5 DEF TypeOK
  <2>3. CASE ~acceptReady
    <3>1. ClientTypeOK'
      BY <1>0, <1>2, <2>3 DEF AcceptConnection, ClientTypeOK
    <3>2. clients' \in Seq(Client) /\ i' \in 0..Len(clients')
      BY <1>0, <1>2, <2>3 DEF AcceptConnection, ScanStart, ServerTypeOK
    <3>3. ServerTypeOK'
      BY <1>0, <1>2, <2>3, <3>2 DEF AcceptConnection, ServerTypeOK, PcState
    <3> QED  BY <2>1, <3>1, <3>3 DEF TypeOK
  <2> QED  BY <2>2, <2>3
<1>3. CASE AcceptError
  <2>1. LinkTypeOK'
    BY <1>0, <1>3, LinkVarsType DEF AcceptError
  <2>2. Tail(backlog) \in Seq(Client)
    BY <1>0, <1>3 DEF AcceptError, ServerTypeOK, ClientTypeOK
  <2>3. ClientTypeOK'
    BY <1>0, <1>3, <2>2 DEF AcceptError, ClientTypeOK
  <2>4. i' \in 0..Len(clients)
    BY <1>0, <1>3 DEF AcceptError, ScanStart, ServerTypeOK
  <2>5. ServerTypeOK'
    BY <1>0, <1>3, <2>4 DEF AcceptError, ServerTypeOK, PcState
  <2> QED  BY <2>1, <2>3, <2>5 DEF TypeOK
<1> QED  BY <1>1, <1>2, <1>3

\* The end of the process and its next start keep the types.
LEMMA ProcessType ==
  ASSUME TypeOK, SelectError \/ ServerKill \/ ServerStart
  PROVE  TypeOK'
<1>0. ClientTypeOK /\ ServerTypeOK /\ LinkTypeOK
  BY DEF TypeOK
<1>1. CASE ProcessEnds
  <2>1. ClientTypeOK'
    <3>1. chat' \in [Client -> ChatState]
      BY <1>0, <1>1 DEF ProcessEnds, ClientTypeOK, ChatState
    <3>2. backlog' = <<>>
      BY <1>1 DEF ProcessEnds
    <3>3. backlog' \in Seq(Client)
      BY <3>2
    <3> QED  BY <1>0, <1>1, <3>1, <3>3 DEF ProcessEnds, ClientTypeOK
  <2>2. ServerTypeOK'
    BY <1>0, <1>1 DEF ProcessEnds, ServerTypeOK, PcState
  <2>3. LinkTypeOK'
    BY <1>0, <1>1 DEF ProcessEnds, LinkTypeOK, SockState
  <2> QED  BY <2>1, <2>2, <2>3 DEF TypeOK
<1>2. CASE ServerStart
  <2>1. ClientTypeOK'
    BY <1>0, <1>2 DEF ServerStart, ClientTypeOK
  <2>2. action' \in Cmd \cup {"OTHER"}
    BY <1>2, ServerAssumption DEF ServerStart
  <2>3. clients' \in Seq(Client) /\ i' \in 0..Len(clients')
    BY <1>2 DEF ServerStart
  <2>4. ServerTypeOK'
    BY <1>0, <1>2, <2>2, <2>3 DEF ServerStart, ServerTypeOK, PcState, Status
  <2>5. link \in Nat /\ link + 1 \in Link /\ link' = link + 1
    BY <1>0, <1>2, ServiceAssumption DEF ServerStart, LinkTypeOK, Link
  <2>6. sock' \in [Link -> SockState]
    BY <1>0, <1>2 DEF ServerStart, LinkTypeOK, SockState
  <2>7. \A k \in Link : k > link' =>
          sock'[k] = "none" /\ toAuth'[k] = <<>> /\ fromAuth'[k] = <<>>
    <3> SUFFICES ASSUME NEW k \in Link, k > link'
                 PROVE  sock'[k] = "none" /\ toAuth'[k] = <<>> /\ fromAuth'[k] = <<>>
      OBVIOUS
    <3>1. k > link /\ k # link + 1
      BY <2>5, ServiceAssumption DEF Link
    <3> QED  BY <1>0, <1>2, <2>5, <3>1 DEF ServerStart, LinkTypeOK
  <2>8. LinkTypeOK'
    BY <1>0, <1>2, <2>5, <2>6, <2>7 DEF ServerStart, LinkTypeOK
  <2> QED  BY <2>1, <2>4, <2>8 DEF TypeOK
<1> QED  BY <1>1, <1>2 DEF SelectError, ServerKill

\* What main does with a client keeps the types.
LEMMA ScanType ==
  ASSUME TypeOK, ScanNext \/ ReadFromClient \/ SkipRelay
  PROVE  TypeOK'
<1>0. ClientTypeOK /\ ServerTypeOK /\ LinkTypeOK
  BY DEF TypeOK
<1>1. CASE ScanNext
  <2>1. ServerTypeOK'
    BY <1>0, <1>1 DEF ScanNext, ServerTypeOK, PcState, clientVars
  <2> QED  BY <1>1, <2>1, ClientVarsType, LinkVarsType DEF ScanNext, TypeOK
<1>2. CASE ReadFromClient
  <2>1. LinkTypeOK'
    BY <1>0, <1>2, LinkVarsType DEF ReadFromClient
  <2>2. clients[i] \in Client
    BY <1>0, <1>2 DEF ReadFromClient, ServerTypeOK
  <2>3. CASE ReadRequest(clients[i])
    <3>1. outbox[clients[i]] \in Seq(Request) /\ outbox[clients[i]] # <<>>
      BY <1>0, <2>2, <2>3 DEF ReadRequest, ClientTypeOK
    <3>2. Head(outbox[clients[i]]) \in Request /\ Tail(outbox[clients[i]]) \in Seq(Request)
      BY <3>1
    <3>3. ClientTypeOK'
      BY <1>0, <1>2, <2>3, <3>2 DEF ReadFromClient, ReadRequest, ClientTypeOK
    <3>4. action' \in Cmd \cup {"OTHER"} /\ credential' \in Cred \cup {NoCred}
      <4> DEFINE q == Head(outbox[clients[i]])
      <4>1. q.cmd \in Cmd /\ q.cred \in Cred \cup {NoCred}
        BY <3>2 DEF Request
      <4>2. \/ action' = q.cmd /\ credential' = q.cred
            \/ action' = action /\ credential' = credential
        BY <2>3 DEF ReadRequest
      <4> QED  BY <1>0, <4>1, <4>2 DEF ServerTypeOK
    <3>5. ServerTypeOK'
      BY <1>0, <1>2, <2>3, <3>4 DEF ReadFromClient, ReadRequest, ServerTypeOK, PcState
    <3> QED  BY <2>1, <3>3, <3>5 DEF TypeOK
  <2>4. CASE ReadEnd(clients[i])
    <3>1. ClientTypeOK'
      BY <1>0, <1>2, <2>4 DEF ReadFromClient, ReadEnd, ClientTypeOK
    <3>2. ServerTypeOK'
      BY <1>0, <1>2, <2>4 DEF ReadFromClient, ReadEnd, ServerTypeOK, PcState
    <3> QED  BY <2>1, <3>1, <3>2 DEF TypeOK
  <2> QED  BY <1>2, <2>3, <2>4 DEF ReadFromClient
<1>3. CASE SkipRelay
  <2>1. ServerTypeOK'
    BY <1>0, <1>3 DEF SkipRelay, ServerTypeOK, PcState, clientVars
  <2> QED  BY <1>3, <2>1, ClientVarsType, LinkVarsType DEF SkipRelay, TypeOK
<1> QED  BY <1>1, <1>2, <1>3

\* The request main relays is a request.
LEMMA RelayedType ==
  ASSUME TypeOK, action \in Cmd
  PROVE  /\ [cmd |-> action, id |-> history + 1, cred |-> credential] \in Request
         /\ history > 0 => Relayed \in Request
BY DEF TypeOK, ServerTypeOK, Relayed, Request

\* What main sends to a client is at most one response.
LEMMA ResponseType ==
  ASSUME TypeOK
  PROVE  ResponseToChatClient \in Seq(Response)
<1>1. CASE result = 0
  BY <1>1 DEF ResponseToChatClient
<1>2. CASE result # 0
  <2> DEFINE reason ==
        CASE status = "INVALID_PASS" /\ result = CreateFail -> INVALID_PASSWORD
          [] status = "INTERNAL_SERVER_ERROR" /\ result = CreateFail ->
               CreateInternalError
          [] status = "INTERNAL_SERVER_ERROR" /\ result = AuthFail ->
               AuthInternalError
          [] OTHER -> 0
  <2>1. reason \in Nat
    BY DEF INVALID_PASSWORD, CreateInternalError, AuthInternalError
  <2>2. result \in Kind
    BY <1>2 DEF TypeOK, ServerTypeOK
  <2> HIDE DEF reason
  <2>3. [kind |-> result, id |-> 0, val |-> reason] \in Response
    BY <2>1, <2>2 DEF Response
  <2>4. ResponseToChatClient = <<[kind |-> result, id |-> 0, val |-> reason]>>
    BY <1>2 DEF ResponseToChatClient, reason
  <2> QED  BY <2>3, <2>4
<1> QED  BY <1>1, <1>2

\* Relaying, waiting for the answer and passing it on keeps the types.
LEMMA RelayType ==
  ASSUME TypeOK, Relay \/ Await \/ Reply
  PROVE  TypeOK'
<1>0. ClientTypeOK /\ ServerTypeOK /\ LinkTypeOK
  BY DEF TypeOK
<1>1. CASE Relay
  <2> DEFINE q == [cmd |-> action, id |-> history + 1, cred |-> credential]
  <2>1. q \in Request
    BY <1>1, RelayedType DEF Relay
  <2>2. ClientTypeOK'
    BY <1>1, ClientVarsType DEF Relay
  <2>3. ServerTypeOK'
    BY <1>0, <1>1 DEF Relay, ServerTypeOK, PcState, clientVars
  <2> HIDE DEF q
  <2>4. ASSUME toAuth' = [toAuth EXCEPT ![link] = Append(@, q)],
               UNCHANGED sock
        PROVE  LinkTypeOK'
    <3>1. toAuth' \in [Link -> Seq(Request)]
      BY <1>0, <2>1, <2>4 DEF LinkTypeOK
    <3>2. \A k \in Link : k > link => toAuth'[k] = <<>>
      BY <1>0, <2>4, ServiceAssumption DEF LinkTypeOK, Link
    <3> QED  BY <1>0, <1>1, <2>4, <3>1, <3>2 DEF Relay, LinkTypeOK
  <2>5. ASSUME \/ sock' = [sock EXCEPT ![link] = "rst"]
               \/ UNCHANGED sock,
               UNCHANGED toAuth
        PROVE  LinkTypeOK'
    <3>1. \A k \in Link : k > link => sock'[k] = "none"
      <4>1. \A k \in Link : k > link => k # link
        BY ServerAssumption DEF Link
      <4> QED  BY <1>0, <2>5, <4>1 DEF LinkTypeOK
    <3>2. sock' \in [Link -> SockState]
      BY <1>0, <2>5 DEF LinkTypeOK, SockState
    <3> QED  BY <1>0, <1>1, <2>5, <3>1, <3>2 DEF Relay, LinkTypeOK
  <2>6. LinkTypeOK'
    BY <1>1, <2>4, <2>5 DEF Relay, q
  <2> QED  BY <2>2, <2>3, <2>6 DEF TypeOK
<1>2. CASE Await
  <2>1. ClientTypeOK'
    BY <1>2, ClientVarsType DEF Await
  <2>2. CASE ReceiveAnswer
    <3> DEFINE r == Head(fromAuth[link])
    <3>1. fromAuth[link] \in Seq(Response) /\ fromAuth[link] # <<>>
      BY <1>0, <2>2 DEF ReceiveAnswer, LinkTypeOK
    <3>2. r \in Response /\ Tail(fromAuth[link]) \in Seq(Response)
      BY <3>1
    <3>3. PICK tail : /\ result' = KindSeen(r, tail)
                      /\ status' = StatusOf(KindSeen(r, tail), ValSeen(r))
                      /\ rcvBuff' = r
      BY <2>2 DEF ReceiveAnswer
    <3>4. result' \in Kind /\ status' \in Status
      BY <3>2, <3>3, KindSurvives, StatusOfType
    <3>5. ServerTypeOK'
      <4> HIDE DEF r
      <4> QED  BY <1>0, <1>2, <3>2, <3>3, <3>4
               DEF Await, ServerTypeOK, PcState, clientVars
    <3>6. fromAuth' \in [Link -> Seq(Response)]
      BY <1>0, <2>2, <3>2 DEF ReceiveAnswer, LinkTypeOK
    <3>7. \A k \in Link : k > link => fromAuth'[k] = <<>>
      BY <1>0, <2>2, ServiceAssumption DEF ReceiveAnswer, LinkTypeOK, Link
    <3>8. LinkTypeOK'
      BY <1>0, <1>2, <3>6, <3>7 DEF Await, LinkTypeOK
    <3> QED  BY <2>1, <3>5, <3>8 DEF TypeOK
  <2>3. CASE ReceiveEnd
    <3>1. LinkTypeOK'
      BY <1>0, <1>2, <2>3 DEF Await, ReceiveEnd, LinkTypeOK
    <3>2. result' \in Kind \cup {0} /\ status' \in Status
      <4>1. rcvBuff \in Response => rcvBuff.kind \in Kind
        BY DEF Response
      <4> QED  BY <1>0, <2>3, <4>1, StatusOfType DEF ReceiveEnd, ServerTypeOK
    <3>3. ServerTypeOK'
      BY <1>0, <1>2, <2>3, <3>2 DEF Await, ReceiveEnd, ServerTypeOK, PcState, clientVars
    <3> QED  BY <2>1, <3>1, <3>3 DEF TypeOK
  <2> QED  BY <1>2, <2>2, <2>3 DEF Await
<1>3. CASE Reply
  <2>1. ServerTypeOK'
    BY <1>0, <1>3 DEF Reply, ServerTypeOK, PcState
  <2>2. ResponseToChatClient \in Seq(Response)
    BY ResponseType
  <2>3. ClientTypeOK'
    <3>1. \A c \in Client : inbox[c] \o ResponseToChatClient \in Seq(Response)
      BY <1>0, <2>2 DEF ClientTypeOK
    <3>2. \/ inbox' = [inbox EXCEPT ![clients[i]] =
                         inbox[clients[i]] \o ResponseToChatClient]
          \/ inbox' = inbox
      BY <1>3 DEF Reply
    <3>3. inbox' \in [Client -> Seq(Response)]
      <4>1. inbox \in [Client -> Seq(Response)]
        BY <1>0 DEF ClientTypeOK
      <4>2. clients[i] \in Client
        BY <1>0, <1>3 DEF Reply, ServerTypeOK
      <4>3. inbox[clients[i]] \o ResponseToChatClient \in Seq(Response)
        BY <3>1, <4>2
      <4> QED  BY <3>2, <4>1, <4>3
    <3> QED  BY <1>0, <1>3, <3>3 DEF Reply, ClientTypeOK
  <2>4. LinkTypeOK'
    BY <1>0, <1>3 DEF Reply, LinkTypeOK, ServerTypeOK, linkVars
  <2> QED  BY <2>1, <2>3, <2>4 DEF TypeOK
<1> QED  BY <1>1, <1>2, <1>3

\* The steps of the authentication server keep the types.
LEMMA AuthStepTypeOK ==
  ASSUME TypeOK, AuthStep, UNCHANGED <<clientVars, serverVars>>
  PROVE  TypeOK'
<1>1. ClientTypeOK'
  BY ClientVarsType
<1>2. ServerTypeOK'
  BY DEF TypeOK, ServerTypeOK, serverVars, clientVars
<1>3. LinkTypeOK'
  BY AuthStepType DEF TypeOK
<1> QED  BY <1>1, <1>2, <1>3 DEF TypeOK

LEMMA StepTypeOK == TypeOK /\ [Next]_vars => TypeOK'
<1> SUFFICES ASSUME TypeOK, [Next]_vars PROVE TypeOK'
  OBVIOUS
<1>1. CASE UNCHANGED vars
  <2>1. ClientTypeOK' /\ LinkTypeOK'
    BY <1>1, ClientVarsType, LinkVarsType DEF vars, TypeOK
  <2>2. ServerTypeOK'
    BY <1>1 DEF vars, serverVars, clientVars, TypeOK, ServerTypeOK
  <2> QED  BY <2>1, <2>2 DEF TypeOK
<1>2. CASE \E c \in Client : ClientStep(c) /\ UNCHANGED <<serverVars, linkVars>>
  BY <1>2, ClientStepType
<1>3. CASE ServerStep
  BY <1>3, PollType, ProcessType, ScanType, RelayType DEF ServerStep
<1>4. CASE ServerKill \/ ServerStart
  BY <1>4, ProcessType
<1>5. CASE AuthStep /\ UNCHANGED <<clientVars, serverVars>>
  BY <1>5, AuthStepTypeOK
<1> QED  BY <1>1, <1>2, <1>3, <1>4, <1>5 DEF Next

\* Every variable keeps its type, the loop index stays inside the vector, and a
\* connection that select reported is there for accept.
THEOREM TypeCorrect == Spec => []TypeOK
<1>1. Init => TypeOK
  BY InitTypeOK
<1>2. TypeOK /\ [Next]_vars => TypeOK'
  BY StepTypeOK
<1> QED  BY <1>1, <1>2, PTL DEF Spec

-----------------------------------------------------------------------------
(* One request at a time.                                                  *)

\* LockStep speaks of the connection and of main's place together, and
\* AnswerIsCurrent needs it when the response is read: the two are inductive
\* with the types.
Inv == TypeOK /\ LockStep /\ AnswerIsCurrent

LEMMA InitInv == Init => Inv
<1> SUFFICES ASSUME Init PROVE Inv
  OBVIOUS
<1>1. link \in Link
  BY ServiceAssumption DEF Init, LinkInit, Link
<1>2. LockStep
  BY <1>1 DEF Init, ServerInit, LinkInit, LockStep
<1>3. AnswerIsCurrent
  BY DEF Init, ServerInit, AnswerIsCurrent
<1> QED  BY <1>2, <1>3, InitTypeOK DEF Inv

\* A step that leaves main outside Await and the link alone changes nothing.
LEMMA QuietStep ==
  ASSUME Inv, UNCHANGED linkVars,
         pc \notin {"await", "crashed"}, pc' \notin {"await", "reply", "crashed"}
  PROVE  LockStep' /\ AnswerIsCurrent'
BY DEF Inv, LockStep, AnswerIsCurrent, linkVars

\* A step that may only take the connection down keeps both.
LEMMA DownStep ==
  ASSUME Inv, UNCHANGED <<serverVars, link>>,
         sock'[link] = "up" => /\ sock[link] = "up"
                               /\ toAuth'[link] = toAuth[link]
                               /\ fromAuth'[link] = fromAuth[link]
  PROVE  LockStep' /\ AnswerIsCurrent'
BY DEF Inv, LockStep, AnswerIsCurrent, Relayed, serverVars

LEMMA ProcessInv ==
  ASSUME Inv, SelectError \/ ServerKill \/ ServerStart
  PROVE  LockStep' /\ AnswerIsCurrent'
<1>0. LinkTypeOK
  BY DEF Inv, TypeOK
<1>1. CASE ProcessEnds
  <2>1. sock'[link] # "up" /\ link' = link /\ pc' = "crashed"
    BY <1>0, <1>1 DEF ProcessEnds, LinkTypeOK
  <2> QED  BY <2>1 DEF LockStep, AnswerIsCurrent
<1>2. CASE ServerStart
  <2>1. link + 1 \in Link /\ link + 1 > link
    BY <1>0, <1>2, ServiceAssumption DEF ServerStart, LinkTypeOK, Link
  <2>2. toAuth'[link'] = <<>> /\ fromAuth'[link'] = <<>> /\ pc' = "poll"
    BY <1>0, <1>2, <2>1 DEF ServerStart, LinkTypeOK
  <2> QED  BY <2>2 DEF LockStep, AnswerIsCurrent
<1> QED  BY <1>1, <1>2 DEF SelectError, ServerKill

LEMMA RelayInv ==
  ASSUME Inv, Relay
  PROVE  LockStep' /\ AnswerIsCurrent'
<1>0. LinkTypeOK /\ ServerTypeOK
  BY DEF Inv, TypeOK
<1>1. pc' = "await" /\ link' = link /\ fromAuth' = fromAuth
  BY DEF Relay
<1>2. ASSUME sock'[link] = "up" PROVE toAuth'[link] = <<Relayed'>> /\ fromAuth'[link] = <<>>
  <2>1. /\ sock[link] = "up"
        /\ toAuth' = [toAuth EXCEPT ![link] = Append(@, Relayed')]
    BY <1>0, <1>2 DEF Relay, Relayed, LinkTypeOK
  <2>2. toAuth[link] = <<>> /\ fromAuth[link] = <<>>
    BY <2>1 DEF Inv, LockStep, Relay
  <2>3. toAuth'[link] = Append(<<>>, Relayed')
    BY <1>0, <2>1, <2>2 DEF LinkTypeOK
  <2> HIDE DEF Relayed
  <2>4. Append(<<>>, Relayed') = <<Relayed'>>
    OBVIOUS
  <2> QED  BY <1>1, <2>2, <2>3, <2>4
<1> QED  BY <1>1, <1>2 DEF LockStep, AnswerIsCurrent

\* The response read is the one to the request relayed, whatever follows it.
LEMMA AwaitInv ==
  ASSUME Inv, Await
  PROVE  LockStep' /\ AnswerIsCurrent'
<1>0. LinkTypeOK /\ ServerTypeOK
  BY DEF Inv, TypeOK
<1>1. /\ pc = "await" /\ pc' = "reply"
      /\ link' = link /\ sock' = sock /\ toAuth' = toAuth
      /\ action' = action /\ history' = history
  BY DEF Await
<1>2. CASE sock[link] # "up"
  BY <1>1, <1>2 DEF LockStep, AnswerIsCurrent
<1>3. CASE sock[link] = "up"
  <2>1. ReceiveAnswer
    BY <1>3 DEF Await, ReceiveEnd
  <2>2. toAuth[link] = <<>>
    BY <1>1, <1>3, <2>1 DEF Inv, LockStep, ReceiveAnswer
  <2>3. PICK r \in Answers(Relayed) : fromAuth[link] = <<r>>
    BY <1>1, <1>3, <2>1 DEF Inv, LockStep, ReceiveAnswer
  <2>4. Head(fromAuth[link]) = r /\ Tail(fromAuth[link]) = <<>>
    BY <2>3
  <2>5. fromAuth'[link] = <<>>
    BY <1>0, <2>1, <2>4 DEF ReceiveAnswer, LinkTypeOK
  <2>6. LockStep'
    BY <1>1, <2>2, <2>5 DEF LockStep
  <2>7. Relayed.id \in Nat
    BY <1>0 DEF Relayed, ServerTypeOK
  <2>8. PICK tail : result' = KindSeen(r, tail) /\ rcvBuff' = r
    BY <2>1, <2>4 DEF ReceiveAnswer
  <2>9. rcvBuff'.id = history
    BY <2>7, <2>8, AnswersFit DEF Relayed
  <2>10. result' \in AnswerKinds(action)
    BY <2>7, <2>8, KindFits DEF Relayed
  <2>11. AnswerIsCurrent'
    BY <1>1, <2>9, <2>10 DEF AnswerIsCurrent
  <2> QED  BY <2>6, <2>11
<1> QED  BY <1>2, <1>3

\* Serving a request of this process moves it from one queue to the other.
LEMMA ServeInv ==
  ASSUME Inv, NEW k \in Link, AuthServe(k), UNCHANGED serverVars
  PROVE  LockStep' /\ AnswerIsCurrent'
<1>0. LinkTypeOK
  BY DEF Inv, TypeOK
<1>1. link' = link /\ (sock'[link] = "up" => sock[link] = "up")
  BY <1>0 DEF AuthServe, SendAnswer, LinkTypeOK
<1>2. AnswerIsCurrent'
  BY <1>1 DEF Inv, AnswerIsCurrent, serverVars
<1>3. CASE k # link \/ sock[link] # "up"
  <2>1. sock[link] = "up" =>
          toAuth'[link] = toAuth[link] /\ fromAuth'[link] = fromAuth[link]
    BY <1>0, <1>3 DEF AuthServe, SendAnswer, LinkTypeOK
  <2> QED  BY <1>1, <2>1, DownStep
<1>4. CASE k = link /\ sock[link] = "up"
  <2>1. toAuth[link] # <<>>
    BY <1>4 DEF AuthServe
  <2>2. pc = "await" /\ toAuth[link] = <<Relayed>> /\ fromAuth[link] = <<>>
    BY <1>4, <2>1 DEF Inv, LockStep
  <2> HIDE DEF Relayed
  <2>3. Head(toAuth[link]) = Relayed /\ Tail(toAuth[link]) = <<>>
    BY <2>2
  <2>4. PICK r \in Answers(Relayed) : fromAuth' = [fromAuth EXCEPT ![link] = Append(@, r)]
    BY <1>4, <2>3 DEF AuthServe, SendAnswer
  <2>5. fromAuth'[link] = Append(<<>>, r)
    BY <1>0, <2>2, <2>4 DEF LinkTypeOK
  <2>6. Append(<<>>, r) = <<r>>
    OBVIOUS
  <2>7. toAuth'[link] = <<>>
    BY <1>0, <1>4, <2>3 DEF AuthServe, LinkTypeOK
  <2>8. Relayed' = Relayed /\ pc' = pc
    BY DEF Relayed, serverVars
  <2>9. LockStep'
    BY <1>1, <2>2, <2>4, <2>5, <2>6, <2>7, <2>8 DEF LockStep
  <2> QED  BY <1>2, <2>9
<1> QED  BY <1>3, <1>4

LEMMA AuthStepInv ==
  ASSUME Inv, AuthStep, UNCHANGED serverVars
  PROVE  LockStep' /\ AnswerIsCurrent'
<1>0. LinkTypeOK
  BY DEF Inv, TypeOK
<1>1. CASE \E k \in Link : AuthServe(k)
  BY <1>0, <1>1, ServeInv
<1>2. ASSUME NEW end \in {"fin", "rst"}, AuthGone(end)
      PROVE  sock'[link] # "up" /\ link' = link
  BY <1>0, <1>2 DEF AuthGone, LinkTypeOK
<1>3. CASE (\E k \in Link : AuthExit(k) \/ AuthAcceptError(k)) \/ AuthKill
  <2>1. sock'[link] # "up" /\ link' = link
    BY <1>2, <1>3 DEF AuthExit, AuthAcceptError, AuthKill
  <2> QED  BY <1>0, <2>1, DownStep
<1>4. CASE (\E k \in Link : AuthStuck(k)) \/ AuthStart
  <2>1. link' = link /\ toAuth' = toAuth /\ fromAuth' = fromAuth
    BY <1>4 DEF AuthStuck, AuthStart
  <2>2. sock'[link] = "up" => sock[link] = "up"
    BY <1>0, <1>4 DEF AuthStuck, AuthStart, LinkTypeOK
  <2> QED  BY <1>0, <2>1, <2>2, DownStep
<1> QED  BY <1>1, <1>3, <1>4 DEF AuthStep

LEMMA StepInv == Inv /\ [Next]_vars => Inv'
<1> SUFFICES ASSUME Inv, [Next]_vars PROVE LockStep' /\ AnswerIsCurrent'
  BY StepTypeOK DEF Inv
<1>1. CASE \/ UNCHANGED vars
           \/ \E c \in Client : ClientStep(c) /\ UNCHANGED <<serverVars, linkVars>>
  <2>1. UNCHANGED <<serverVars, link>>
        /\ sock' = sock /\ toAuth' = toAuth /\ fromAuth' = fromAuth
    BY <1>1 DEF vars, linkVars
  <2> QED  BY <2>1, DownStep
<1>2. CASE \/ SelectConnection \/ AcceptConnection \/ AcceptError
           \/ ScanNext \/ ReadFromClient \/ SkipRelay
  <2>1. /\ UNCHANGED linkVars
        /\ pc \notin {"await", "crashed"}
        /\ pc' \notin {"await", "reply", "crashed"}
    BY <1>2 DEF SelectConnection, AcceptConnection, AcceptError, ScanNext,
                ReadFromClient, SkipRelay
  <2> QED  BY <2>1, QuietStep
<1>3. CASE SelectError \/ ServerKill \/ ServerStart
  BY <1>3, ProcessInv
<1>4. CASE Relay
  BY <1>4, RelayInv
<1>5. CASE Await
  BY <1>5, AwaitInv
<1>6. CASE Reply
  <2>1. /\ UNCHANGED linkVars
        /\ pc \notin {"await", "crashed"}
        /\ pc' \notin {"await", "reply", "crashed"}
    BY <1>6 DEF Reply
  <2> QED  BY <2>1, QuietStep
<1>7. CASE AuthStep /\ UNCHANGED <<clientVars, serverVars>>
  BY <1>7, AuthStepInv
<1> QED  BY <1>1, <1>2, <1>3, <1>4, <1>5, <1>6, <1>7 DEF Next, ServerStep

LEMMA InvHolds == Spec => []Inv
<1> QED  BY InitInv, StepInv, PTL DEF Spec

\* At any time one request at most is under way on the connection to the
\* authentication server, and only while main waits for its answer.
THEOREM LockStepHolds == Spec => []LockStep
<1>1. Inv => LockStep
  BY DEF Inv
<1> QED  BY <1>1, InvHolds, PTL

\* The response main passes on is the response to the request it relayed last.
THEOREM AnswerIsCurrentHolds == Spec => []AnswerIsCurrent
<1>1. Inv => AnswerIsCurrent
  BY DEF Inv
<1> QED  BY <1>1, InvHolds, PTL

-----------------------------------------------------------------------------
(* The contract with the authentication server.                            *)

\* While the process runs, its end of its connection is not closed.
Attached == pc # "crashed" => sock[link] \in {"up", "fin", "rst"}

\* A step of the authentication server never closes the chat server's end.
LEMMA AuthStepAttached ==
  ASSUME LinkTypeOK, AuthStep, sock[link] \in {"up", "fin", "rst"}
  PROVE  link' = link /\ sock'[link] \in {"up", "fin", "rst"}
<1>1. ASSUME NEW k \in Link, AuthServe(k)
      PROVE  link' = link /\ sock'[link] \in {"up", "fin", "rst"}
  BY <1>1 DEF AuthServe, SendAnswer, LinkTypeOK
<1>2. ASSUME NEW end \in {"fin", "rst"}, AuthGone(end)
      PROVE  link' = link /\ sock'[link] \in {"up", "fin", "rst"}
  BY <1>2 DEF AuthGone, LinkTypeOK
<1>3. ASSUME (\E k \in Link : AuthExit(k) \/ AuthAcceptError(k)) \/ AuthKill
      PROVE  link' = link /\ sock'[link] \in {"up", "fin", "rst"}
  BY <1>2, <1>3 DEF AuthExit, AuthAcceptError, AuthKill
<1>4. ASSUME (\E k \in Link : AuthStuck(k)) \/ AuthStart
      PROVE  link' = link /\ sock'[link] \in {"up", "fin", "rst"}
  BY <1>4 DEF AuthStuck, AuthStart, LinkTypeOK
<1> QED  BY <1>1, <1>3, <1>4 DEF AuthStep

LEMMA InitAttached == Init => Attached
BY ServiceAssumption DEF Init, LinkInit, Link, Attached

LEMMA StepAttached == Inv /\ Attached /\ [Next]_vars => Attached'
<1> SUFFICES ASSUME Inv, Attached, [Next]_vars PROVE Attached'
  OBVIOUS
<1>0. LinkTypeOK
  BY DEF Inv, TypeOK
<1>1. CASE UNCHANGED <<linkVars, pc>>
  BY <1>1 DEF Attached, linkVars
<1>2. CASE \/ UNCHANGED vars
           \/ \E c \in Client : ClientStep(c) /\ UNCHANGED <<serverVars, linkVars>>
  BY <1>1, <1>2 DEF vars, serverVars
<1>3. CASE \/ SelectConnection \/ AcceptConnection \/ AcceptError
           \/ ScanNext \/ ReadFromClient \/ SkipRelay \/ Reply
  <2>1. UNCHANGED linkVars /\ pc # "crashed"
    BY <1>3 DEF SelectConnection, AcceptConnection, AcceptError, ScanNext,
                ReadFromClient, SkipRelay, Reply
  <2> QED  BY <2>1 DEF Attached, linkVars
<1>4. CASE SelectError \/ ServerKill
  BY <1>4 DEF SelectError, ServerKill, ProcessEnds, Attached
<1>5. CASE ServerStart
  <2>1. link + 1 \in Link /\ link' = link + 1
    BY <1>0, <1>5, ServiceAssumption DEF ServerStart, LinkTypeOK, Link
  <2> QED  BY <1>0, <1>5, <2>1 DEF ServerStart, LinkTypeOK, Attached
<1>6. CASE Relay
  BY <1>0, <1>6 DEF Relay, LinkTypeOK, Attached
<1>7. CASE Await
  BY <1>7 DEF Await, Attached
<1>8. CASE AuthStep /\ UNCHANGED <<clientVars, serverVars>>
  <2>1. pc' = pc
    BY <1>8 DEF serverVars
  <2> QED  BY <1>0, <1>8, <2>1, AuthStepAttached DEF Attached
<1> QED  BY <1>2, <1>3, <1>4, <1>5, <1>6, <1>7, <1>8 DEF Next, ServerStep

\* The server's own steps on its connection are steps of the peer.
LEMMA StepKeeps == Inv /\ Attached /\ [Next]_vars => [ServiceNext]_serviceVars
<1> SUFFICES ASSUME Inv, Attached, [Next]_vars
             PROVE  ServiceNext \/ UNCHANGED serviceVars
  OBVIOUS
<1>0. LinkTypeOK /\ ServerTypeOK
  BY DEF Inv, TypeOK
<1>1. CASE \/ UNCHANGED vars
           \/ \E c \in Client : ClientStep(c) /\ UNCHANGED <<serverVars, linkVars>>
  BY <1>1 DEF vars, serverVars, serviceVars
<1>2. CASE \/ SelectConnection \/ AcceptConnection \/ AcceptError
           \/ ScanNext \/ ReadFromClient \/ SkipRelay \/ Reply
  BY <1>2 DEF SelectConnection, AcceptConnection, AcceptError, ScanNext,
              ReadFromClient, SkipRelay, Reply, serviceVars
<1>3. CASE ProcessEnds
  <2>1. CASE sock[link] = "up"
    <3>1. PeerEnd
      BY <1>3, <2>1 DEF ProcessEnds, PeerEnd
    <3> QED  BY <3>1 DEF PeerStep, ServiceNext
  <2>2. CASE sock[link] # "up"
    BY <1>3, <2>2 DEF ProcessEnds, serviceVars, linkVars
  <2> QED  BY <2>1, <2>2
<1>4. CASE ServerStart
  <2>1. sock[link] # "up"
    BY <1>4 DEF ServerStart, Inv, LockStep
  <2>2. PeerStart
    BY <1>4, <2>1 DEF ServerStart, PeerStart
  <2> QED  BY <2>2 DEF PeerStep, ServiceNext
<1>5. CASE Relay
  <2>1. action \in Cmd /\ credential \in Cred \cup {NoCred}
    BY <1>0, <1>5 DEF Relay, ServerTypeOK
  <2>2. CASE sock[link] = "up"
    <3>1. toAuth[link] = <<>> /\ fromAuth[link] = <<>>
      BY <1>5, <2>2 DEF Relay, Inv, LockStep
    <3>2. /\ UNCHANGED sock
          /\ toAuth' = [toAuth EXCEPT ![link] = Append(@,
               [cmd |-> action, id |-> history + 1, cred |-> credential])]
      BY <1>5, <2>2 DEF Relay
    <3>3. PeerSend
      BY <1>5, <2>1, <2>2, <3>1, <3>2 DEF Relay, PeerSend
    <3> QED  BY <3>3 DEF PeerStep, ServiceNext
  <2>3. CASE sock[link] # "up"
    <3>1. PeerSend
      BY <1>5, <2>3 DEF Relay, PeerSend
    <3> QED  BY <3>1 DEF PeerStep, ServiceNext
  <2> QED  BY <2>2, <2>3
<1>6. CASE Await
  <2>1. CASE ReceiveAnswer
    <3>1. sock[link] \in {"up", "fin"}
      BY <1>6, <2>1 DEF Await, ReceiveAnswer, Attached
    <3>2. PeerReceive
      BY <1>6, <2>1, <3>1 DEF Await, ReceiveAnswer, PeerReceive
    <3> QED  BY <3>2 DEF PeerStep, ServiceNext
  <2>2. CASE ReceiveEnd
    BY <1>6, <2>2 DEF Await, ReceiveEnd, serviceVars, linkVars
  <2> QED  BY <1>6, <2>1, <2>2 DEF Await
<1>7. CASE AuthStep /\ UNCHANGED <<clientVars, serverVars>>
  BY <1>7 DEF ServiceNext, serverVars
<1> QED  BY <1>1, <1>2, <1>3, <1>4, <1>5, <1>6, <1>7
         DEF Next, ServerStep, SelectError, ServerKill

\* The chat server keeps to the contract the authentication server is verified
\* against: one request at a time on its connection, numbered in order, and none
\* while a response waits to be read.
THEOREM KeepsToServiceHolds == Spec => KeepsToService
<1>1. Init => ServiceInit
  BY DEF Init, ServerInit, ServiceInit
<1>2. Inv /\ Attached /\ [Next]_vars => [ServiceNext]_serviceVars
  BY StepKeeps
<1>3. Spec => []Attached
  BY InitAttached, StepAttached, InvHolds, PTL DEF Spec
<1> QED  BY <1>1, <1>2, <1>3, InvHolds, PTL DEF Spec, KeepsToService, ServiceSpec

-----------------------------------------------------------------------------
(* Conditions on the answers.                                              *)

\* No stale bytes behind any message, request or response, and nobody types an
\* empty email or password: every request parses, and every response is read as
\* what was sent, but for its id.
NothingStale == Residue = {"clean"} /\ NoCred \notin Typed

-----------------------------------------------------------------------------
(* A client and its one request.                                           *)

\* A client has sent its request when it waits for the answer and not while it
\* is at the menu; what it sent waits in its connection or was read.  What
\* comes back, comes back after it.
OneRequest ==
  \A c \in Client :
    /\ chat[c] \in {"idle", "open"} => req[c] = NoReq
    /\ chat[c] = "asked" => req[c] # NoReq
    /\ outbox[c] # <<>> => req[c] # NoReq /\ outbox[c] = <<req[c]>>
    /\ req[c] = NoReq => inbox[c] = <<>> /\ seen[c].kind = 0
    /\ chat[c] = "done" => seen[c].kind # 0
    /\ NoCred \notin Typed /\ req[c] # NoReq => req[c].cred # NoCred

\* The client main serves is connected, or it left in order.
ServesConnected ==
  /\ pc = "read" => clients[i] \in connected
  /\ pc \in {"relay", "await", "reply"} =>
       clients[i] \in connected \/ chat[clients[i]] = "fin"

OwnInv == TypeOK /\ OneRequest /\ ServesConnected /\ RelayOwn

\* What the conjuncts of OneRequest speak of.
requestVars == <<chat, req, outbox, inbox, seen>>

LEMMA InitOwn == Init => OneRequest /\ ServesConnected /\ RelayOwn
BY DEF Init, ClientInit, ServerInit, OneRequest, ServesConnected, RelayOwn, NothingSeen

LEMMA OneRequestClient ==
  ASSUME TypeOK, OneRequest, NEW c \in Client, ClientStep(c)
  PROVE  OneRequest'
<1>0. ClientTypeOK
  BY DEF TypeOK
<1>1. CASE Connect(c) \/ ConnectRefused(c) \/ CloseSocket(c) \/ Kill(c)
  <2>1. UNCHANGED <<req, outbox, inbox, seen>>
    BY <1>1 DEF Connect, ConnectRefused, CloseSocket, Kill
  <2>2. PICK place \in {"open", "lost", "fin", "rst"} :
          /\ chat' = [chat EXCEPT ![c] = place]
          /\ place = "open" => chat[c] = "idle"
    BY <1>1 DEF Connect, ConnectRefused, CloseSocket, Kill
  <2>3. \A d \in Client : \/ chat'[d] = chat[d]
                          \/ chat'[d] \in {"fin", "rst", "lost"}
                          \/ chat[d] = "idle" /\ chat'[d] = "open"
    <3>1. \A d \in Client : chat'[d] = IF d = c THEN place ELSE chat[d]
      BY <1>0, <2>2 DEF ClientTypeOK
    <3> QED  BY <2>2, <3>1
  <2> QED  BY <2>1, <2>3 DEF OneRequest
<1>2. CASE SendToServer(c)
  <2>1. PICK cmd \in Cmd, cred \in Typed :
          LET q == [cmd |-> cmd, id |-> 1, cred |-> cred] IN
          /\ req' = [req EXCEPT ![c] = q]
          /\ outbox' = [outbox EXCEPT ![c] = Append(@, q)]
    BY <1>2 DEF SendToServer
  <2> DEFINE q == [cmd |-> cmd, id |-> 1, cred |-> cred]
  <2>2. q # NoReq /\ q.cred = cred
    <3>1. q.cmd = cmd /\ q.cmd # "NONE"
      BY DEF Cmd
    <3>2. NoReq.cmd = "NONE"
      BY DEF NoReq
    <3> QED  BY <3>1, <3>2
  <2> HIDE DEF q
  <2>3. /\ chat[c] = "open" /\ req[c] = NoReq /\ outbox[c] = <<>>
        /\ UNCHANGED <<inbox, seen>>
    BY <1>2 DEF SendToServer, OneRequest
  <2>4. /\ chat' = [chat EXCEPT ![c] = "asked"]
        /\ req' = [req EXCEPT ![c] = q]
        /\ outbox' = [outbox EXCEPT ![c] = Append(<<>>, q)]
        /\ Append(<<>>, q) = <<q>>
    <3>1. Append(<<>>, q) = <<q>>
      OBVIOUS
    <3>2. outbox' = [outbox EXCEPT ![c] = Append(outbox[c], q)]
      BY <2>1 DEF q
    <3>3. req' = [req EXCEPT ![c] = q]
      BY <2>1 DEF q
    <3> QED  BY <1>2, <2>3, <3>1, <3>2, <3>3 DEF SendToServer
  <2>5. /\ chat'[c] = "asked" /\ req'[c] = q /\ outbox'[c] = <<q>>
        /\ \A d \in Client : d # c =>
             chat'[d] = chat[d] /\ req'[d] = req[d] /\ outbox'[d] = outbox[d]
    BY <1>0, <2>4 DEF ClientTypeOK
  <2> QED  BY <2>2, <2>3, <2>5 DEF OneRequest
<1>3. CASE ReceiveFromServer(c)
  <2> DEFINE r == Head(inbox[c])
             kind == KindSeen(r, "clean")
  <2>1. r \in Response /\ inbox[c] # <<>> /\ chat[c] = "asked"
    BY <1>0, <1>3 DEF ReceiveFromServer, ClientTypeOK
  <2>2. kind # 0
    BY <2>1, KindSurvives DEF Kind, AuthSuccess, CreateFail
  <2>3. /\ chat'[c] = "done" /\ seen'[c].kind = kind /\ req'[c] = req[c]
        /\ req[c] # NoReq /\ UNCHANGED <<req, outbox>>
    BY <1>0, <1>3, <2>1 DEF ReceiveFromServer, ClientTypeOK, OneRequest
  <2>4. \A d \in Client : d # c =>
          chat'[d] = chat[d] /\ inbox'[d] = inbox[d] /\ seen'[d] = seen[d]
    BY <1>0, <1>3 DEF ReceiveFromServer, ClientTypeOK
  <2> HIDE DEF kind
  <2> QED  BY <2>2, <2>3, <2>4 DEF OneRequest
<1> QED  BY <1>1, <1>2, <1>3 DEF ClientStep

\* What a client does leaves the request main serves as it is.
LEMMA ClientOwn ==
  ASSUME OwnInv, NEW c \in Client, ClientStep(c), UNCHANGED serverVars
  PROVE  ServesConnected' /\ RelayOwn'
<1>0. TypeOK /\ ClientTypeOK /\ ServerTypeOK /\ OneRequest
  BY DEF OwnInv, TypeOK
<1>1. \A d \in Client : chat[d] = "fin" => chat'[d] = "fin"
  BY <1>0 DEF ClientStep, Connect, ConnectRefused, SendToServer, ReceiveFromServer,
              CloseSocket, Kill, ClientTypeOK
<1>2. ServesConnected'
  <2>1. UNCHANGED <<pc, clients, i, connected>>
    BY DEF serverVars
  <2>2. pc \in {"relay", "await", "reply"} => clients[i] \in Client
    BY <1>0 DEF ServerTypeOK
  <2> QED  BY <1>1, <2>1, <2>2 DEF OwnInv, ServesConnected
<1>3. ASSUME NEW d \in Client, req[d] # NoReq PROVE req'[d] = req[d]
  BY <1>0, <1>3 DEF ClientStep, Connect, ConnectRefused, SendToServer,
                    ReceiveFromServer, CloseSocket, Kill, ClientTypeOK, OneRequest
<1>4. RelayOwn'
  <2>1. UNCHANGED <<pc, clients, i, connected, action, credential>>
    BY DEF serverVars
  <2>2. pc \in {"relay", "await", "reply"} => clients[i] \in Client
    BY <1>0 DEF ServerTypeOK
  <2>3. NoReq.cmd \notin Cmd
    BY DEF NoReq, Cmd
  <2> QED  BY <1>3, <2>1, <2>2, <2>3 DEF OwnInv, RelayOwn
<1> QED  BY <1>2, <1>4

\* Reading a request, main takes it for the members; it is the client's own.
LEMMA ReadOwn ==
  ASSUME OwnInv, ReadFromClient
  PROVE  OneRequest' /\ ServesConnected' /\ RelayOwn'
<1>0. TypeOK /\ ClientTypeOK /\ ServerTypeOK /\ OneRequest
  BY DEF OwnInv, TypeOK
<1> DEFINE c == clients[i]
<1>1. /\ c \in Client /\ pc' = "relay" /\ clients' = clients /\ i' = i
      /\ UNCHANGED <<chat, req, inbox, seen>> /\ c \in connected
  BY <1>0 DEF ReadFromClient, ServerTypeOK, OwnInv, ServesConnected
<1>2. CASE ReadRequest(c)
  <2>1. /\ outbox[c] = <<req[c]>> /\ req[c] # NoReq /\ connected' = connected
        /\ outbox' = [outbox EXCEPT ![c] = Tail(@)]
    BY <1>0, <1>1, <1>2 DEF ReadRequest, OneRequest
  <2>2. Head(outbox[c]) = req[c] /\ Tail(outbox[c]) = <<>>
    BY <2>1
  <2>3. \A d \in Client : outbox'[d] = <<>> \/ outbox'[d] = outbox[d]
    BY <1>0, <2>1, <2>2 DEF ClientTypeOK
  <2>4. OneRequest'
    BY <1>1, <2>3 DEF OwnInv, OneRequest
  <2>5. ServesConnected'
    BY <1>1, <2>1 DEF ServesConnected
  <2>6. RelayOwn'
    <3>1. PICK tail \in Residue \ {"detail"} :
            IF Readable(req[c], tail)
              THEN action' = req[c].cmd /\ credential' = req[c].cred
              ELSE UNCHANGED <<action, credential>>
      BY <1>2, <2>2 DEF ReadRequest
    <3>2. req[c] \in Request
      BY <1>0, <1>1, <2>1 DEF ClientTypeOK
    <3>3. req[c].cmd \in Cmd
      BY <3>2 DEF Request
    <3> QED  BY <1>1, <2>1, <3>1, <3>3, ResidueAssumption DEF RelayOwn, Readable
  <2> QED  BY <2>4, <2>5, <2>6
<1>3. CASE ReadEnd(c)
  <2>1. UNCHANGED outbox /\ c \notin connected' /\ chat[c] = "fin"
    BY <1>3 DEF ReadEnd
  <2>2. OneRequest'
    BY <1>0, <1>1, <2>1 DEF OneRequest
  <2> QED  BY <1>1, <2>1, <2>2 DEF ServesConnected, RelayOwn
<1> QED  BY <1>2, <1>3 DEF ReadFromClient

\* Only a client that waits is sent a response.
LEMMA ReplyOwn ==
  ASSUME OwnInv, Reply
  PROVE  OneRequest' /\ ServesConnected' /\ RelayOwn'
<1>0. ClientTypeOK /\ OneRequest
  BY DEF OwnInv, TypeOK
<1>1. pc' = "scan" /\ UNCHANGED <<chat, req, outbox, seen>>
  BY DEF Reply
<1>2. \A d \in Client : inbox'[d] = inbox[d] \/ chat[d] = "asked"
  BY <1>0 DEF Reply, ClientTypeOK
<1>3. OneRequest'
  BY <1>0, <1>1, <1>2 DEF OneRequest
<1> QED  BY <1>1, <1>3 DEF ServesConnected, RelayOwn

LEMMA StepOwn == OwnInv /\ [Next]_vars => OwnInv'
<1> SUFFICES ASSUME OwnInv, [Next]_vars
             PROVE  OneRequest' /\ ServesConnected' /\ RelayOwn'
  BY StepTypeOK DEF OwnInv
<1>0. TypeOK /\ OneRequest /\ ServerTypeOK /\ ClientTypeOK
  BY DEF OwnInv, TypeOK
<1>1. CASE \E c \in Client : ClientStep(c) /\ UNCHANGED <<serverVars, linkVars>>
  BY <1>0, <1>1, OneRequestClient, ClientOwn
<1>2. CASE \/ UNCHANGED vars
           \/ AuthStep /\ UNCHANGED <<clientVars, serverVars>>
  BY <1>2 DEF OwnInv, OneRequest, ServesConnected, RelayOwn, vars, clientVars, serverVars
<1>3. CASE ReadFromClient
  BY <1>3, ReadOwn
<1>4. CASE Reply
  BY <1>4, ReplyOwn
<1>5. CASE Relay \/ Await
  <2>1. /\ UNCHANGED <<clientVars, clients, connected, i, action, credential>>
        /\ pc \in {"relay", "await"} /\ pc' \in {"await", "reply"}
    BY <1>5 DEF Relay, Await
  <2> QED  BY <2>1 DEF OwnInv, OneRequest, ServesConnected, RelayOwn, clientVars
<1>6. CASE SelectConnection \/ AcceptConnection \/ AcceptError \/ SkipRelay
  <2>1. UNCHANGED requestVars /\ pc' \in {"accept", "scan"}
    BY <1>6 DEF SelectConnection, AcceptConnection, AcceptError, SkipRelay,
                clientVars, requestVars
  <2> QED  BY <2>1 DEF OwnInv, OneRequest, ServesConnected, RelayOwn, requestVars
<1>7. CASE ScanNext
  <2>1. /\ UNCHANGED requestVars /\ pc' \in {"poll", "scan", "read"}
        /\ pc' = "read" => clients'[i'] \in connected'
    BY <1>7 DEF ScanNext, IsReady, clientVars, requestVars
  <2> QED  BY <2>1 DEF OwnInv, OneRequest, ServesConnected, RelayOwn, requestVars
<1>8. CASE SelectError \/ ServerKill
  <2>1. UNCHANGED <<req, outbox, inbox, seen>> /\ pc' = "crashed"
    BY <1>8 DEF SelectError, ServerKill, ProcessEnds
  <2>2. \A c \in Client : chat'[c] = chat[c] \/ chat'[c] = "lost"
    BY <1>8 DEF SelectError, ServerKill, ProcessEnds
  <2> QED  BY <1>0, <2>1, <2>2 DEF OneRequest, ServesConnected, RelayOwn
<1>9. CASE ServerStart
  <2>1. UNCHANGED requestVars /\ pc' = "poll"
    BY <1>9 DEF ServerStart, requestVars
  <2> QED  BY <2>1 DEF OwnInv, OneRequest, ServesConnected, RelayOwn, requestVars
<1> QED  BY <1>1, <1>2, <1>3, <1>4, <1>5, <1>6, <1>7, <1>8, <1>9
         DEF Next, ServerStep

LEMMA OwnInvHolds == Spec => []OwnInv
<1>1. Init => OwnInv
  BY InitOwn, InitTypeOK DEF OwnInv
<1> QED  BY <1>1, StepOwn, PTL DEF Spec

\* While main serves a client that is connected, the members that all clients
\* share hold this client's request, if requests parse and are not empty,
\* whatever bytes are behind the responses.
THEOREM RelayOwnHolds == Spec => []RelayOwn
<1>1. OwnInv => RelayOwn
  BY DEF OwnInv
<1> QED  BY <1>1, OwnInvHolds, PTL

-----------------------------------------------------------------------------
(* The answer on its way to the client that asked.                         *)

\* A response of this kind is true to what the client asked.
Fits(c, kind) ==
  /\ kind \in AnswerKinds(req[c].cmd)
  /\ IsSuccess(kind) => <<req[c].cmd, req[c].cred>> \in granted

\* It is so wherever the response is: on the connection between the servers, in
\* main, on the connection of the client, in the client.
GrantedAtAuth ==
  pc = "await" =>
    \A n \in DOMAIN fromAuth[link] :
      IsSuccess(fromAuth[link][n].kind) => <<action, credential>> \in granted

FitsInMain == pc = "reply" /\ clients[i] \in connected => Fits(clients[i], result)

FitsAtClient ==
  \A c \in Client :
    /\ \A n \in DOMAIN inbox[c] : Fits(c, inbox[c][n].kind)
    /\ seen[c].kind # 0 => Fits(c, seen[c].kind)

\* A lost connection stays lost: the condition held before, if it holds.
LEMMA AuthKeptBefore ==
  ASSUME LinkTypeOK, [Next]_vars, AuthKept'
  PROVE  AuthKept
<1> SUFFICES ASSUME NEW k \in Link, sock[k] \in {"fin", "rst"}
             PROVE  sock'[k] \in {"fin", "rst"}
  BY DEF AuthKept
<1>0. sock \in [Link -> SockState] /\ link \in Link /\ (k > link => sock[k] = "none")
  BY DEF LinkTypeOK
<1>1. CASE AuthStep
  <2>1. ASSUME NEW j \in Link, AuthServe(j) PROVE sock'[k] = sock[k]
    BY <1>0, <2>1 DEF AuthServe, SendAnswer
  <2>2. ASSUME NEW end, AuthGone(end) PROVE sock'[k] = sock[k]
    BY <1>0, <2>2 DEF AuthGone
  <2>3. ASSUME NEW j \in Link, AuthExit(j) \/ AuthAcceptError(j) PROVE sock'[k] = sock[k]
    BY <2>2, <2>3 DEF AuthExit, AuthAcceptError
  <2>4. ASSUME (\E j \in Link : AuthStuck(j)) \/ AuthStart PROVE sock'[k] = sock[k]
    BY <1>0, <2>4 DEF AuthStuck, AuthStart
  <2> QED  BY <1>1, <2>1, <2>2, <2>3, <2>4 DEF AuthStep, AuthKill
<1>2. CASE ServerStart
  <2>1. k # link + 1
    BY <1>0, ServiceAssumption DEF Link
  <2> QED  BY <1>0, <1>2, <2>1 DEF ServerStart
<1>3. CASE SelectError \/ ServerKill
  BY <1>0, <1>3 DEF SelectError, ServerKill, ProcessEnds
<1>4. CASE Relay
  BY <1>0, <1>4 DEF Relay
<1>5. CASE sock' = sock
  BY <1>5
<1> QED  BY <1>1, <1>2, <1>3, <1>4, <1>5
  DEF Next, ServerStep, SelectConnection, AcceptConnection, AcceptError, ScanNext,
      ReadFromClient, SkipRelay, Await, Reply, linkVars, vars

\* What was granted stays so, and a request that was sent stays the same.
LEMMA FitsStays ==
  ASSUME NEW c \in Client, NEW kind, Fits(c, kind),
         granted \subseteq granted', req'[c] = req[c]
  PROVE  Fits(c, kind)'
BY DEF Fits

\* All that main and the clients know stays true while they do nothing.
LEMMA FitsAtClientStays ==
  ASSUME FitsAtClient, granted \subseteq granted', UNCHANGED <<req, inbox, seen>>
  PROVE  FitsAtClient'
BY FitsStays DEF FitsAtClient

\* All that is known of a state in which no connection was lost.
Way ==
  /\ NothingStale
  /\ Inv /\ Attached /\ OwnInv /\ AuthKept
  /\ GrantedAtAuth /\ FitsInMain /\ FitsAtClient

\* The client main serves, if it is connected, asked for what is in the members.
LEMMA MembersAreOwn ==
  ASSUME Way, pc \in {"relay", "await", "reply"}, clients[i] \in connected
  PROVE  /\ clients[i] \in Client
         /\ req[clients[i]] # NoReq
         /\ action = req[clients[i]].cmd
         /\ credential = req[clients[i]].cred
<1>1. clients[i] \in Client
  BY DEF Way, OwnInv, TypeOK, ServerTypeOK
<1>2. NoReq.cmd \notin Cmd
  BY DEF NoReq, Cmd
<1>3. req[clients[i]] # NoReq => req[clients[i]].cred # NoCred
  BY <1>1 DEF Way, OwnInv, OneRequest, NothingStale
<1> QED  BY <1>1, <1>2, <1>3 DEF Way, OwnInv, RelayOwn, NothingStale

LEMMA WayClient ==
  ASSUME Way, NEW c \in Client, ClientStep(c), UNCHANGED <<serverVars, linkVars>>
  PROVE  GrantedAtAuth' /\ FitsInMain' /\ FitsAtClient'
<1>0. TypeOK /\ ClientTypeOK /\ OneRequest
  BY DEF Way, OwnInv, TypeOK
<1>1. UNCHANGED <<pc, clients, connected, i, action, credential, result, link,
                  fromAuth, granted>>
  BY DEF serverVars, linkVars
<1>2. GrantedAtAuth'
  BY <1>1 DEF Way, GrantedAtAuth
<1>3. ASSUME NEW d \in Client, req[d] # NoReq PROVE req'[d] = req[d]
  BY <1>0, <1>3 DEF ClientStep, Connect, ConnectRefused, SendToServer,
                    ReceiveFromServer, CloseSocket, Kill, ClientTypeOK, OneRequest
<1>4. FitsInMain'
  <2> SUFFICES ASSUME pc = "reply", clients[i] \in connected
               PROVE  Fits(clients[i], result)'
    BY <1>1 DEF FitsInMain
  <2>1. clients[i] \in Client /\ req'[clients[i]] = req[clients[i]]
    BY <1>3, MembersAreOwn
  <2>2. Fits(clients[i], result)
    BY DEF Way, FitsInMain
  <2> QED  BY <1>1, <2>1, <2>2 DEF Fits
<1>5. FitsAtClient'
  <2> SUFFICES ASSUME NEW d \in Client
               PROVE  /\ \A n \in DOMAIN inbox'[d] : Fits(d, inbox[d][n].kind)'
                      /\ seen'[d].kind # 0 => Fits(d, seen[d].kind)'
    BY DEF FitsAtClient
  <2>1. CASE inbox'[d] = inbox[d] /\ seen'[d] = seen[d]
    <3>1. req[d] = NoReq => inbox[d] = <<>> /\ seen[d].kind = 0
      BY <1>0 DEF OneRequest
    <3>2. CASE req[d] = NoReq
      BY <2>1, <3>1, <3>2
    <3>3. CASE req[d] # NoReq
      <4>1. req'[d] = req[d]
        BY <1>3, <3>3
      <4> QED  BY <1>1, <2>1, <4>1 DEF Way, FitsAtClient, Fits
    <3> QED  BY <3>2, <3>3
  <2>2. CASE d = c /\ ReceiveFromServer(c)
    <3> DEFINE r == Head(inbox[c])
    <3>1. inbox[c] \in Seq(Response) /\ inbox[c] # <<>> /\ req' = req
      BY <1>0, <2>2 DEF ReceiveFromServer, ClientTypeOK
    <3>2. r = inbox[c][1] /\ r \in Response /\ 1 \in DOMAIN inbox[c]
      BY <3>1
    <3>3. KindSeen(r, "clean") = r.kind
      BY <3>2, KindSurvives
    <3>4. seen'[c].kind = r.kind
      BY <1>0, <2>2, <3>3 DEF ReceiveFromServer, ClientTypeOK
    <3>5. inbox'[c] = Tail(inbox[c])
      BY <1>0, <2>2 DEF ReceiveFromServer, ClientTypeOK
    <3>6. \A n \in DOMAIN inbox'[c] : n + 1 \in DOMAIN inbox[c] /\ inbox'[c][n] = inbox[c][n + 1]
      BY <3>1, <3>5
    <3>7. \A n \in DOMAIN inbox[c] : Fits(c, inbox[c][n].kind)
      BY DEF Way, FitsAtClient
    <3>8. Fits(c, seen[c].kind)'
      BY <1>1, <3>1, <3>2, <3>4, <3>7 DEF Fits
    <3>9. \A n \in DOMAIN inbox'[c] : Fits(c, inbox[c][n].kind)'
      BY <1>1, <3>1, <3>6, <3>7 DEF Fits
    <3> QED  BY <2>2, <3>8, <3>9
  <2>3. \/ d = c /\ ReceiveFromServer(c)
        \/ inbox'[d] = inbox[d] /\ seen'[d] = seen[d]
    BY <1>0 DEF ClientStep, Connect, ConnectRefused, SendToServer, ReceiveFromServer,
                CloseSocket, Kill, ClientTypeOK
  <2> QED  BY <2>1, <2>2, <2>3
<1> QED  BY <1>2, <1>4, <1>5

\* What main does between two responses touches none.
LEMMA WayQuiet ==
  ASSUME Way, UNCHANGED <<req, inbox, seen, granted>>, pc' \notin {"await", "reply"}
  PROVE  GrantedAtAuth' /\ FitsInMain' /\ FitsAtClient'
BY FitsAtClientStays DEF Way, GrantedAtAuth, FitsInMain

LEMMA WayRelay ==
  ASSUME Way, Relay
  PROVE  GrantedAtAuth' /\ FitsInMain' /\ FitsAtClient'
<1>1. sock[link] = "up" /\ fromAuth[link] = <<>>
  BY DEF Way, Relay, Attached, AuthKept, Inv, TypeOK, LinkTypeOK, LockStep
<1>2. pc' = "await" /\ fromAuth'[link'] = <<>>
  BY <1>1 DEF Relay
<1>3. UNCHANGED <<req, inbox, seen, granted>>
  BY DEF Relay, clientVars
<1>4. FitsAtClient'
  BY <1>3, FitsAtClientStays DEF Way
<1> QED  BY <1>2, <1>4 DEF GrantedAtAuth, FitsInMain

\* Main reads the response to the request of the client it serves.
LEMMA WayAwait ==
  ASSUME Way, Await
  PROVE  GrantedAtAuth' /\ FitsInMain' /\ FitsAtClient'
<1>0. LinkTypeOK /\ ServerTypeOK
  BY DEF Way, Inv, TypeOK
<1>1. /\ pc = "await" /\ pc' = "reply"
      /\ UNCHANGED <<req, inbox, seen, granted, clients, connected, i>>
  BY DEF Await, clientVars
<1>2. sock[link] = "up"
  BY <1>0, <1>1 DEF Way, Attached, AuthKept, LinkTypeOK
<1>3. ReceiveAnswer
  BY <1>2 DEF Await, ReceiveEnd
<1>4. PICK r \in Answers(Relayed) : fromAuth[link] = <<r>>
  BY <1>1, <1>2, <1>3 DEF Way, Inv, LockStep, ReceiveAnswer
<1>5. Head(fromAuth[link]) = r /\ fromAuth[link][1] = r /\ 1 \in DOMAIN fromAuth[link]
  BY <1>4
<1>6. Relayed.id \in Nat
  BY <1>0 DEF Relayed, ServerTypeOK
<1>7. r \in Response /\ r.kind \in AnswerKinds(action)
  BY <1>6, AnswersFit DEF Relayed
<1>8. PICK tail \in Residue : result' = KindSeen(r, tail)
  BY <1>3, <1>5 DEF ReceiveAnswer
<1>9. result' = r.kind
  BY <1>7, <1>8, KindSurvives DEF Way, NothingStale
<1>10. IsSuccess(r.kind) => <<action, credential>> \in granted
  BY <1>1, <1>5 DEF Way, GrantedAtAuth
<1>11. FitsInMain'
  <2> SUFFICES ASSUME clients[i] \in connected PROVE Fits(clients[i], result)'
    BY <1>1 DEF FitsInMain
  <2> QED  BY <1>1, <1>7, <1>9, <1>10, MembersAreOwn DEF Fits
<1> QED  BY <1>1, <1>11, FitsAtClientStays DEF Way, GrantedAtAuth

\* Main sends the response to the client it serves, if that still waits.
LEMMA WayReply ==
  ASSUME Way, Reply
  PROVE  GrantedAtAuth' /\ FitsInMain' /\ FitsAtClient'
<1>0. ClientTypeOK /\ ServerTypeOK
  BY DEF Way, Inv, TypeOK
<1> DEFINE c == clients[i]
<1>1. /\ pc = "reply" /\ pc' = "scan" /\ c \in Client
      /\ UNCHANGED <<req, seen, granted>>
  BY <1>0 DEF Reply, ServerTypeOK, linkVars
<1>2. CASE chat[c] # "asked"
  <2>1. UNCHANGED inbox
    BY <1>2 DEF Reply
  <2> QED  BY <1>1, <2>1, WayQuiet
<1>3. CASE chat[c] = "asked"
  <2>1. Fits(c, result)
    BY <1>1, <1>3 DEF Way, OwnInv, ServesConnected, FitsInMain
  <2>2. \A n \in DOMAIN ResponseToChatClient : ResponseToChatClient[n].kind = result
    BY DEF ResponseToChatClient
  <2>3. inbox' = [inbox EXCEPT ![c] = inbox[c] \o ResponseToChatClient]
    BY <1>3 DEF Reply
  <2>4. inbox[c] \in Seq(Response) /\ ResponseToChatClient \in Seq(Response)
    BY <1>0, <1>1, ResponseType DEF ClientTypeOK, Way, Inv
  <2>5. inbox'[c] = inbox[c] \o ResponseToChatClient
    BY <1>0, <1>1, <2>3 DEF ClientTypeOK
  <2>6. \A n \in DOMAIN inbox'[c] :
          \/ n \in DOMAIN inbox[c] /\ inbox'[c][n] = inbox[c][n]
          \/ /\ n - Len(inbox[c]) \in DOMAIN ResponseToChatClient
             /\ inbox'[c][n] = ResponseToChatClient[n - Len(inbox[c])]
    BY <2>4, <2>5
  <2>7. \A n \in DOMAIN inbox'[c] : Fits(c, inbox'[c][n].kind)
    BY <1>1, <2>1, <2>2, <2>6 DEF Way, FitsAtClient
  <2>8. \A d \in Client : d # c => inbox'[d] = inbox[d]
    BY <1>0, <2>3 DEF ClientTypeOK
  <2>9. FitsAtClient'
    BY <1>1, <2>7, <2>8 DEF Way, FitsAtClient, Fits
  <2> QED  BY <1>1, <2>9 DEF GrantedAtAuth, FitsInMain
<1> QED  BY <1>2, <1>3

\* The authentication server grants a request before it answers it.
LEMMA WayAuth ==
  ASSUME Way, AuthStep, UNCHANGED <<clientVars, serverVars>>
  PROVE  GrantedAtAuth' /\ FitsInMain' /\ FitsAtClient'
<1>0. LinkTypeOK /\ ServerTypeOK /\ link \in Link
  BY DEF Way, Inv, TypeOK, LinkTypeOK
<1>1. UNCHANGED <<req, inbox, seen, pc, clients, connected, i, action, credential,
                  result, history>>
  BY DEF clientVars, serverVars
<1>2. granted \subseteq granted' /\ link' = link
  BY DEF AuthStep, AuthServe, SendAnswer, AuthExit, AuthStuck, AuthAcceptError,
         AuthKill, AuthStart, AuthGone
<1>3. FitsAtClient'
  BY <1>1, <1>2, FitsAtClientStays DEF Way
<1>4. FitsInMain'
  BY <1>1, <1>2 DEF Way, FitsInMain, Fits
<1>5. CASE fromAuth'[link] = fromAuth[link]
  <2>1. GrantedAtAuth'
    BY <1>1, <1>2, <1>5 DEF Way, GrantedAtAuth
  <2> QED  BY <1>3, <1>4, <2>1
<1>6. CASE fromAuth'[link] # fromAuth[link] /\ pc = "await"
  <2>1. sock[link] = "up"
    BY <1>0, <1>6 DEF Way, Attached, AuthKept
  <2>2. PICK k \in Link : AuthServe(k)
    BY <1>6 DEF AuthStep, AuthExit, AuthStuck, AuthAcceptError, AuthKill, AuthStart, AuthGone
  <2>3. k = link
    BY <1>0, <1>6, <2>2 DEF AuthServe, SendAnswer, LinkTypeOK
  <2>4. toAuth[link] = <<Relayed>> /\ fromAuth[link] = <<>>
    BY <1>6, <2>1, <2>2, <2>3 DEF AuthServe, Way, Inv, LockStep
  <2> DEFINE q == Relayed
  <2>5. q.cmd = action /\ q.cred = credential
    BY DEF Relayed
  <2> HIDE DEF q
  <2>6. toAuth[link] = <<q>> /\ Head(toAuth[link]) = q
    BY <2>4 DEF q
  <2>7. PICK r \in Answers(q) : SendAnswer(link, q, r)
    BY <2>2, <2>3, <2>6 DEF AuthServe
  <2>8. fromAuth'[link] = Append(<<>>, r) /\ Append(<<>>, r) = <<r>>
    BY <1>0, <2>1, <2>4, <2>7 DEF SendAnswer, LinkTypeOK
  <2>9. IsSuccess(r.kind) => <<action, credential>> \in granted'
    BY <2>5, <2>7 DEF SendAnswer
  <2>10. \A n \in DOMAIN fromAuth'[link] : fromAuth'[link][n] = r
    BY <2>8
  <2>11. GrantedAtAuth'
    BY <1>1, <1>2, <2>9, <2>10 DEF GrantedAtAuth
  <2> QED  BY <1>3, <1>4, <2>11
<1>7. CASE pc # "await"
  BY <1>1, <1>3, <1>4, <1>7 DEF GrantedAtAuth
<1> QED  BY <1>5, <1>6, <1>7

LEMMA WayStep ==
  ASSUME Way, [Next]_vars
  PROVE  GrantedAtAuth' /\ FitsInMain' /\ FitsAtClient'
<1>1. CASE \E c \in Client : ClientStep(c) /\ UNCHANGED <<serverVars, linkVars>>
  BY <1>1, WayClient
<1>2. CASE UNCHANGED vars
  BY <1>2 DEF vars, clientVars, serverVars, linkVars, Way, GrantedAtAuth, FitsInMain,
              FitsAtClient, Fits
<1>3. CASE \/ SelectConnection \/ AcceptConnection \/ AcceptError \/ SelectError
           \/ ScanNext \/ ReadFromClient \/ SkipRelay \/ ServerKill \/ ServerStart
  <2>1. UNCHANGED <<req, inbox, seen, granted>> /\ pc' \notin {"await", "reply"}
    BY <1>3
    DEF SelectConnection, AcceptConnection, AcceptError, SelectError, ScanNext,
        ReadFromClient, SkipRelay, ServerKill, ServerStart, ProcessEnds, clientVars,
        linkVars
  <2> QED  BY <2>1, WayQuiet
<1>4. CASE Relay
  BY <1>4, WayRelay
<1>5. CASE Await
  BY <1>5, WayAwait
<1>6. CASE Reply
  BY <1>6, WayReply
<1>7. CASE AuthStep /\ UNCHANGED <<clientVars, serverVars>>
  BY <1>7, WayAuth
<1> QED  BY <1>1, <1>2, <1>3, <1>4, <1>5, <1>6, <1>7 DEF Next, ServerStep

\* What is known of the answers, as long as no connection was lost.
OnItsWay ==
  NothingStale /\ AuthKept => GrantedAtAuth /\ FitsInMain /\ FitsAtClient

LEMMA OnItsWayHolds == Spec => []OnItsWay
<1>1. Init => OnItsWay
  BY DEF Init, ClientInit, ServerInit, OnItsWay, GrantedAtAuth, FitsInMain,
         FitsAtClient, NothingSeen
<1>2. Inv /\ Attached /\ OwnInv /\ OnItsWay /\ [Next]_vars => OnItsWay'
  <2> SUFFICES ASSUME Inv, Attached, OwnInv, OnItsWay, [Next]_vars,
                      NothingStale, AuthKept'
               PROVE  GrantedAtAuth' /\ FitsInMain' /\ FitsAtClient'
    BY DEF OnItsWay, NothingStale
  <2>1. AuthKept
    BY AuthKeptBefore DEF Inv, TypeOK
  <2>2. Way
    BY <2>1 DEF OnItsWay, Way
  <2> QED  BY <2>2, WayStep
<1>3. Spec => []Attached
  BY InitAttached, StepAttached, InvHolds, PTL DEF Spec
<1> QED  BY <1>1, <1>2, <1>3, InvHolds, OwnInvHolds, PTL DEF Spec

\* A user is told of a success only if the authentication server answered that
\* command and these credentials with a success, if there are no stale bytes
\* behind requests and responses and no request is empty: a stale tag behind a
\* failed creation makes a success of it.
THEOREM NoFalseSuccessHolds == Spec => [](NothingStale => NoFalseSuccess)
<1>1. OnItsWay => (NothingStale => NoFalseSuccess)
  <2> SUFFICES ASSUME OnItsWay, NothingStale, AuthKept,
                      NEW c \in Client, IsSuccess(seen[c].kind)
               PROVE  <<req[c].cmd, req[c].cred>> \in granted
    BY DEF NoFalseSuccess, AuthKept
  <2>1. seen[c].kind # 0
    BY DEF IsSuccess, AuthSuccess, CreateDetail
  <2> QED  BY <2>1 DEF OnItsWay, FitsAtClient, Fits
<1> QED  BY <1>1, OnItsWayHolds, PTL

\* The response a client reads is of a kind that answers its own command, under
\* the same condition.
THEOREM AnswerFitsCommandHolds == Spec => [](NothingStale => AnswerFitsCommand)
<1>1. OnItsWay /\ OwnInv => (NothingStale => AnswerFitsCommand)
  <2> SUFFICES ASSUME OnItsWay, OwnInv, NothingStale, AuthKept,
                      NEW c \in Client, chat[c] = "done"
               PROVE  seen[c].kind \in AnswerKinds(req[c].cmd)
    BY DEF AnswerFitsCommand, AuthKept
  <2>1. seen[c].kind # 0
    BY DEF OwnInv, OneRequest
  <2> QED  BY <2>1 DEF OnItsWay, FitsAtClient, Fits
<1> QED  BY <1>1, OnItsWayHolds, OwnInvHolds, PTL

-----------------------------------------------------------------------------
(* The vector of clients.                                                  *)

\* No client is twice in the vector or in the backlog, and one that never
\* connected is in neither.
Distinct ==
  /\ \A m, n \in DOMAIN clients : clients[m] = clients[n] => m = n
  /\ \A m, n \in DOMAIN backlog : backlog[m] = backlog[n] => m = n
  /\ \A m \in DOMAIN clients, n \in DOMAIN backlog : clients[m] # backlog[n]
  /\ \A n \in DOMAIN clients : chat[clients[n]] # "idle"
  /\ \A n \in DOMAIN backlog : chat[backlog[n]] # "idle"

\* Nobody becomes idle, and what was seen of a client stays true.
LEMMA ClientsProgress ==
  ASSUME TypeOK, [Next]_vars, NEW c \in Client, chat[c] # "idle"
  PROVE  chat'[c] # "idle"
<1>0. ClientTypeOK
  BY DEF TypeOK
<1>1. ASSUME NEW d \in Client, ClientStep(d) PROVE chat'[c] # "idle"
  <2>1. PICK place \in ChatState \ {"idle"} : chat' = [chat EXCEPT ![d] = place]
    BY <1>1 DEF ClientStep, Connect, ConnectRefused, SendToServer, ReceiveFromServer,
                CloseSocket, Kill, ChatState
  <2> QED  BY <1>0, <2>1 DEF ClientTypeOK
<1>2. CASE SelectError \/ ServerKill
  BY <1>2 DEF SelectError, ServerKill, ProcessEnds
<1>3. CASE chat' = chat
  BY <1>3
<1> QED  BY <1>1, <1>2, <1>3
  DEF Next, ServerStep, SelectConnection, AcceptConnection, AcceptError, ScanNext,
      ReadFromClient, SkipRelay, Relay, Await, Reply, ServerStart, clientVars, vars

LEMMA DistinctConnect ==
  ASSUME TypeOK, Distinct, NEW c \in Client, Connect(c), UNCHANGED serverVars
  PROVE  Distinct'
<1>1. /\ backlog \in Seq(Client) /\ clients \in Seq(Client)
      /\ chat \in [Client -> ChatState]
  BY DEF TypeOK, ClientTypeOK, ServerTypeOK
<1>2. /\ clients' = clients /\ backlog' = Append(backlog, c) /\ chat[c] = "idle"
      /\ chat' = [chat EXCEPT ![c] = "open"]
  BY DEF Connect, serverVars
<1>3. /\ Len(backlog) \in Nat /\ DOMAIN backlog = 1..Len(backlog)
      /\ DOMAIN backlog' = 1..(Len(backlog) + 1)
      /\ \A n \in DOMAIN backlog' : backlog'[n] =
           IF n = Len(backlog) + 1 THEN c ELSE backlog[n]
  BY <1>1, <1>2
<1>4. \A d \in Client : chat'[d] = IF d = c THEN "open" ELSE chat[d]
  BY <1>1, <1>2
<1>5. \A n \in DOMAIN clients : clients[n] \in Client /\ clients[n] # c
  BY <1>1, <1>2 DEF Distinct
<1>6. \A n \in DOMAIN backlog : backlog[n] \in Client /\ backlog[n] # c
  BY <1>1, <1>2 DEF Distinct
<1>7. /\ \A n \in DOMAIN clients : chat'[clients[n]] # "idle"
      /\ \A n \in DOMAIN backlog' : chat'[backlog'[n]] # "idle"
  BY <1>3, <1>4, <1>5, <1>6 DEF Distinct
<1> QED  BY <1>2, <1>3, <1>5, <1>6, <1>7 DEF Distinct

\* The head of the backlog moves to the end of the vector, or is dropped.
LEMMA DistinctAccept ==
  ASSUME TypeOK, Distinct, AcceptConnection \/ AcceptError
  PROVE  Distinct'
<1>1. backlog \in Seq(Client) /\ clients \in Seq(Client)
  BY DEF TypeOK, ClientTypeOK, ServerTypeOK
<1>2. chat' = chat
  BY DEF AcceptConnection, AcceptError
<1>3. CASE UNCHANGED <<clients, backlog>>
  BY <1>2, <1>3 DEF Distinct
<1>4. CASE ~UNCHANGED <<clients, backlog>>
  <2>1. /\ clients' = clients \/ clients' = Append(clients, Head(backlog))
        /\ backlog' = Tail(backlog) /\ backlog # <<>>
    BY <1>4 DEF AcceptConnection, AcceptError, TypeOK, ServerTypeOK
  <2>2. /\ DOMAIN clients = 1..Len(clients) /\ DOMAIN backlog = 1..Len(backlog)
        /\ Len(clients) \in Nat /\ Len(backlog) \in Nat \ {0}
        /\ Head(backlog) = backlog[1]
    BY <1>1, <2>1
  <2>3. /\ DOMAIN backlog' = 1..(Len(backlog) - 1)
        /\ \A n \in DOMAIN backlog' : backlog'[n] = backlog[n + 1]
    BY <1>1, <2>1, <2>2
  <2>4. CASE clients' = clients
    BY <1>2, <2>2, <2>3, <2>4 DEF Distinct
  <2>5. CASE clients' = Append(clients, Head(backlog))
    <3>1. /\ DOMAIN clients' = 1..(Len(clients) + 1)
          /\ \A n \in DOMAIN clients' : clients'[n] =
               IF n = Len(clients) + 1 THEN backlog[1] ELSE clients[n]
      BY <1>1, <2>2, <2>5
    <3>2. \A m, n \in DOMAIN clients' : clients'[m] = clients'[n] => m = n
      BY <2>2, <3>1 DEF Distinct
    <3>3. \A m, n \in DOMAIN backlog' : backlog'[m] = backlog'[n] => m = n
      BY <2>2, <2>3 DEF Distinct
    <3>4. \A m \in DOMAIN clients', n \in DOMAIN backlog' : clients'[m] # backlog'[n]
      BY <2>2, <2>3, <3>1 DEF Distinct
    <3>5. /\ \A n \in DOMAIN clients' : chat'[clients'[n]] # "idle"
          /\ \A n \in DOMAIN backlog' : chat'[backlog'[n]] # "idle"
      BY <1>2, <2>2, <2>3, <3>1 DEF Distinct
    <3> QED  BY <3>2, <3>3, <3>4, <3>5 DEF Distinct
  <2> QED  BY <2>1, <2>4, <2>5
<1> QED  BY <1>3, <1>4

LEMMA DistinctStep ==
  ASSUME TypeOK, Distinct, [Next]_vars
  PROVE  Distinct'
<1>1. CASE \E c \in Client : Connect(c) /\ UNCHANGED serverVars
  BY <1>1, DistinctConnect
<1>2. CASE AcceptConnection \/ AcceptError
  BY <1>2, DistinctAccept
<1>3. ASSUME clients' \in {clients, <<>>}, backlog' \in {backlog, <<>>}
      PROVE  Distinct'
  <2>1. /\ \A n \in DOMAIN clients : clients[n] \in Client
        /\ \A n \in DOMAIN backlog : backlog[n] \in Client
    BY DEF TypeOK, ClientTypeOK, ServerTypeOK
  <2>2. \A n \in DOMAIN clients' : n \in DOMAIN clients /\ clients'[n] = clients[n]
    BY <1>3
  <2>3. \A n \in DOMAIN backlog' : n \in DOMAIN backlog /\ backlog'[n] = backlog[n]
    BY <1>3
  <2> QED  BY <2>1, <2>2, <2>3, ClientsProgress DEF Distinct
<1>4. CASE \E c \in Client : /\ ClientStep(c) /\ ~Connect(c)
                             /\ UNCHANGED <<serverVars, linkVars>>
  <2>1. clients' = clients /\ backlog' = backlog
    BY <1>4 DEF ClientStep, ConnectRefused, SendToServer, ReceiveFromServer,
                CloseSocket, Kill, serverVars
  <2> QED  BY <1>3, <2>1
<1>5. CASE \/ SelectConnection \/ SelectError \/ ScanNext \/ ReadFromClient
           \/ SkipRelay \/ Relay \/ Await \/ Reply \/ ServerKill \/ ServerStart
           \/ UNCHANGED vars
  <2>1. clients' \in {clients, <<>>} /\ backlog' \in {backlog, <<>>}
    BY <1>5
    DEF SelectConnection, SelectError, ScanNext, ReadFromClient, SkipRelay, Relay,
        Await, Reply, ServerKill, ServerStart, ProcessEnds, clientVars, serverVars, vars
  <2> QED  BY <1>3, <2>1
<1>6. CASE AuthStep /\ UNCHANGED <<clientVars, serverVars>>
  <2>1. clients' = clients /\ backlog' = backlog
    BY <1>6 DEF clientVars, serverVars
  <2> QED  BY <1>3, <2>1
<1> QED  BY <1>1, <1>2, <1>4, <1>5, <1>6 DEF Next, ServerStep

LEMMA InitDistinct == Init => Distinct
BY DEF Init, ClientInit, ServerInit, Distinct

LEMMA DistinctHolds == Spec => []Distinct
BY InitDistinct, DistinctStep, TypeCorrect, PTL DEF Spec

-----------------------------------------------------------------------------
(* recv does not block.                                                    *)

\* What select found on the clients the scan has yet to come to is still there.
StillThere ==
  /\ pc = "accept" => \A c \in ready : Pending(c)
  /\ pc \in {"scan", "read"} =>
       \A n \in 1..i : clients[n] \in ready => Pending(clients[n])
  /\ pc \in {"relay", "await", "reply"} =>
       \A n \in 1..(i - 1) : clients[n] \in ready => Pending(clients[n])
  /\ pc = "read" => clients[i] \in ready

\* A client never takes back what it sent or how it ended.
LEMMA ClientKeepsPending ==
  ASSUME TypeOK, NEW d \in Client, ClientStep(d), NEW c \in Client, Pending(c)
  PROVE  Pending(c)'
<1>0. ClientTypeOK
  BY DEF TypeOK
<1>1. CASE SendToServer(d)
  <2>1. PICK q : outbox' = [outbox EXCEPT ![d] = Append(@, q)]
    BY <1>1 DEF SendToServer
  <2>2. outbox'[c] = IF c = d THEN Append(outbox[c], q) ELSE outbox[c]
    BY <1>0, <2>1 DEF ClientTypeOK
  <2>3. outbox[c] \in Seq(Request)
    BY <1>0 DEF ClientTypeOK
  <2>4. chat[c] \in {"fin", "rst"} => chat'[c] = chat[c]
    BY <1>0, <1>1 DEF SendToServer, ClientTypeOK
  <2> QED  BY <2>2, <2>4, <2>3, AppendProperties DEF Pending
<1>2. CASE ~SendToServer(d)
  <2>1. outbox' = outbox
    BY <1>2 DEF ClientStep, Connect, ConnectRefused, ReceiveFromServer, CloseSocket, Kill
  <2>2. chat[c] \in {"fin", "rst"} => chat'[c] = chat[c]
    BY <1>0, <1>2 DEF ClientStep, Connect, ConnectRefused, ReceiveFromServer,
                      CloseSocket, Kill, ClientTypeOK
  <2> QED  BY <2>1, <2>2 DEF Pending
<1> QED  BY <1>1, <1>2

\* Reading from one client leaves what the others sent.
LEMMA StillThereRead ==
  ASSUME TypeOK, Distinct, StillThere, ReadFromClient
  PROVE  StillThere'
<1>1. /\ i \in 1..Len(clients) /\ DOMAIN clients = 1..Len(clients)
      /\ Len(clients) \in Nat /\ ClientTypeOK
      /\ \A n \in DOMAIN clients : clients[n] \in Client
  BY DEF TypeOK, ServerTypeOK, ReadFromClient
<1>2. /\ UNCHANGED <<clients, ready, i, chat>> /\ pc = "read" /\ pc' = "relay"
  BY DEF ReadFromClient
<1>3. \/ outbox' = outbox
      \/ outbox' = [outbox EXCEPT ![clients[i]] = Tail(@)]
  BY DEF ReadFromClient, ReadRequest, ReadEnd
<1>4. \A n \in 1..(i - 1) : n \in DOMAIN clients /\ n # i /\ n \in 1..i
  BY <1>1
<1>5. \A n \in 1..(i - 1) : clients[n] # clients[i] /\ clients[n] \in Client
  BY <1>1, <1>4 DEF Distinct
<1>6. \A n \in 1..(i - 1) : outbox'[clients[n]] = outbox[clients[n]]
  BY <1>1, <1>3, <1>5 DEF ClientTypeOK
<1> QED  BY <1>2, <1>4, <1>6 DEF StillThere, Pending

LEMMA StillThereStep ==
  ASSUME TypeOK, Distinct, StillThere, [Next]_vars
  PROVE  StillThere'
<1>0. ServerTypeOK /\ ClientTypeOK /\ i \in Nat /\ Len(clients) \in Nat
  BY DEF TypeOK, ServerTypeOK
<1>1. CASE \E c \in Client : ClientStep(c) /\ UNCHANGED <<serverVars, linkVars>>
  <2>1. UNCHANGED <<pc, clients, ready, i>>
    BY <1>1 DEF serverVars
  <2>2. \A c \in Client : Pending(c) => Pending(c)'
    BY <1>1, ClientKeepsPending
  <2>3. ready \subseteq Client /\ \A n \in 1..i : clients[n] \in Client
    BY <1>0 DEF ServerTypeOK
  <2>4. \A n \in 1..(i - 1) : n \in 1..i
    BY <1>0
  <2> QED  BY <2>1, <2>2, <2>3, <2>4 DEF StillThere
<1>2. CASE UNCHANGED <<outbox, chat, pc, clients, ready, i>>
  BY <1>2 DEF StillThere, Pending
<1>3. CASE \/ UNCHANGED vars
           \/ AuthStep /\ UNCHANGED <<clientVars, serverVars>>
  BY <1>2, <1>3 DEF vars, clientVars, serverVars
<1>4. CASE SelectConnection
  BY <1>4 DEF SelectConnection, clientVars, StillThere, Pending
<1>5. CASE AcceptConnection \/ AcceptError
  <2>1. UNCHANGED <<outbox, chat, ready>> /\ pc = "accept" /\ pc' = "scan"
    BY <1>5 DEF AcceptConnection, AcceptError
  <2> QED  BY <2>1 DEF StillThere, Pending
<1>6. CASE ScanNext
  <2>1. /\ UNCHANGED <<outbox, chat, clients, ready>> /\ pc = "scan"
        /\ i' = i \/ i' = i - 1
        /\ pc' = "scan" \/ pc' = "poll" \/ (pc' = "read" /\ i' = i /\ clients[i] \in ready)
    BY <1>6 DEF ScanNext, IsReady, clientVars
  <2>2. \A n \in 1..i' : n \in 1..i
    BY <1>0, <2>1
  <2> QED  BY <2>1, <2>2 DEF StillThere, Pending
<1>7. CASE ReadFromClient
  BY <1>7, StillThereRead
<1>8. CASE SkipRelay \/ Reply
  <2>1. /\ UNCHANGED <<outbox, chat, clients, ready>>
        /\ pc \in {"relay", "reply"} /\ pc' = "scan" /\ i' = i - 1
    BY <1>8 DEF SkipRelay, Reply, clientVars
  <2> QED  BY <2>1 DEF StillThere, Pending
<1>9. CASE Relay \/ Await
  <2>1. /\ UNCHANGED <<outbox, chat, clients, ready, i>>
        /\ pc \in {"relay", "await"} /\ pc' \in {"await", "reply"}
    BY <1>9 DEF Relay, Await, clientVars
  <2> QED  BY <2>1 DEF StillThere, Pending
<1>10. CASE SelectError \/ ServerKill \/ ServerStart
  <2>1. pc' \in {"crashed", "poll"}
    BY <1>10 DEF SelectError, ServerKill, ServerStart, ProcessEnds
  <2> QED  BY <2>1 DEF StillThere
<1> QED  BY <1>1, <1>3, <1>4, <1>5, <1>6, <1>7, <1>8, <1>9, <1>10 DEF Next, ServerStep

\* The only thread of the chat server calls recv on a client only when there is
\* something to read or its end to notice: whatever the clients did since select
\* looked, and for any number of them.
THEOREM RecvNeverBlocksHolds == Spec => []RecvNeverBlocks
<1>1. Init => StillThere
  BY DEF Init, ServerInit, StillThere
<1>2. TypeOK /\ StillThere => RecvNeverBlocks
  BY DEF TypeOK, ServerTypeOK, StillThere, RecvNeverBlocks
<1> QED  BY <1>1, <1>2, DistinctHolds, StillThereStep, TypeCorrect, PTL DEF Spec

-----------------------------------------------------------------------------
(* Requests without credentials.                                           *)

\* The members hold no credentials until the first request is read: what is
\* relayed before is the first request, and it is never answered.
NoneRead ==
  credential = NoCred /\ pc # "crashed" /\ sock[link] = "up" =>
    IF pc = "await" THEN history = 1 /\ fromAuth[link] = <<>> ELSE history = 0

BareInv == BareRequestIsFirst /\ NoneRead

\* Nothing is added to what is under way, and main knows what it did.
LEMMA BareQuiet ==
  ASSUME BareInv, UNCHANGED <<toAuth, fromAuth, link, sock, history>>,
         credential' = credential \/ credential' # NoCred,
         pc' # "await", pc # "await", pc # "crashed"
  PROVE  BareInv'
BY DEF BareInv, BareRequestIsFirst, NoneRead

LEMMA BareRelay ==
  ASSUME Inv, BareInv, Relay
  PROVE  BareInv'
<1>0. LinkTypeOK /\ ServerTypeOK /\ link \in Link
  BY DEF Inv, TypeOK, LinkTypeOK
<1> DEFINE q == [cmd |-> action, id |-> history + 1, cred |-> credential]
<1>1. /\ pc = "relay" /\ pc' = "await" /\ history' = history + 1
      /\ UNCHANGED <<credential, link, fromAuth>>
  BY DEF Relay
<1>2. CASE sock[link] = "up"
  <2>1. toAuth[link] = <<>> /\ fromAuth[link] = <<>>
    BY <1>1, <1>2 DEF Inv, LockStep
  <2>2. credential = NoCred => history = 0
    BY <1>1, <1>2 DEF BareInv, NoneRead
  <2>3. toAuth' = [toAuth EXCEPT ![link] = Append(toAuth[link], q)]
    BY <1>2 DEF Relay
  <2>4. q.id = history + 1 /\ q.cred = credential
    OBVIOUS
  <2> HIDE DEF q
  <2>5. Append(<<>>, q) = <<q>>
    OBVIOUS
  <2>6. \A k \in Link : toAuth'[k] = IF k = link THEN <<q>> ELSE toAuth[k]
    BY <1>0, <2>1, <2>3, <2>5 DEF LinkTypeOK
  <2>7. BareRequestIsFirst'
    BY <2>2, <2>4, <2>6 DEF BareInv, BareRequestIsFirst
  <2>8. NoneRead'
    BY <1>1, <2>1, <2>2 DEF NoneRead
  <2> QED  BY <2>7, <2>8 DEF BareInv
<1>3. CASE sock[link] # "up"
  <2>1. toAuth' = toAuth /\ sock'[link] # "up"
    BY <1>0, <1>3 DEF Relay, LinkTypeOK
  <2> QED  BY <1>1, <2>1 DEF BareInv, BareRequestIsFirst, NoneRead
<1> QED  BY <1>2, <1>3

LEMMA BareAwait ==
  ASSUME BareInv, Await
  PROVE  BareInv'
<1>1. UNCHANGED <<toAuth, link, sock, credential>> /\ pc = "await"
  BY DEF Await
<1>2. ~(credential = NoCred /\ sock[link] = "up")
  BY <1>1 DEF Await, ReceiveAnswer, ReceiveEnd, BareInv, NoneRead
<1> QED  BY <1>1, <1>2 DEF BareInv, BareRequestIsFirst, NoneRead

\* A request without credentials is not answered: it ends the process.
LEMMA BareAuth ==
  ASSUME Inv, BareInv, AuthStep, UNCHANGED serverVars
  PROVE  BareInv'
<1>0. LinkTypeOK /\ link \in Link
  BY DEF Inv, TypeOK, LinkTypeOK
<1>1. UNCHANGED <<pc, credential, history>>
  BY DEF serverVars
<1>2. ASSUME NEW k \in Link, AuthServe(k) PROVE BareInv'
  <2>1. /\ toAuth[k] # <<>> /\ toAuth' = [toAuth EXCEPT ![k] = Tail(@)]
        /\ Head(toAuth[k]).cred # NoCred /\ link' = link
        /\ sock'[link] = "up" => sock[link] = "up"
    BY <1>0, <1>2 DEF AuthServe, SendAnswer, Readable, LinkTypeOK
  <2>2. toAuth[k] \in Seq(Request)
    BY <1>0 DEF LinkTypeOK
  <2>3. \A n \in DOMAIN Tail(toAuth[k]) :
          n + 1 \in DOMAIN toAuth[k] /\ Tail(toAuth[k])[n] = toAuth[k][n + 1]
    BY <2>1, <2>2
  <2>4. \A j \in Link : toAuth'[j] = IF j = k THEN Tail(toAuth[k]) ELSE toAuth[j]
    BY <1>0, <2>1 DEF LinkTypeOK
  <2>5. BareRequestIsFirst'
    <3> SUFFICES ASSUME NEW j \in Link, NEW n \in DOMAIN toAuth'[j],
                        toAuth'[j][n].cred = NoCred
                 PROVE  toAuth'[j][n].id = 1
      BY DEF BareRequestIsFirst
    <3>1. \E m \in DOMAIN toAuth[j] : toAuth'[j][n] = toAuth[j][m]
      BY <2>3, <2>4
    <3> QED  BY <3>1 DEF BareInv, BareRequestIsFirst
  <2>6. CASE k # link \/ sock[link] # "up"
    <3>1. sock[link] = "up" => fromAuth'[link] = fromAuth[link]
      BY <1>0, <1>2, <2>6 DEF AuthServe, SendAnswer, LinkTypeOK
    <3> QED  BY <1>1, <2>1, <2>5, <3>1 DEF BareInv, NoneRead
  <2>7. CASE k = link /\ sock[link] = "up"
    <3>1. toAuth[link] = <<Relayed>>
      BY <2>1, <2>7 DEF Inv, LockStep
    <3> DEFINE q == Relayed
    <3>2. q.cred = credential
      BY DEF Relayed
    <3> HIDE DEF q
    <3>3. Head(toAuth[link]) = q
      BY <3>1 DEF q
    <3>4. credential # NoCred
      BY <2>1, <2>7, <3>2, <3>3
    <3> QED  BY <1>1, <2>5, <3>4 DEF BareInv, NoneRead
  <2> QED  BY <2>6, <2>7
<1>3. ASSUME NEW end \in {"fin", "rst"}, AuthGone(end) PROVE BareInv'
  <2>1. sock'[link] # "up" /\ link' = link /\ \A k \in Link : toAuth'[k] = <<>>
    BY <1>0, <1>3 DEF AuthGone, LinkTypeOK
  <2> QED  BY <2>1 DEF BareInv, BareRequestIsFirst, NoneRead
<1>4. CASE (\E k \in Link : AuthStuck(k)) \/ AuthStart
  <2>1. UNCHANGED <<toAuth, fromAuth, link>> /\ (sock'[link] = "up" => sock[link] = "up")
    BY <1>0, <1>4 DEF AuthStuck, AuthStart, LinkTypeOK
  <2> QED  BY <1>1, <2>1 DEF BareInv, BareRequestIsFirst, NoneRead
<1> QED  BY <1>2, <1>3, <1>4 DEF AuthStep, AuthExit, AuthAcceptError, AuthKill

LEMMA BareStep == Inv /\ BareInv /\ [Next]_vars => BareInv'
<1> SUFFICES ASSUME Inv, BareInv, [Next]_vars PROVE BareInv'
  OBVIOUS
<1>1. CASE \/ UNCHANGED vars
           \/ \E c \in Client : ClientStep(c) /\ UNCHANGED <<serverVars, linkVars>>
  BY <1>1 DEF vars, serverVars, linkVars, BareInv, BareRequestIsFirst, NoneRead
<1>2. CASE SelectConnection \/ AcceptConnection \/ AcceptError \/ ScanNext \/ SkipRelay \/ Reply
  BY <1>2, BareQuiet
  DEF SelectConnection, AcceptConnection, AcceptError, ScanNext, SkipRelay, Reply, linkVars
<1>3. CASE ReadFromClient
  BY <1>3, BareQuiet DEF ReadFromClient, ReadRequest, ReadEnd, Readable, linkVars
<1>4. CASE SelectError \/ ServerKill
  BY <1>4 DEF SelectError, ServerKill, ProcessEnds, BareInv, BareRequestIsFirst, NoneRead
<1>5. CASE ServerStart
  BY <1>5 DEF ServerStart, BareInv, BareRequestIsFirst, NoneRead
<1>6. CASE Relay
  BY <1>6, BareRelay
<1>7. CASE Await
  BY <1>7, BareAwait
<1>8. CASE AuthStep /\ UNCHANGED <<clientVars, serverVars>>
  BY <1>8, BareAuth
<1> QED  BY <1>1, <1>2, <1>3, <1>4, <1>5, <1>6, <1>7, <1>8 DEF Next, ServerStep

\* A request without an email or a password, which ends the authentication
\* server, can only be the first that a chat server process sends.
THEOREM BareRequestIsFirstHolds == Spec => []BareRequestIsFirst
<1>1. Init => BareInv
  BY DEF Init, ServerInit, LinkInit, BareInv, BareRequestIsFirst, NoneRead
<1>2. BareInv => BareRequestIsFirst
  BY DEF BareInv
<1> QED  BY <1>1, <1>2, BareStep, InvHolds, PTL DEF Spec

-----------------------------------------------------------------------------
(* Relays.                                                                 *)

Accepted == {clients[n] : n \in DOMAIN clients}

\* Each request read and each end noticed allows one relay, and main is about
\* to use the last of them when it comes to relay.
Owed ==
  /\ IsFiniteSet(Accepted)
  /\ pc # "crashed" =>
       history + (IF pc = "relay" THEN 1 ELSE 0)
         <= Cardinality(RequestRead) + Cardinality(EndRead)

LEMMA AcceptedFinite ==
  ASSUME IsFiniteSet(Accepted)
  PROVE  /\ IsFiniteSet(RequestRead) /\ Cardinality(RequestRead) \in Nat
         /\ IsFiniteSet(EndRead) /\ Cardinality(EndRead) \in Nat
<1>1. RequestRead \subseteq Accepted /\ EndRead \subseteq Accepted
  BY DEF RequestRead, EndRead, Accepted
<1> QED  BY <1>1, FS_Subset, FS_CardinalityType

\* Nothing that allows a relay is lost by a step that relays nothing.
LEMMA OwedGrows ==
  ASSUME TypeOK, Owed, IsFiniteSet(Accepted'), history' = history,
         RequestRead \subseteq RequestRead', EndRead \subseteq EndRead',
         pc # "crashed", pc' = "relay" => pc = "relay"
  PROVE  Owed'
<1>1. /\ Cardinality(RequestRead) \in Nat /\ Cardinality(EndRead) \in Nat
      /\ IsFiniteSet(RequestRead') /\ Cardinality(RequestRead') \in Nat
      /\ IsFiniteSet(EndRead') /\ Cardinality(EndRead') \in Nat
  <2>1. \A S, T : S \subseteq T /\ IsFiniteSet(T) =>
          IsFiniteSet(S) /\ Cardinality(S) \in Nat
    BY FS_Subset, FS_CardinalityType
  <2>2. RequestRead' \subseteq Accepted' /\ EndRead' \subseteq Accepted'
    BY DEF RequestRead, EndRead, Accepted
  <2> QED  BY <2>1, <2>2, AcceptedFinite DEF Owed
<1>2. Cardinality(RequestRead) <= Cardinality(RequestRead')
  BY <1>1, FS_Subset
<1>3. Cardinality(EndRead) <= Cardinality(EndRead')
  BY <1>1, FS_Subset
<1>4. history \in Nat
  BY DEF TypeOK, ServerTypeOK
<1> QED  BY <1>1, <1>2, <1>3, <1>4 DEF Owed

\* Reading from a client counts once more: a request that was not read before,
\* or the end of one that was connected.
LEMMA OwedRead ==
  ASSUME TypeOK, OneRequest, Owed, pc = "read" => clients[i] \in connected,
         ReadFromClient
  PROVE  Owed'
<1>0. ClientTypeOK /\ ServerTypeOK /\ history \in Nat
  BY DEF TypeOK, ServerTypeOK
<1> DEFINE c == clients[i]
<1>1. /\ UNCHANGED <<chat, req, clients, history>> /\ pc' = "relay" /\ pc = "read"
      /\ i \in DOMAIN clients /\ c \in Client /\ c \in connected
  BY <1>0 DEF ReadFromClient, ServerTypeOK
<1>2. /\ IsFiniteSet(RequestRead) /\ Cardinality(RequestRead) \in Nat
      /\ IsFiniteSet(EndRead) /\ Cardinality(EndRead) \in Nat
      /\ IsFiniteSet(Accepted')
  BY <1>1, AcceptedFinite DEF Owed, Accepted
<1>3. history <= Cardinality(RequestRead) + Cardinality(EndRead)
  BY <1>0, <1>1 DEF Owed
<1>4. CASE ReadRequest(c)
  <2>1. /\ outbox[c] = <<req[c]>> /\ req[c] # NoReq /\ connected' = connected
        /\ outbox' = [outbox EXCEPT ![c] = Tail(@)]
    BY <1>1, <1>4 DEF ReadRequest, OneRequest
  <2>2. Tail(outbox[c]) = <<>>
    BY <2>1
  <2>3. \A d \in Client : outbox'[d] = IF d = c THEN <<>> ELSE outbox[d]
    BY <1>0, <2>1, <2>2 DEF ClientTypeOK
  <2>4. RequestRead' = RequestRead \cup {c} /\ c \notin RequestRead
    BY <1>1, <2>1, <2>3 DEF RequestRead
  <2>5. EndRead' = EndRead
    BY <1>1, <2>1 DEF EndRead
  <2>6. Cardinality(RequestRead') = Cardinality(RequestRead) + 1
    BY <1>2, <2>4, FS_AddElement
  <2> QED  BY <1>0, <1>1, <1>2, <1>3, <2>5, <2>6 DEF Owed
<1>5. CASE ReadEnd(c)
  <2>1. outbox' = outbox /\ connected' = connected \ {c}
    BY <1>5 DEF ReadEnd
  <2>2. RequestRead' = RequestRead
    BY <1>1, <2>1 DEF RequestRead
  <2>3. EndRead' = EndRead \cup {c} /\ c \notin EndRead
    BY <1>1, <2>1 DEF EndRead
  <2>4. Cardinality(EndRead') = Cardinality(EndRead) + 1
    BY <1>2, <2>3, FS_AddElement
  <2> QED  BY <1>0, <1>1, <1>2, <1>3, <2>2, <2>4 DEF Owed
<1> QED  BY <1>4, <1>5 DEF ReadFromClient

LEMMA OwedAccept ==
  ASSUME TypeOK, Distinct, Owed, AcceptConnection
  PROVE  Owed'
<1>0. backlog \in Seq(Client) /\ clients \in Seq(Client)
  BY DEF TypeOK, ClientTypeOK, ServerTypeOK
<1>1. UNCHANGED <<req, outbox, history>> /\ pc = "accept" /\ pc' = "scan"
  BY DEF AcceptConnection
<1>2. CASE acceptReady
  <2> DEFINE c == Head(backlog)
  <2>1. /\ backlog # <<>> /\ clients' = Append(clients, c)
        /\ connected' = connected \cup {c}
    BY <1>1, <1>2 DEF AcceptConnection, TypeOK, ServerTypeOK
  <2>2. c = backlog[1] /\ 1 \in DOMAIN backlog /\ c \in Client
    BY <1>0, <2>1
  <2>3. c \notin Accepted
    BY <2>2 DEF Distinct, Accepted
  <2>4. /\ DOMAIN clients = 1..Len(clients) /\ Len(clients) \in Nat
        /\ DOMAIN clients' = 1..(Len(clients) + 1)
        /\ \A n \in DOMAIN clients' :
             clients'[n] = IF n = Len(clients) + 1 THEN c ELSE clients[n]
    BY <1>0, <2>1, <2>2
  <2>5. Accepted' = Accepted \cup {c}
    <3>1. Accepted' \subseteq Accepted \cup {c}
      BY <2>4 DEF Accepted
    <3>2. \A n \in DOMAIN clients : n \in DOMAIN clients' /\ clients'[n] = clients[n]
      BY <2>4
    <3>3. Len(clients) + 1 \in DOMAIN clients' /\ clients'[Len(clients) + 1] = c
      BY <2>4
    <3> QED  BY <3>1, <3>2, <3>3 DEF Accepted
  <2>6. IsFiniteSet(Accepted')
    BY <2>5, FS_AddElement DEF Owed
  <2>7. EndRead \subseteq EndRead'
    BY <2>1, <2>3, <2>5 DEF EndRead, Accepted
  <2>8. RequestRead \subseteq RequestRead'
    BY <1>1, <2>4 DEF RequestRead
  <2> QED  BY <1>1, <2>6, <2>7, <2>8, OwedGrows
<1>3. CASE ~acceptReady
  <2>1. UNCHANGED <<clients, connected>>
    BY <1>3 DEF AcceptConnection
  <2>2. Accepted' = Accepted /\ RequestRead' = RequestRead /\ EndRead' = EndRead
    BY <1>1, <2>1 DEF Accepted, RequestRead, EndRead
  <2> QED  BY <1>1, <2>2 DEF Owed
<1> QED  BY <1>2, <1>3

LEMMA OwedStep == OwnInv /\ Distinct /\ Owed /\ [Next]_vars => Owed'
<1> SUFFICES ASSUME OwnInv, Distinct, Owed, [Next]_vars PROVE Owed'
  OBVIOUS
<1>0. TypeOK /\ OneRequest /\ ClientTypeOK /\ history \in Nat
  BY DEF OwnInv, TypeOK, ServerTypeOK
<1>1. CASE \E d \in Client : ClientStep(d) /\ UNCHANGED <<serverVars, linkVars>>
  <2>1. UNCHANGED <<pc, clients, connected, history>>
    BY <1>1 DEF serverVars
  <2>2. Accepted' = Accepted /\ EndRead' = EndRead
    BY <2>1 DEF Accepted, EndRead
  <2>3. \A c \in Client : req[c] # NoReq /\ outbox[c] = <<>> =>
                         req'[c] = req[c] /\ outbox'[c] = outbox[c]
    BY <1>0, <1>1
    DEF ClientStep, Connect, ConnectRefused, SendToServer, ReceiveFromServer,
        CloseSocket, Kill, ClientTypeOK, OneRequest
  <2>4. RequestRead \subseteq RequestRead'
    BY <2>1, <2>3 DEF RequestRead
  <2>5. CASE pc = "crashed"
    BY <2>1, <2>2, <2>5 DEF Owed
  <2> QED  BY <1>0, <2>1, <2>2, <2>4, <2>5, OwedGrows DEF Owed
<1>2. CASE /\ UNCHANGED <<req, outbox, clients, connected, history>>
           /\ pc' = "crashed" => pc = "crashed"
           /\ pc = "crashed" => pc' = "crashed"
           /\ pc' = "relay" => pc = "relay"
  <2>1. Accepted' = Accepted /\ RequestRead' = RequestRead /\ EndRead' = EndRead
    BY <1>2 DEF Accepted, RequestRead, EndRead
  <2>2. Cardinality(RequestRead) \in Nat /\ Cardinality(EndRead) \in Nat
    BY AcceptedFinite DEF Owed
  <2> QED  BY <1>0, <1>2, <2>1, <2>2 DEF Owed
<1>3. CASE \/ UNCHANGED vars
           \/ AuthStep /\ UNCHANGED <<clientVars, serverVars>>
  BY <1>2, <1>3 DEF vars, clientVars, serverVars
<1>4. CASE SelectConnection \/ AcceptError \/ ScanNext \/ SkipRelay \/ Await \/ Reply
  BY <1>2, <1>4
  DEF SelectConnection, AcceptError, ScanNext, SkipRelay, Await, Reply, clientVars
<1>5. CASE AcceptConnection
  BY <1>0, <1>5, OwedAccept
<1>6. CASE ReadFromClient
  BY <1>0, <1>6, OwedRead DEF OwnInv, ServesConnected
<1>7. CASE Relay
  <2>1. /\ UNCHANGED <<req, outbox, clients, connected>>
        /\ history' = history + 1 /\ pc = "relay" /\ pc' = "await"
    BY <1>7 DEF Relay, clientVars
  <2>2. Accepted' = Accepted /\ RequestRead' = RequestRead /\ EndRead' = EndRead
    BY <2>1 DEF Accepted, RequestRead, EndRead
  <2> QED  BY <1>0, <2>1, <2>2 DEF Owed
<1>8. CASE SelectError \/ ServerKill
  <2>1. clients' = clients /\ pc' = "crashed"
    BY <1>8 DEF SelectError, ServerKill, ProcessEnds
  <2> QED  BY <2>1 DEF Owed, Accepted
<1>9. CASE ServerStart
  <2>1. clients' = <<>> /\ history' = 0 /\ pc' = "poll"
    BY <1>9 DEF ServerStart
  <2>2. Accepted' = {} /\ RequestRead' = {} /\ EndRead' = {}
    BY <2>1 DEF Accepted, RequestRead, EndRead
  <2> QED  BY <2>1, <2>2, FS_EmptySet DEF Owed
<1> QED  BY <1>1, <1>3, <1>4, <1>5, <1>6, <1>7, <1>8, <1>9 DEF Next, ServerStep

LEMMA InitOwed == Init => Owed
<1> SUFFICES ASSUME Init PROVE Owed
  OBVIOUS
<1>1. clients = <<>> /\ history = 0 /\ pc = "poll"
  BY DEF Init, ServerInit
<1>2. Accepted = {} /\ RequestRead = {} /\ EndRead = {}
  BY <1>1 DEF Accepted, RequestRead, EndRead
<1> QED  BY <1>1, <1>2, FS_EmptySet DEF Owed

\* A chat server process relays at most once for each request it read and once
\* for each client whose end it noticed, however many clients there are.
THEOREM RelaysBoundedHolds == Spec => []RelaysBounded
<1>1. TypeOK /\ Owed => RelaysBounded
  <2> SUFFICES ASSUME TypeOK, Owed, pc # "crashed"
               PROVE  history <= Cardinality(RequestRead) + Cardinality(EndRead)
    BY DEF RelaysBounded
  <2>1. /\ Cardinality(RequestRead) \in Nat /\ Cardinality(EndRead) \in Nat
        /\ history \in Nat
    BY AcceptedFinite DEF Owed, TypeOK, ServerTypeOK
  <2> QED  BY <2>1 DEF Owed
<1> QED  BY <1>1, InitOwed, OwedStep, OwnInvHolds, DistinctHolds, TypeCorrect, PTL DEF Spec

-----------------------------------------------------------------------------
(* Nothing is relayed that no client asked for.                            *)

\* Some client sent this command with these credentials, unless they are empty.
WasAsked(cmd, cred) ==
  cred = NoCred \/ \E c \in Client : /\ req[c] # NoReq
                                    /\ req[c].cmd = cmd
                                    /\ req[c].cred = cred

\* The members action, email_ and password_ come from one request, and so does
\* each request under way to the authentication server.
AllAsked ==
  /\ WasAsked(action, credential)
  /\ \A k \in Link : \A n \in DOMAIN toAuth[k] :
       WasAsked(toAuth[k][n].cmd, toAuth[k][n].cred)

\* A client never changes the request it sent.
LEMMA WasAskedStays ==
  ASSUME OwnInv, [Next]_vars
  PROVE  \A cmd, cred : WasAsked(cmd, cred) => WasAsked(cmd, cred)'
<1>1. ASSUME NEW c \in Client, req[c] # NoReq PROVE req'[c] = req[c]
  <2>1. ClientTypeOK /\ (chat[c] # "open")
    BY <1>1 DEF OwnInv, TypeOK, OneRequest
  <2>2. CASE \E d \in Client : ClientStep(d)
    BY <2>1, <2>2
    DEF ClientStep, Connect, ConnectRefused, SendToServer, ReceiveFromServer,
        CloseSocket, Kill, ClientTypeOK
  <2>3. CASE req' = req
    BY <2>3
  <2> QED
    BY <2>2, <2>3
    DEF Next, ServerStep, SelectConnection, AcceptConnection, AcceptError,
        SelectError, ServerKill, ServerStart, ProcessEnds, ScanNext, ReadFromClient,
        SkipRelay, Relay, Await, Reply, clientVars, vars
<1> QED  BY <1>1 DEF WasAsked

LEMMA AllAskedStep ==
  ASSUME OwnInv, AllAsked, [Next]_vars
  PROVE  AllAsked'
<1>0. /\ TypeOK /\ OneRequest /\ link \in Link /\ toAuth \in [Link -> Seq(Request)]
      /\ clients \in Seq(Client) /\ i \in 0..Len(clients)
  BY DEF OwnInv, TypeOK, ServerTypeOK, LinkTypeOK
<1>1. ASSUME UNCHANGED <<action, credential>> \/ credential' = NoCred
      PROVE  WasAsked(action, credential)'
  <2>1. CASE credential' = NoCred
    BY <2>1 DEF WasAsked
  <2>2. CASE UNCHANGED <<action, credential>>
    BY <2>2, WasAskedStays DEF AllAsked, WasAsked
  <2> QED  BY <1>1, <2>1, <2>2
<1>2. ASSUME \A k \in Link : \A n \in DOMAIN toAuth'[k] :
               \E m \in DOMAIN toAuth[k] : toAuth'[k][n] = toAuth[k][m]
      PROVE  \A k \in Link : \A n \in DOMAIN toAuth'[k] :
               WasAsked(toAuth[k][n].cmd, toAuth[k][n].cred)'
  <2> SUFFICES ASSUME NEW k \in Link, NEW n \in DOMAIN toAuth'[k]
               PROVE  WasAsked(toAuth[k][n].cmd, toAuth[k][n].cred)'
    OBVIOUS
  <2>1. PICK m \in DOMAIN toAuth[k] : toAuth'[k][n] = toAuth[k][m]
    BY <1>2
  <2>2. WasAsked(toAuth[k][m].cmd, toAuth[k][m].cred)
    BY DEF AllAsked
  <2> QED  BY <2>1, <2>2, WasAskedStays DEF WasAsked
<1>3. ASSUME toAuth' = toAuth
      PROVE  \A k \in Link : \A n \in DOMAIN toAuth'[k] :
               WasAsked(toAuth[k][n].cmd, toAuth[k][n].cred)'
  BY <1>2, <1>3
<1>4. CASE ReadFromClient
  <2> DEFINE c == clients[i]
  <2>1. c \in Client /\ toAuth' = toAuth /\ req' = req
    BY <1>0, <1>4 DEF ReadFromClient, linkVars, TypeOK, ServerTypeOK
  <2>2. CASE UNCHANGED <<action, credential>>
    BY <1>1, <1>3, <2>1, <2>2 DEF AllAsked
  <2>3. CASE ~UNCHANGED <<action, credential>>
    <3>1. /\ outbox[c] # <<>>
          /\ action' = Head(outbox[c]).cmd /\ credential' = Head(outbox[c]).cred
      BY <1>4, <2>3 DEF ReadFromClient, ReadRequest, ReadEnd
    <3>2. req[c] # NoReq /\ Head(outbox[c]) = req[c]
      BY <1>0, <2>1, <3>1 DEF OneRequest
    <3>3. WasAsked(action, credential)'
      BY <2>1, <3>1, <3>2 DEF WasAsked
    <3> QED  BY <1>3, <2>1, <3>3 DEF AllAsked
  <2> QED  BY <2>2, <2>3
<1>5. CASE Relay
  <2>1. WasAsked(action, credential)'
    BY <1>1, <1>5 DEF Relay
  <2>2. CASE toAuth' = toAuth
    BY <1>3, <2>1, <2>2 DEF AllAsked
  <2>3. CASE toAuth' # toAuth
    <3> DEFINE q == [cmd |-> action, id |-> history + 1, cred |-> credential]
    <3>1. toAuth' = [toAuth EXCEPT ![link] = Append(@, q)] /\ UNCHANGED <<action, credential>>
      BY <1>5, <2>3 DEF Relay
    <3>2. q.cmd = action /\ q.cred = credential
      OBVIOUS
    <3> HIDE DEF q
    <3>3. ASSUME NEW k \in Link, NEW n \in DOMAIN toAuth'[k]
          PROVE  WasAsked(toAuth[k][n].cmd, toAuth[k][n].cred)'
      <4>1. CASE n \in DOMAIN toAuth[k] /\ toAuth'[k][n] = toAuth[k][n]
        <5>1. WasAsked(toAuth[k][n].cmd, toAuth[k][n].cred)
          BY <4>1 DEF AllAsked
        <5> QED  BY <4>1, <5>1, WasAskedStays DEF WasAsked
      <4>2. CASE toAuth'[k][n] = q
        BY <2>1, <3>1, <3>2, <4>2 DEF WasAsked
      <4>3. k # link => toAuth'[k] = toAuth[k]
        BY <1>0, <3>1
      <4>4. k = link => toAuth'[k] = Append(toAuth[k], q) /\ toAuth[k] \in Seq(Request)
        BY <1>0, <3>1
      <4>5. k = link => \/ n \in DOMAIN toAuth[k] /\ toAuth'[k][n] = toAuth[k][n]
                        \/ toAuth'[k][n] = q
        BY <4>4
      <4> QED  BY <4>1, <4>2, <4>3, <4>5
    <3> QED  BY <2>1, <3>3 DEF AllAsked
  <2> QED  BY <2>2, <2>3
<1>6. CASE AuthStep /\ UNCHANGED <<clientVars, serverVars>>
  <2>1. WasAsked(action, credential)'
    BY <1>1, <1>6 DEF serverVars
  <2>2. \/ toAuth' = toAuth
        \/ toAuth' = [j \in Link |-> <<>>]
        \/ \E k \in Link : toAuth[k] # <<>> /\ toAuth' = [toAuth EXCEPT ![k] = Tail(@)]
    BY <1>6
    DEF AuthStep, AuthServe, AuthExit, AuthStuck, AuthAcceptError, AuthKill,
        AuthStart, AuthGone
  <2>3. CASE toAuth' = [j \in Link |-> <<>>]
    BY <2>1, <2>3 DEF AllAsked
  <2>4. CASE \E k \in Link : toAuth[k] # <<>> /\ toAuth' = [toAuth EXCEPT ![k] = Tail(@)]
    <3>1. PICK k \in Link : toAuth[k] # <<>> /\ toAuth' = [toAuth EXCEPT ![k] = Tail(@)]
      BY <2>4
    <3>2. toAuth[k] \in Seq(Request) /\ toAuth'[k] = Tail(toAuth[k])
      BY <1>0, <3>1
    <3>3. \A n \in DOMAIN Tail(toAuth[k]) :
            n + 1 \in DOMAIN toAuth[k] /\ Tail(toAuth[k])[n] = toAuth[k][n + 1]
      BY <3>1, <3>2
    <3>4. \A j \in Link : j # k => toAuth'[j] = toAuth[j]
      BY <1>0, <3>1
    <3>5. \A j \in Link : \A n \in DOMAIN toAuth'[j] :
            \E m \in DOMAIN toAuth[j] : toAuth'[j][n] = toAuth[j][m]
      BY <3>2, <3>3, <3>4
    <3> QED  BY <1>2, <2>1, <3>5 DEF AllAsked
  <2> QED  BY <1>3, <2>1, <2>2, <2>3, <2>4 DEF AllAsked
<1>7. CASE toAuth' = toAuth /\ (UNCHANGED <<action, credential>> \/ credential' = NoCred)
  BY <1>1, <1>3, <1>7 DEF AllAsked
<1> QED
  BY <1>4, <1>5, <1>6, <1>7
  DEF Next, ServerStep, SelectConnection, AcceptConnection, AcceptError,
      SelectError, ServerKill, ServerStart, ProcessEnds, ScanNext, SkipRelay, Await,
      Reply, serverVars, linkVars, vars

LEMMA AllAskedHolds == Spec => []AllAsked
<1>1. Init => AllAsked
  <2> SUFFICES ASSUME Init PROVE AllAsked
    OBVIOUS
  <2>1. \A k \in Link : toAuth[k] = <<>>
    BY DEF Init, LinkInit
  <2>2. credential = NoCred
    BY DEF Init, ServerInit
  <2> QED  BY <2>1, <2>2 DEF AllAsked, WasAsked
<1> QED  BY <1>1, AllAskedStep, OwnInvHolds, PTL DEF Spec
=============================================================================
