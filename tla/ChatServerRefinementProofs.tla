--------------------- MODULE ChatServerRefinementProofs ---------------------
(***************************************************************************)
(* The chat server and its clients implement RequestService, for every     *)
(* value of the constants with which no stale bytes follow a request or a  *)
(* response and no request is empty.                                       *)
(***************************************************************************)
EXTENDS ChatServerProofs, ChatServerRefinement

-----------------------------------------------------------------------------
(* Who asked for what is carried out.                                      *)

\* A client has read nothing while it waits, and one that closed its connection
\* after it asked has.
ReadOnce ==
  \A c \in Client :
    /\ chat[c] = "asked" => seen[c].kind = 0
    /\ chat[c] = "fin" /\ req[c] # NoReq => seen[c].kind # 0

\* The client d asked for this.
AskedBy(d, cmd, cred) ==
  req[d] # NoReq /\ req[d].cmd = cmd /\ req[d].cred = cred

\* Somebody asked for this whose outcome is fixed.
Settled(cmd, cred) == \E d \in Client : AskedBy(d, cmd, cred) /\ Outcome(d) # 0

\* Main serves d, which is connected.
Serves(d) ==
  pc \in {"relay", "await", "reply"} /\ clients[i] = d /\ d \in connected

\* What the members hold was asked by the client that main serves, or by one
\* whose outcome is fixed.
MembersAsked ==
  pc # "crashed" /\ credential # NoCred =>
    \/ Settled(action, credential)
    \/ \E d \in Client : AskedBy(d, action, credential) /\ Serves(d)

\* What a dead process relayed was asked by one whose outcome is fixed.
LeftAsked ==
  \A k \in Link : k # link \/ pc = "crashed" =>
    \A n \in DOMAIN toAuth[k] :
      toAuth[k][n].cred # NoCred => Settled(toAuth[k][n].cmd, toAuth[k][n].cred)

Origin == ReadOnce /\ MembersAsked /\ LeftAsked

-----------------------------------------------------------------------------
(* Outcomes.                                                               *)

\* What the outcome of a client is, by what is known of the client.
LEMMA OutcomeIs ==
  ASSUME NEW c \in Client
  PROVE  /\ seen[c].kind # 0 => Outcome(c) = seen[c].kind
         /\ seen[c].kind = 0 /\ chat[c] \in {"rst", "lost"} => Outcome(c) = 5
         /\ seen[c].kind = 0 /\ chat[c] = "asked" => Outcome(c) = Underway(c)
         /\ seen[c].kind = 0 /\ chat[c] \notin {"rst", "lost", "asked"} =>
              Outcome(c) = 0
BY DEF Outcome

LEMMA UnderwayIs ==
  ASSUME NEW c \in Client
  PROVE  /\ inbox[c] # <<>> => Underway(c) = Head(inbox[c]).kind
         /\ inbox[c] = <<>> /\ pc = "reply" /\ clients[i] = c => Underway(c) = result
         /\ inbox[c] = <<>> /\ pc = "await" /\ clients[i] = c /\ fromAuth[link] # <<>> =>
              Underway(c) = Head(fromAuth[link]).kind
         /\ inbox[c] = <<>> /\ ~(pc \in {"await", "reply"} /\ clients[i] = c) =>
              Underway(c) = 0
         /\ inbox[c] = <<>> /\ pc = "await" /\ fromAuth[link] = <<>> => Underway(c) = 0
BY DEF Underway

\* The same in the next state.
LEMMA OutcomeIsNext ==
  ASSUME NEW c \in Client
  PROVE  /\ seen'[c].kind # 0 => Outcome(c)' = seen'[c].kind
         /\ seen'[c].kind = 0 /\ chat'[c] \in {"rst", "lost"} => Outcome(c)' = 5
         /\ seen'[c].kind = 0 /\ chat'[c] = "asked" => Outcome(c)' = Underway(c)'
         /\ seen'[c].kind = 0 /\ chat'[c] \notin {"rst", "lost", "asked"} =>
              Outcome(c)' = 0
BY DEF Outcome

LEMMA UnderwayIsNext ==
  ASSUME NEW c \in Client
  PROVE  /\ inbox'[c] # <<>> => Underway(c)' = Head(inbox'[c]).kind
         /\ inbox'[c] = <<>> /\ pc' = "reply" /\ clients'[i'] = c => Underway(c)' = result'
         /\ inbox'[c] = <<>> /\ pc' = "await" /\ clients'[i'] = c /\ fromAuth'[link'] # <<>> =>
              Underway(c)' = Head(fromAuth'[link']).kind
         /\ inbox'[c] = <<>> /\ ~(pc' \in {"await", "reply"} /\ clients'[i'] = c) =>
              Underway(c)' = 0
         /\ inbox'[c] = <<>> /\ pc' = "await" /\ fromAuth'[link'] = <<>> => Underway(c)' = 0
BY DEF Underway

\* A client that asked and does not wait has an outcome.
LEMMA NotWaiting ==
  ASSUME TypeOK, OneRequest, ReadOnce, NEW c \in Client,
         req[c] # NoReq, chat[c] # "asked"
  PROVE  Outcome(c) # 0
<1>1. chat[c] \in {"done", "fin", "rst", "lost"}
  BY DEF TypeOK, ClientTypeOK, ChatState, OneRequest
<1>2. chat[c] \in {"done", "fin"} => seen[c].kind # 0
  BY DEF OneRequest, ReadOnce
<1> QED  BY <1>1, <1>2, OutcomeIs

\* Nothing is sent to a client that main is not serving: where main, the
\* connection and what is known of the client stay, so does the outcome.
LEMMA SameOutcome ==
  ASSUME NEW c \in Client, chat'[c] = chat[c], inbox'[c] = inbox[c], seen'[c] = seen[c],
         \/ UNCHANGED <<pc, clients, i, result, link, fromAuth>>
         \/ ~(pc \in {"await", "reply"} /\ clients[i] = c)
            /\ ~(pc' \in {"await", "reply"} /\ clients'[i'] = c)
         \/ chat[c] # "asked"
  PROVE  Outcome(c)' = Outcome(c)
<1>1. CASE UNCHANGED <<pc, clients, i, result, link, fromAuth>>
  BY <1>1 DEF Outcome, Underway
<1>2. CASE chat[c] # "asked"
  BY <1>2, OutcomeIs, OutcomeIsNext
<1>3. CASE ~(pc \in {"await", "reply"} /\ clients[i] = c)
           /\ ~(pc' \in {"await", "reply"} /\ clients'[i'] = c)
  <2>1. Underway(c)' = Underway(c)
    BY <1>3, UnderwayIs, UnderwayIsNext
  <2> QED  BY <2>1, OutcomeIs, OutcomeIsNext
<1> QED  BY <1>1, <1>2, <1>3

\* Where every outcome stays, the abstract variables do.
LEMMA Stutters ==
  ASSUME UNCHANGED <<req, seen, granted>>, \A c \in Client : Outcome(c)' = Outcome(c)
  PROVE  UNCHANGED Service!vars
<1>1. outcomeOf' = outcomeOf
  BY DEF outcomeOf
<1>2. askedOf' = askedOf /\ readOf' = readOf
  BY DEF askedOf, readOf
<1> QED  BY <1>1, <1>2 DEF Service!vars

-----------------------------------------------------------------------------
(* Steps of RequestService.                                                *)

\* Clients lose the chat server.
LEMMA LoseStep ==
  ASSUME NEW lost \in SUBSET Client, \A c \in lost : seen[c].kind = 0,
         UNCHANGED <<req, seen, granted>>,
         \A c \in Client : Outcome(c)' = IF c \in lost THEN 5 ELSE Outcome(c)
  PROVE  Service!Next
<1>1. outcomeOf' = [c \in Client |-> IF c \in lost THEN 5 ELSE outcomeOf[c]]
  BY DEF outcomeOf
<1>2. askedOf' = askedOf /\ readOf' = readOf /\ lost \in SUBSET (Client \ readOf)
  BY DEF askedOf, readOf
<1> QED  BY <1>1, <1>2 DEF Service!Next, Service!Lose, Service!Gone

\* What a client asked whose outcome is fixed is carried out once more.
LEMMA AgainStep ==
  ASSUME NEW cmd, NEW cred, Settled(cmd, cred), UNCHANGED <<req, seen>>,
         granted' = granted \cup {<<cmd, cred>>},
         \A c \in Client : Outcome(c)' = Outcome(c)
  PROVE  Service!Next
<1>1. PICK c \in Client : AskedBy(c, cmd, cred) /\ Outcome(c) # 0
  BY DEF Settled
<1>2. askedOf[c] = <<cmd, cred>> /\ <<cmd, cred>> # <<>>
  BY <1>1 DEF askedOf, AskedBy
<1>3. askedOf' = askedOf /\ readOf' = readOf /\ outcomeOf' = outcomeOf
  BY DEF askedOf, readOf, outcomeOf
<1>4. outcomeOf[c] # 0
  BY <1>1 DEF outcomeOf
<1> QED  BY <1>2, <1>3, <1>4 DEF Service!Next, Service!CarryOutAgain, Service!Nothing

\* What a client asked is carried out, and its outcome is fixed.
LEMMA CarryOutStep ==
  ASSUME NEW c \in Client, NEW kind \in AnswerKinds(req[c].cmd), req[c] # NoReq,
         Outcome(c) = 0, UNCHANGED <<req, seen>>,
         granted' = granted \cup
           (IF IsSuccess(kind) THEN {<<req[c].cmd, req[c].cred>>} ELSE {}),
         \A d \in Client : Outcome(d)' = IF d = c THEN kind ELSE Outcome(d)
  PROVE  Service!Next
<1>1. askedOf[c] = <<req[c].cmd, req[c].cred>> /\ askedOf[c] # <<>>
      /\ askedOf[c][1] = req[c].cmd
  BY DEF askedOf
<1>2. askedOf' = askedOf /\ readOf' = readOf /\ outcomeOf[c] = 0
      /\ outcomeOf' = [outcomeOf EXCEPT ![c] = kind]
  BY DEF askedOf, readOf, outcomeOf
<1>3. kind \in Service!AnswerKinds(askedOf[c][1]) /\ Service!IsSuccess(kind) = IsSuccess(kind)
  BY <1>1 DEF AnswerKinds, Service!AnswerKinds, AuthSuccess, Service!AuthSuccess,
              AuthFail, Service!AuthFail, CreateDetail, Service!CreateDetail,
              CreateFail, Service!CreateFail, IsSuccess, Service!IsSuccess
<1>4. granted' = granted \cup (IF Service!IsSuccess(kind) THEN {askedOf[c]} ELSE {})
  BY <1>1, <1>3
<1> QED  BY <1>1, <1>2, <1>3, <1>4 DEF Service!Next, Service!CarryOut, Service!Nothing

\* A client asks.
LEMMA AskStep ==
  ASSUME NEW c \in Client, NEW cmd \in Cmd, NEW cred \in Cred,
         req[c] = NoReq, Outcome(c) = 0, UNCHANGED <<seen, granted>>,
         AskedBy(c, cmd, cred)',
         \A d \in Client : d # c => req'[d] = req[d],
         \A d \in Client : Outcome(d)' = Outcome(d)
  PROVE  Service!Next
<1>1. askedOf[c] = <<>> /\ askedOf' = [askedOf EXCEPT ![c] = <<cmd, cred>>]
  BY DEF askedOf, AskedBy
<1>2. readOf' = readOf /\ outcomeOf' = outcomeOf /\ outcomeOf[c] = 0
  BY DEF readOf, outcomeOf
<1>3. <<cmd, cred>> \in Cmd \X Cred /\ Cmd = Service!Cmd
  BY DEF Cmd, Service!Cmd
<1> QED  BY <1>1, <1>2, <1>3 DEF Service!Next, Service!Ask, Service!Nothing

\* A client reads its outcome.
LEMMA ReadStep ==
  ASSUME NEW c \in Client, UNCHANGED <<req, granted>>, Outcome(c) \in Kind,
         seen'[c].kind # 0, \A d \in Client : d # c => seen'[d] = seen[d],
         \A d \in Client : Outcome(d)' = Outcome(d)
  PROVE  Service!Next
<1>1. askedOf' = askedOf /\ outcomeOf' = outcomeOf /\ outcomeOf[c] = Outcome(c)
  BY DEF askedOf, outcomeOf
<1>2. readOf' = readOf \cup {c}
  BY DEF readOf
<1>3. Kind = Service!Kind
  BY DEF Kind, Service!Kind, AuthSuccess, Service!AuthSuccess,
         CreateFail, Service!CreateFail
<1> QED  BY <1>1, <1>2, <1>3 DEF Service!Next, Service!Read

-----------------------------------------------------------------------------
(* Each step of the programs is one of RequestService, or none.            *)

Refines == Service!Next \/ UNCHANGED Service!vars

\* The client main waits for an answer for asked for what is in the members.
LEMMA WaitsForOwn ==
  ASSUME Way, pc \in {"relay", "await", "reply"}, chat[clients[i]] = "asked"
  PROVE  /\ clients[i] \in Client
         /\ clients[i] \in connected
         /\ AskedBy(clients[i], action, credential)
BY MembersAreOwn DEF Way, OwnInv, ServesConnected, AskedBy

\* Main does not serve a client that is at its menu.
LEMMA NotServed ==
  ASSUME Way, NEW c \in Client, chat[c] = "open"
  PROVE  ~(pc \in {"await", "reply"} /\ clients[i] = c)
BY MembersAreOwn DEF Way, OwnInv, ServesConnected, OneRequest

LEMMA RefinesClient ==
  ASSUME Way, Origin, NEW c \in Client, ClientStep(c), UNCHANGED <<serverVars, linkVars>>
  PROVE  Refines
<1>0. ClientTypeOK /\ OneRequest /\ ReadOnce
  BY DEF Way, OwnInv, TypeOK, Origin
<1>1. UNCHANGED <<pc, clients, i, result, link, fromAuth, granted>>
  BY DEF serverVars, linkVars
<1>2. ASSUME NEW d \in Client, d # c
      PROVE  Outcome(d)' = Outcome(d) /\ req'[d] = req[d] /\ seen'[d] = seen[d]
  <2>1. /\ chat'[d] = chat[d] /\ inbox'[d] = inbox[d] /\ seen'[d] = seen[d]
        /\ req'[d] = req[d]
    BY <1>0, <1>2 DEF ClientStep, Connect, ConnectRefused, SendToServer,
                      ReceiveFromServer, CloseSocket, Kill, ClientTypeOK
  <2> QED  BY <1>1, <2>1, SameOutcome
<1>3. CASE Connect(c) \/ CloseSocket(c)
  <2>1. /\ UNCHANGED <<req, inbox, seen>>
        /\ chat[c] \notin {"rst", "lost", "asked"} /\ chat'[c] \notin {"rst", "lost", "asked"}
    BY <1>0, <1>3 DEF Connect, CloseSocket, ClientTypeOK
  <2>2. Outcome(c)' = Outcome(c)
    BY <2>1, OutcomeIs, OutcomeIsNext
  <2> QED  BY <1>1, <1>2, <2>1, <2>2, Stutters DEF Refines
<1>4. CASE ConnectRefused(c) \/ Kill(c)
  <2>1. UNCHANGED <<req, inbox, seen>> /\ chat'[c] \in {"rst", "lost"}
    BY <1>0, <1>4 DEF ConnectRefused, Kill, ClientTypeOK
  <2>2. CASE seen[c].kind # 0
    <3>1. Outcome(c)' = Outcome(c)
      BY <2>1, <2>2, OutcomeIs, OutcomeIsNext
    <3> QED  BY <1>1, <1>2, <2>1, <3>1, Stutters DEF Refines
  <2>3. CASE seen[c].kind = 0
    <3>1. Outcome(c)' = 5
      BY <2>1, <2>3, OutcomeIsNext
    <3>2. \A d \in Client : Outcome(d)' = IF d \in {c} THEN 5 ELSE Outcome(d)
      BY <1>2, <3>1
    <3>3. {c} \in SUBSET Client /\ \A d \in {c} : seen[d].kind = 0
      BY <2>3
    <3> QED  BY <1>1, <2>1, <3>2, <3>3, LoseStep DEF Refines
  <2> QED  BY <2>2, <2>3
<1>5. CASE SendToServer(c)
  <2>1. /\ chat[c] = "open" /\ chat'[c] = "asked" /\ UNCHANGED <<inbox, seen>>
        /\ req[c] = NoReq /\ inbox[c] = <<>> /\ seen[c].kind = 0
    BY <1>0, <1>5 DEF SendToServer, ClientTypeOK, OneRequest
  <2>2. Outcome(c) = 0
    BY <2>1, OutcomeIs
  <2>3. Underway(c)' = 0
    BY <1>1, <2>1, NotServed, UnderwayIsNext
  <2>4. Outcome(c)' = 0
    BY <2>1, <2>3, OutcomeIsNext
  <2>5. PICK cmd \in Cmd, cred \in Typed :
          req' = [req EXCEPT ![c] = [cmd |-> cmd, id |-> 1, cred |-> cred]]
    BY <1>5 DEF SendToServer
  <2>6. cred \in Cred
    BY <2>5, ClientAssumption DEF Way, NothingStale
  <2> DEFINE q == [cmd |-> cmd, id |-> 1, cred |-> cred]
  <2>7. q # NoReq
    <3>1. q.cmd = cmd /\ q.cmd # "NONE" /\ NoReq.cmd = "NONE"
      BY DEF Cmd, NoReq
    <3> QED  BY <3>1
  <2>8. req'[c] = q /\ q.cmd = cmd /\ q.cred = cred
    BY <1>0, <2>5 DEF ClientTypeOK
  <2> HIDE DEF q
  <2>9. AskedBy(c, cmd, cred)'
    BY <2>7, <2>8 DEF AskedBy
  <2>10. \A d \in Client : Outcome(d)' = Outcome(d)
    BY <1>2, <2>2, <2>4
  <2> QED  BY <1>1, <1>2, <2>1, <2>2, <2>6, <2>9, <2>10, AskStep DEF Refines
<1>6. CASE ReceiveFromServer(c)
  <2> DEFINE r == Head(inbox[c])
  <2>1. /\ r \in Response /\ inbox[c] # <<>> /\ chat[c] = "asked" /\ seen[c].kind = 0
        /\ req' = req
    BY <1>0, <1>6 DEF ReceiveFromServer, ClientTypeOK, ReadOnce
  <2>2. KindSeen(r, "clean") = r.kind /\ r.kind \in Kind /\ r.kind # 0
    BY <2>1, KindSurvives DEF Response, Kind, AuthSuccess, CreateFail
  <2>3. seen'[c].kind = r.kind
    BY <1>0, <1>6, <2>2 DEF ReceiveFromServer, ClientTypeOK
  <2>4. Outcome(c) = r.kind
    BY <2>1, OutcomeIs, UnderwayIs
  <2>5. Outcome(c)' = r.kind
    BY <2>2, <2>3, OutcomeIsNext
  <2> HIDE DEF r
  <2>6. \A d \in Client : Outcome(d)' = Outcome(d)
    BY <1>2, <2>4, <2>5
  <2> QED  BY <1>1, <1>2, <2>1, <2>2, <2>3, <2>4, <2>6, ReadStep DEF Refines
<1> QED  BY <1>3, <1>4, <1>5, <1>6 DEF ClientStep

\* Main passes on what it got as it is, and only to the client it serves.
LEMMA RefinesMain ==
  ASSUME Way, \/ SelectConnection \/ AcceptConnection \/ AcceptError \/ ScanNext
              \/ ReadFromClient \/ SkipRelay \/ Relay \/ Await \/ Reply
  PROVE  UNCHANGED <<req, granted>> /\ UNCHANGED Service!vars
<1>0. TypeOK /\ ClientTypeOK /\ ServerTypeOK /\ LinkTypeOK
  BY DEF Way, OwnInv, TypeOK
<1>1. CASE \/ SelectConnection \/ AcceptConnection \/ AcceptError \/ ScanNext
           \/ ReadFromClient \/ SkipRelay
  <2>1. /\ UNCHANGED <<chat, req, inbox, seen, granted>>
        /\ pc \notin {"await", "reply"} /\ pc' \notin {"await", "reply"}
    BY <1>1 DEF SelectConnection, AcceptConnection, AcceptError, ScanNext,
                ReadFromClient, SkipRelay, clientVars, linkVars
  <2>2. \A c \in Client : Outcome(c)' = Outcome(c)
    BY <2>1, SameOutcome
  <2> QED  BY <2>1, <2>2, Stutters
<1>2. CASE Relay
  <2>1. sock[link] = "up" /\ fromAuth[link] = <<>>
    BY <1>2 DEF Way, Relay, Attached, AuthKept, Inv, TypeOK, LinkTypeOK, LockStep
  <2>2. /\ UNCHANGED <<chat, req, inbox, seen, granted, clients, i, link, fromAuth>>
        /\ pc = "relay" /\ pc' = "await"
    BY <1>2 DEF Relay, clientVars
  <2>3. ASSUME NEW c \in Client PROVE Outcome(c)' = Outcome(c)
    <3>1. Underway(c)' = Underway(c)
      BY <2>1, <2>2, UnderwayIs, UnderwayIsNext
    <3> QED  BY <2>2, <3>1, OutcomeIs, OutcomeIsNext
  <2> QED  BY <2>2, <2>3, Stutters
<1>3. CASE Await
  <2>1. /\ UNCHANGED <<chat, req, inbox, seen, granted, clients, i>>
        /\ pc = "await" /\ pc' = "reply"
    BY <1>3 DEF Await, clientVars
  <2>2. sock[link] = "up"
    BY <1>0, <2>1 DEF Way, Attached, AuthKept, LinkTypeOK
  <2>3. ReceiveAnswer
    BY <1>3, <2>2 DEF Await, ReceiveEnd
  <2>4. fromAuth[link] # <<>> /\ Head(fromAuth[link]) \in Response
    BY <1>0, <2>3 DEF ReceiveAnswer, LinkTypeOK
  <2>5. result' = Head(fromAuth[link]).kind
    BY <2>3, <2>4, KindSurvives DEF ReceiveAnswer, Way, NothingStale
  <2>6. ASSUME NEW c \in Client PROVE Outcome(c)' = Outcome(c)
    <3>1. Underway(c)' = Underway(c)
      BY <2>1, <2>4, <2>5, UnderwayIs, UnderwayIsNext
    <3> QED  BY <2>1, <3>1, OutcomeIs, OutcomeIsNext
  <2> QED  BY <2>1, <2>6, Stutters
<1>4. CASE Reply
  <2>0. PICK c \in Client : c = clients[i]
    BY <1>0, <1>4 DEF Reply, ServerTypeOK
  <2>1. /\ pc = "reply" /\ pc' = "scan" /\ clients[i] = c
        /\ UNCHANGED <<chat, req, seen, granted>>
    BY <1>4, <2>0 DEF Reply, linkVars
  <2>2. ASSUME NEW d \in Client, d # c \/ chat[d] # "asked"
        PROVE  Outcome(d)' = Outcome(d)
    <3>1. inbox'[d] = inbox[d]
      BY <1>0, <1>4, <2>1, <2>2 DEF Reply, ClientTypeOK
    <3> QED  BY <2>1, <2>2, <3>1, SameOutcome
  <2>3. ASSUME chat[c] = "asked" PROVE Outcome(c)' = Outcome(c)
    <3>1. c \in connected
      BY <2>1, <2>3, WaitsForOwn
    <3>2. result # 0
      BY <2>1, <3>1 DEF Way, FitsInMain, Fits, AnswerKinds, AuthSuccess, AuthFail,
                        CreateDetail, CreateFail
    <3>3. inbox'[c] = inbox[c] \o ResponseToChatClient /\ inbox[c] \in Seq(Response)
      BY <1>0, <1>4, <2>1, <2>3 DEF Reply, ClientTypeOK
    <3>4. /\ ResponseToChatClient \in Seq(Response) /\ ResponseToChatClient # <<>>
          /\ Head(ResponseToChatClient).kind = result
      BY <1>0, <3>2, ResponseType DEF ResponseToChatClient
    <3>5. inbox'[c] # <<>>
      BY <3>3, <3>4
    <3>6. Head(inbox'[c]).kind = IF inbox[c] = <<>> THEN result ELSE Head(inbox[c]).kind
      BY <3>3, <3>4
    <3>7. Underway(c)' = Underway(c)
      BY <2>1, <3>5, <3>6, UnderwayIs, UnderwayIsNext
    <3> QED  BY <2>1, <3>7, OutcomeIs, OutcomeIsNext
  <2>4. \A d \in Client : Outcome(d)' = Outcome(d)
    BY <2>1, <2>2, <2>3
  <2> QED  BY <2>1, <2>4, Stutters
<1> QED  BY <1>1, <1>2, <1>3, <1>4

\* The process ends, and every client that is connected loses it.
LEMMA RefinesProcess ==
  ASSUME Way, SelectError \/ ServerKill \/ ServerStart
  PROVE  Refines
<1>0. ClientTypeOK
  BY DEF Way, OwnInv, TypeOK
<1>1. CASE ServerStart
  <2>1. /\ UNCHANGED <<chat, req, inbox, seen, granted>>
        /\ pc \notin {"await", "reply"} /\ pc' \notin {"await", "reply"}
    BY <1>1 DEF ServerStart
  <2>2. \A c \in Client : Outcome(c)' = Outcome(c)
    BY <2>1, SameOutcome
  <2> QED  BY <2>1, <2>2, Stutters DEF Refines
<1>2. CASE ProcessEnds
  <2> DEFINE lost == {c \in Client : chat[c] \in {"open", "asked"} /\ seen[c].kind = 0}
  <2>1. /\ UNCHANGED <<req, inbox, seen, granted>>
        /\ \A c \in Client :
             chat'[c] = IF chat[c] \in {"open", "asked"} THEN "lost" ELSE chat[c]
    BY <1>2 DEF ProcessEnds
  <2>2. ASSUME NEW c \in lost PROVE Outcome(c)' = 5
    BY <2>1, <2>2, OutcomeIsNext
  <2>3. ASSUME NEW c \in Client, c \notin lost PROVE Outcome(c)' = Outcome(c)
    BY <2>1, <2>3, OutcomeIs, OutcomeIsNext
  <2>4. \A c \in Client : Outcome(c)' = IF c \in lost THEN 5 ELSE Outcome(c)
    BY <2>2, <2>3
  <2>5. lost \in SUBSET Client /\ \A c \in lost : seen[c].kind = 0
    OBVIOUS
  <2> HIDE DEF lost
  <2> QED  BY <2>1, <2>4, <2>5, LoseStep DEF Refines
<1> QED  BY <1>1, <1>2 DEF SelectError, ServerKill

\* Where no outcome changes, a request that somebody settled asked for may be
\* carried out, or not.
LEMMA RefinesAgain ==
  ASSUME NEW cmd, NEW cred, Settled(cmd, cred), UNCHANGED <<req, seen>>,
         granted' \in {granted, granted \cup {<<cmd, cred>>}},
         \A c \in Client : Outcome(c)' = Outcome(c)
  PROVE  Refines
<1>1. CASE granted' = granted
  BY <1>1, Stutters DEF Refines
<1>2. CASE granted' = granted \cup {<<cmd, cred>>}
  BY <1>2, AgainStep DEF Refines
<1> QED  BY <1>1, <1>2

\* The authentication server answers what main relayed last: it is carried out,
\* or once more for a client that does not wait.
LEMMA RefinesAnswer ==
  ASSUME Way, Origin, AuthServe(link), pc = "await", UNCHANGED <<clientVars, serverVars>>
  PROVE  Refines
<1>0. TypeOK /\ LinkTypeOK /\ ServerTypeOK /\ link \in Link /\ OneRequest /\ ReadOnce
  BY DEF Way, OwnInv, TypeOK, LinkTypeOK, Origin
<1>1. UNCHANGED <<chat, req, inbox, seen, pc, clients, i, result, link>>
  BY DEF clientVars, serverVars, AuthServe
<1>2. sock[link] = "up"
  BY <1>0 DEF Way, Attached, AuthKept
<1>3. toAuth[link] = <<Relayed>> /\ fromAuth[link] = <<>>
  BY <1>2 DEF AuthServe, Way, Inv, LockStep
<1> DEFINE q == Relayed
<1>4. q.cmd = action /\ q.cred = credential /\ q.id \in Nat
  BY <1>0 DEF Relayed, ServerTypeOK
<1> HIDE DEF q
<1>5. toAuth[link] = <<q>> /\ Head(toAuth[link]) = q
  BY <1>3 DEF q
<1>6. PICK r \in Answers(q) : SendAnswer(link, q, r)
  BY <1>5 DEF AuthServe
<1>7. credential # NoCred
  BY <1>4, <1>5 DEF AuthServe, Readable
<1>8. r.kind \in AnswerKinds(action) /\ r \in Response
  BY <1>4, AnswersFit
<1>9. granted' = granted \cup (IF IsSuccess(r.kind) THEN {<<action, credential>>} ELSE {})
  BY <1>4, <1>6 DEF SendAnswer
<1>10. fromAuth'[link] # <<>> /\ Head(fromAuth'[link]) = r
  <2>1. fromAuth'[link] = Append(<<>>, r) /\ Append(<<>>, r) = <<r>>
    BY <1>0, <1>2, <1>3, <1>6 DEF SendAnswer, LinkTypeOK
  <2> QED  BY <2>1
<1>11. PICK c \in Client : c = clients[i]
  BY <1>0 DEF ServerTypeOK
<1>12. ASSUME NEW d \in Client, d # c \/ chat[d] # "asked" \/ inbox[d] # <<>>
       PROVE  Outcome(d)' = Outcome(d)
  <2>1. chat[d] = "asked" => Underway(d)' = Underway(d)
    BY <1>1, <1>11, <1>12, UnderwayIs, UnderwayIsNext
  <2> QED  BY <1>1, <2>1, OutcomeIs, OutcomeIsNext
<1>13. CASE chat[c] = "asked" /\ inbox[c] = <<>>
  <2>1. AskedBy(c, action, credential)
    BY <1>11, <1>13, WaitsForOwn
  <2>2. seen[c].kind = 0
    BY <1>0, <1>13 DEF ReadOnce
  <2>3. Outcome(c) = 0
    BY <1>3, <1>13, <2>2, OutcomeIs, UnderwayIs
  <2>4. Outcome(c)' = r.kind
    <3>1. Underway(c)' = r.kind
      BY <1>1, <1>10, <1>11, <1>13, UnderwayIsNext
    <3> QED  BY <1>1, <1>13, <2>2, <3>1, OutcomeIsNext
  <2>5. \A d \in Client : Outcome(d)' = IF d = c THEN r.kind ELSE Outcome(d)
    BY <1>12, <2>4
  <2> QED  BY <1>1, <1>8, <1>9, <2>1, <2>3, <2>5, CarryOutStep DEF Refines, AskedBy
<1>14. CASE ~(chat[c] = "asked" /\ inbox[c] = <<>>)
  <2>1. \A d \in Client : Outcome(d)' = Outcome(d)
    BY <1>12, <1>14
  <2>2. Settled(action, credential)
    <3>1. CASE Settled(action, credential)
      BY <3>1
    <3>2. CASE AskedBy(c, action, credential)
      <4>1. chat[c] # "asked" => Outcome(c) # 0
        BY <1>0, <3>2, NotWaiting DEF AskedBy
      <4>2. chat[c] = "asked" => Outcome(c) # 0
        <5> SUFFICES ASSUME chat[c] = "asked" PROVE Outcome(c) # 0
          OBVIOUS
        <5>1. inbox[c] # <<>> /\ inbox[c] \in Seq(Response)
          BY <1>0, <1>14 DEF TypeOK, ClientTypeOK
        <5>2. Head(inbox[c]) \in Response
          BY <5>1
        <5>3. Head(inbox[c]).kind # 0
          BY <5>2 DEF Response, Kind, AuthSuccess, CreateFail
        <5> QED  BY <1>0, <5>1, <5>3, OutcomeIs, UnderwayIs DEF ReadOnce
      <4> QED  BY <3>2, <4>1, <4>2 DEF Settled
    <3> QED  BY <1>7, <1>11, <3>1, <3>2 DEF Origin, MembersAsked, Serves
  <2>3. granted' \in {granted, granted \cup {<<action, credential>>}}
    BY <1>9
  <2> QED  BY <1>1, <2>1, <2>2, <2>3, RefinesAgain
<1> QED  BY <1>13, <1>14

\* It answers a request of a chat server that is gone: it is carried out once
\* more, and nobody hears of it.
LEMMA RefinesLeft ==
  ASSUME Way, Origin, NEW k \in Link, AuthServe(k), k # link \/ pc = "crashed",
         UNCHANGED <<clientVars, serverVars>>
  PROVE  Refines
<1>0. LinkTypeOK /\ link \in Link
  BY DEF Way, OwnInv, TypeOK, LinkTypeOK
<1>1. UNCHANGED <<chat, req, inbox, seen, pc, clients, i, result, link>>
  BY DEF clientVars, serverVars, AuthServe
<1>2. toAuth[k] # <<>> /\ toAuth[k] \in Seq(Request)
  BY <1>0 DEF AuthServe, LinkTypeOK
<1> DEFINE q == Head(toAuth[k])
<1>3. q = toAuth[k][1] /\ 1 \in DOMAIN toAuth[k] /\ q.cred # NoCred
  BY <1>2 DEF AuthServe, Readable
<1>4. Settled(q.cmd, q.cred)
  BY <1>3 DEF Origin, LeftAsked
<1>5. PICK r \in Answers(q) : SendAnswer(k, q, r)
  BY DEF AuthServe
<1>6. granted' \in {granted, granted \cup {<<q.cmd, q.cred>>}}
  BY <1>5 DEF SendAnswer
<1>7. pc = "await" => fromAuth'[link] = fromAuth[link]
  BY <1>0, <1>5 DEF SendAnswer, LinkTypeOK
<1>8. ASSUME NEW c \in Client PROVE Outcome(c)' = Outcome(c)
  <2>1. Underway(c)' = Underway(c)
    <3>1. CASE pc = "await"
      BY <1>1, <1>7, <3>1, UnderwayIs, UnderwayIsNext
    <3>2. CASE pc # "await"
      BY <1>1, <3>2, UnderwayIs, UnderwayIsNext
    <3> QED  BY <3>1, <3>2
  <2> QED  BY <1>1, <2>1, OutcomeIs, OutcomeIsNext
<1> HIDE DEF q
<1> QED  BY <1>1, <1>4, <1>6, <1>8, RefinesAgain

LEMMA RefinesAuth ==
  ASSUME Way, Origin, AuthStep, UNCHANGED <<clientVars, serverVars>>
  PROVE  Refines
<1>1. CASE \E k \in Link : AuthServe(k)
  <2>1. PICK k \in Link : AuthServe(k)
    BY <1>1
  <2>2. CASE k # link \/ pc = "crashed"
    BY <2>1, <2>2, RefinesLeft
  <2>3. CASE k = link /\ pc # "crashed"
    <3>1. sock[link] = "up"
      BY <2>3 DEF Way, Attached, AuthKept
    <3>2. pc = "await"
      BY <2>1, <2>3, <3>1 DEF AuthServe, Way, Inv, LockStep
    <3> QED  BY <2>1, <2>3, <3>2, RefinesAnswer
  <2> QED  BY <2>2, <2>3
<1>2. CASE UNCHANGED <<fromAuth, granted, link>>
  <2>1. UNCHANGED <<chat, req, inbox, seen, pc, clients, i, result, link, fromAuth, granted>>
    BY <1>2 DEF clientVars, serverVars
  <2>2. \A c \in Client : Outcome(c)' = Outcome(c)
    BY <2>1, SameOutcome
  <2> QED  BY <2>1, <2>2, Stutters DEF Refines
<1> QED  BY <1>1, <1>2 DEF AuthStep, AuthExit, AuthStuck, AuthAcceptError, AuthKill,
                           AuthStart, AuthGone

LEMMA RefinesStep ==
  ASSUME Way, Origin, [Next]_vars
  PROVE  Refines
<1>1. CASE UNCHANGED vars
  <2>1. UNCHANGED <<chat, req, inbox, seen, pc, clients, i, result, link, fromAuth, granted>>
    BY <1>1 DEF vars, clientVars, serverVars, linkVars
  <2>2. \A c \in Client : Outcome(c)' = Outcome(c)
    BY <2>1, SameOutcome
  <2> QED  BY <2>1, <2>2, Stutters DEF Refines
<1>2. CASE \E c \in Client : ClientStep(c) /\ UNCHANGED <<serverVars, linkVars>>
  BY <1>2, RefinesClient
<1>3. CASE \/ SelectConnection \/ AcceptConnection \/ AcceptError \/ ScanNext
           \/ ReadFromClient \/ SkipRelay \/ Relay \/ Await \/ Reply
  BY <1>3, RefinesMain DEF Refines
<1>4. CASE SelectError \/ ServerKill \/ ServerStart
  BY <1>4, RefinesProcess
<1>5. CASE AuthStep /\ UNCHANGED <<clientVars, serverVars>>
  BY <1>5, RefinesAuth
<1> QED  BY <1>1, <1>2, <1>3, <1>4, <1>5 DEF Next, ServerStep

-----------------------------------------------------------------------------
(* Whatever is carried out, somebody asked for.                            *)

\* A client's request stays the one it sent.
LEMMA RequestStays ==
  ASSUME TypeOK, OneRequest, [Next]_vars, NEW d \in Client, req[d] # NoReq
  PROVE  req'[d] = req[d]
<1>1. CASE \E c \in Client : ClientStep(c) /\ UNCHANGED <<serverVars, linkVars>>
  BY <1>1 DEF ClientStep, Connect, ConnectRefused, SendToServer, ReceiveFromServer,
              CloseSocket, Kill, TypeOK, ClientTypeOK, OneRequest
<1>2. CASE req' = req
  BY <1>2
<1> QED  BY <1>1, <1>2
  DEF Next, ServerStep, SelectConnection, AcceptConnection, AcceptError, SelectError,
      ScanNext, ReadFromClient, SkipRelay, Relay, Await, Reply, ServerKill,
      ServerStart, ProcessEnds, clientVars, vars

\* An outcome that is fixed stays fixed.
LEMMA SettledStays ==
  ASSUME Way, Origin, [Next]_vars, NEW cmd, NEW cred, Settled(cmd, cred)
  PROVE  Settled(cmd, cred)'
<1>1. PICK d \in Client : AskedBy(d, cmd, cred) /\ Outcome(d) # 0
  BY DEF Settled
<1>2. AskedBy(d, cmd, cred)'
  BY <1>1, RequestStays DEF AskedBy, Way, OwnInv
<1>3. outcomeOf'[d] # 0
  <2>1. outcomeOf[d] # 0 /\ outcomeOf = [c \in Client |-> outcomeOf[c]]
    BY <1>1 DEF outcomeOf
  <2>2. CASE UNCHANGED Service!vars
    BY <2>1, <2>2 DEF Service!vars
  <2>3. CASE Service!Next
    BY <2>1, <2>3 DEF Service!Next, Service!Ask, Service!CarryOut,
      Service!CarryOutAgain, Service!Read, Service!Lose, Service!Gone
  <2> QED  BY <2>2, <2>3, RefinesStep DEF Refines
<1>4. Outcome(d)' # 0
  BY <1>3 DEF outcomeOf
<1> QED  BY <1>2, <1>4 DEF Settled

LEMMA ReadOnceStep ==
  ASSUME Way, Origin, [Next]_vars
  PROVE  ReadOnce'
<1>0. ClientTypeOK /\ OneRequest /\ ReadOnce
  BY DEF Way, OwnInv, TypeOK, Origin
<1>1. CASE \E c \in Client : ClientStep(c) /\ UNCHANGED <<serverVars, linkVars>>
  <2>1. PICK c \in Client : ClientStep(c)
    BY <1>1
  <2>2. \A d \in Client : d # c =>
          chat'[d] = chat[d] /\ req'[d] = req[d] /\ seen'[d] = seen[d]
    BY <1>0, <2>1 DEF ClientStep, Connect, ConnectRefused, SendToServer,
                      ReceiveFromServer, CloseSocket, Kill, ClientTypeOK
  <2>3. CASE SendToServer(c)
    BY <1>0, <2>2, <2>3 DEF SendToServer, ClientTypeOK, OneRequest, ReadOnce
  <2>4. CASE CloseSocket(c)
    BY <1>0, <2>2, <2>4 DEF CloseSocket, ClientTypeOK, OneRequest, ReadOnce
  <2>5. CASE Connect(c) \/ ConnectRefused(c) \/ ReceiveFromServer(c) \/ Kill(c)
    <3>1. chat'[c] \notin {"asked", "fin"}
      BY <1>0, <2>5 DEF Connect, ConnectRefused, ReceiveFromServer, Kill, ClientTypeOK
    <3> QED  BY <2>2, <3>1, <1>0 DEF ReadOnce
  <2> QED  BY <2>1, <2>3, <2>4, <2>5 DEF ClientStep
<1>2. CASE SelectError \/ ServerKill
  BY <1>0, <1>2 DEF SelectError, ServerKill, ProcessEnds, ReadOnce
<1>3. CASE UNCHANGED <<chat, req, seen>>
  BY <1>0, <1>3 DEF ReadOnce
<1> QED  BY <1>1, <1>2, <1>3
  DEF Next, ServerStep, SelectConnection, AcceptConnection, AcceptError,
      ScanNext, ReadFromClient, SkipRelay, Relay, Await, Reply,
      ServerStart, clientVars, vars

\* When main is done with a client, that client waits for nothing.
LEMMA ReplySettles ==
  ASSUME Way, Origin, Reply, NEW d \in Client, AskedBy(d, action, credential), Serves(d)
  PROVE  Settled(action, credential)
<1>0. TypeOK /\ OneRequest /\ ReadOnce
  BY DEF Way, OwnInv, Origin
<1>1. pc = "reply" /\ clients[i] = d /\ d \in connected
  BY DEF Reply, Serves
<1>2. CASE chat[d] # "asked"
  BY <1>0, <1>2, NotWaiting DEF AskedBy, Settled
<1>3. CASE chat[d] = "asked"
  <2>1. result # 0
    BY <1>1 DEF Way, FitsInMain, Fits, AnswerKinds, AuthSuccess, AuthFail,
                CreateDetail, CreateFail
  <2>2. inbox[d] # <<>> => Head(inbox[d]) \in Response
    BY <1>0 DEF TypeOK, ClientTypeOK
  <2>3. Underway(d) # 0
    BY <1>1, <2>1, <2>2, UnderwayIs DEF Response, Kind, AuthSuccess, CreateFail
  <2>4. Outcome(d) # 0
    BY <1>0, <1>3, <2>3, OutcomeIs DEF ReadOnce
  <2> QED  BY <2>4 DEF Settled
<1> QED  BY <1>2, <1>3

LEMMA MembersStep ==
  ASSUME Way, Origin, [Next]_vars
  PROVE  MembersAsked'
<1>0. TypeOK /\ ServerTypeOK /\ ClientTypeOK /\ OneRequest /\ MembersAsked
  BY DEF Way, OwnInv, TypeOK, Origin
<1>1. ASSUME UNCHANGED <<action, credential>>, pc # "crashed", Settled(action, credential)
      PROVE  MembersAsked'
  <2>1. Settled(action, credential)'
    BY <1>1, SettledStays DEF Settled, AskedBy
  <2> QED  BY <2>1 DEF MembersAsked
<1>2. ASSUME UNCHANGED <<action, credential, connected, clients, i>>, pc # "crashed",
             pc' = pc \/ pc' \in {"relay", "await", "reply"}
      PROVE  MembersAsked'
  <2>1. CASE credential = NoCred \/ Settled(action, credential)
    BY <1>1, <1>2, <2>1 DEF MembersAsked
  <2>2. ASSUME NEW d \in Client, AskedBy(d, action, credential), Serves(d)
        PROVE  MembersAsked'
    <3>1. AskedBy(d, action, credential)'
      BY <1>0, <1>2, <2>2, RequestStays DEF AskedBy
    <3>2. Serves(d)'
      BY <1>2, <2>2 DEF Serves
    <3> QED  BY <3>1, <3>2 DEF MembersAsked
  <2> QED  BY <1>0, <1>2, <2>1, <2>2 DEF MembersAsked
<1>3. ASSUME UNCHANGED <<action, credential>>, pc \notin {"relay", "await", "reply", "crashed"}
      PROVE  MembersAsked'
  BY <1>0, <1>1, <1>3 DEF MembersAsked, Serves
<1>4. CASE \/ UNCHANGED vars
           \/ \E c \in Client : ClientStep(c) /\ UNCHANGED <<serverVars, linkVars>>
           \/ AuthStep /\ UNCHANGED <<clientVars, serverVars>>
  <2>1. UNCHANGED <<action, credential, connected, clients, i, pc>>
    BY <1>4 DEF vars, serverVars
  <2> QED  BY <1>2, <2>1 DEF MembersAsked
<1>5. CASE SelectConnection \/ AcceptConnection \/ AcceptError \/ ScanNext
  BY <1>3, <1>5 DEF SelectConnection, AcceptConnection, AcceptError, ScanNext
<1>6. CASE ReadFromClient
  <2>1. PICK c \in Client : c = clients[i]
    BY <1>0, <1>6 DEF ReadFromClient, ServerTypeOK
  <2>2. CASE ReadEnd(c)
    BY <1>3, <1>6, <2>2 DEF ReadFromClient, ReadEnd
  <2>3. CASE ReadRequest(c)
    <3>1. Head(outbox[c]) = req[c] /\ req[c] # NoReq /\ req[c].cred # NoCred
      BY <2>3 DEF ReadRequest, Way, OwnInv, OneRequest, NothingStale
    <3>2. action' = req[c].cmd /\ credential' = req[c].cred
      BY <2>3, <3>1 DEF ReadRequest, Readable, Way, NothingStale
    <3>3. AskedBy(c, action, credential)'
      BY <1>0, <3>1, <3>2, RequestStays DEF AskedBy
    <3>4. Serves(c)'
      BY <1>6, <2>1, <2>3 DEF ReadFromClient, ReadRequest, Serves, Way, OwnInv,
                              ServesConnected
    <3> QED  BY <3>3, <3>4 DEF MembersAsked
  <2> QED  BY <1>6, <2>1, <2>2, <2>3 DEF ReadFromClient
<1>7. CASE SkipRelay
  <2>1. action \notin Cmd /\ pc = "relay" /\ UNCHANGED <<action, credential>>
    BY <1>7 DEF SkipRelay
  <2>2. ASSUME NEW d \in Client, AskedBy(d, action, credential) PROVE FALSE
    BY <1>0, <2>1, <2>2 DEF AskedBy, ClientTypeOK, Request
  <2> QED  BY <1>0, <2>1, <2>2 DEF MembersAsked, Settled
<1>8. CASE Relay \/ Await
  BY <1>2, <1>8 DEF Relay, Await
<1>9. CASE Reply
  <2>1. pc = "reply" /\ UNCHANGED <<action, credential>>
    BY <1>9 DEF Reply
  <2> QED  BY <1>0, <1>1, <1>9, <2>1, ReplySettles DEF MembersAsked
<1>10. CASE SelectError \/ ServerKill \/ ServerStart
  BY <1>10 DEF SelectError, ServerKill, ProcessEnds, ServerStart, MembersAsked
<1> QED  BY <1>4, <1>5, <1>6, <1>7, <1>8, <1>9, <1>10 DEF Next, ServerStep

\* A request that is under way when the process ends was asked by a client that
\* loses it, or by one whose outcome was fixed before.
LEMMA EndSettles ==
  ASSUME Way, Origin, [Next]_vars, ProcessEnds, pc # "crashed",
         NEW n \in DOMAIN toAuth[link], toAuth[link][n].cred # NoCred
  PROVE  Settled(toAuth[link][n].cmd, toAuth[link][n].cred)'
<1>0. TypeOK /\ LinkTypeOK /\ OneRequest /\ ReadOnce /\ link \in Link
  BY DEF Way, OwnInv, TypeOK, LinkTypeOK, Origin
<1>1. sock[link] = "up"
  BY <1>0 DEF Way, Attached, AuthKept
<1>2. toAuth[link] = <<Relayed>>
  BY <1>0, <1>1 DEF Way, Inv, LockStep
<1>3. toAuth'[link'][n].cmd = action /\ toAuth'[link'][n].cred = credential
      /\ toAuth[link][n].cmd = action /\ toAuth[link][n].cred = credential
  BY <1>2 DEF Relayed, ProcessEnds
<1>4. CASE Settled(action, credential)
  BY <1>3, <1>4, SettledStays DEF Settled, AskedBy
<1>5. ASSUME NEW d \in Client, AskedBy(d, action, credential)
      PROVE  Settled(toAuth[link][n].cmd, toAuth[link][n].cred)'
  <2>1. req' = req /\ chat'[d] # "asked" /\ UNCHANGED <<inbox, seen>>
        /\ chat'[d] \in {chat[d], "lost"}
    BY <1>0 DEF ProcessEnds, TypeOK, ClientTypeOK
  <2>2. chat'[d] = "lost" => Outcome(d)' # 0
    BY <2>1, OutcomeIsNext
  <2>3. chat'[d] = chat[d] => Outcome(d)' = Outcome(d)
    BY <2>1, SameOutcome
  <2>4. Outcome(d)' # 0
    BY <1>0, <1>5, <2>1, <2>2, <2>3, NotWaiting DEF AskedBy
  <2> QED  BY <1>3, <1>5, <2>1, <2>4 DEF Settled, AskedBy
<1> QED  BY <1>3, <1>4, <1>5 DEF Origin, MembersAsked

LEMMA LeftStep ==
  ASSUME Way, Origin, [Next]_vars
  PROVE  LeftAsked'
<1>0. LinkTypeOK /\ LeftAsked /\ link \in Link
  BY DEF Way, OwnInv, TypeOK, LinkTypeOK, Origin
<1> SUFFICES ASSUME NEW k \in Link, k # link' \/ pc' = "crashed",
                    NEW n \in DOMAIN toAuth'[k], toAuth'[k][n].cred # NoCred
             PROVE  Settled(toAuth[k][n].cmd, toAuth[k][n].cred)'
  BY DEF LeftAsked
<1>1. ASSUME NEW q, q.cred # NoCred, q = toAuth'[k][n], k # link \/ pc = "crashed",
             \E m \in DOMAIN toAuth[k] : toAuth[k][m] = q
      PROVE  Settled(toAuth[k][n].cmd, toAuth[k][n].cred)'
  <2>1. Settled(q.cmd, q.cred)
    BY <1>0, <1>1 DEF LeftAsked
  <2>2. Settled(q.cmd, q.cred)'
    BY <2>1, SettledStays
  <2> QED  BY <1>1, <2>2 DEF Settled, AskedBy
<1>2. CASE k # link \/ pc = "crashed"
  <2>1. CASE toAuth'[k] = toAuth[k]
    BY <1>1, <1>2, <2>1
  <2>2. CASE toAuth'[k] # toAuth[k]
    <3>1. ASSUME Relay PROVE FALSE
      BY <1>0, <1>2, <2>2, <3>1 DEF Relay, LinkTypeOK
    <3>2. ASSUME NEW j \in Link, AuthServe(j)
          PROVE  toAuth[k] \in Seq(Request) /\ toAuth[k] # <<>> /\ toAuth'[k] = Tail(toAuth[k])
      BY <1>0, <2>2, <3>2 DEF AuthServe, LinkTypeOK
    <3>3. ASSUME NEW end, AuthGone(end) PROVE FALSE
      BY <3>3 DEF AuthGone
    <3>4. PICK j \in Link : AuthServe(j)
      BY <2>2, <3>1, <3>3
      DEF Next, ServerStep, SelectConnection, AcceptConnection, AcceptError,
          SelectError, ScanNext, ReadFromClient, SkipRelay, Await, Reply, ServerKill,
          ServerStart, ProcessEnds, linkVars, vars, AuthStep, AuthExit, AuthStuck,
          AuthAcceptError, AuthKill, AuthStart
    <3>5. \A s \in Seq(Request) : s # <<>> =>
            \A m \in DOMAIN Tail(s) : m + 1 \in DOMAIN s /\ Tail(s)[m] = s[m + 1]
      OBVIOUS
    <3>6. n + 1 \in DOMAIN toAuth[k] /\ toAuth'[k][n] = toAuth[k][n + 1]
      BY <3>2, <3>4, <3>5
    <3> QED  BY <1>1, <1>2, <3>6
  <2> QED  BY <2>1, <2>2
<1>3. CASE k = link /\ pc # "crashed"
  <2>1. ASSUME ~ProcessEnds PROVE FALSE
    <3>1. k = link' /\ pc' # "crashed"
      BY <1>3, <2>1
      DEF Next, ServerStep, SelectConnection, AcceptConnection, AcceptError,
          SelectError, ScanNext, ReadFromClient, SkipRelay, Relay, Await, Reply,
          ServerKill, ServerStart, linkVars, serverVars, vars, AuthStep, AuthServe,
          SendAnswer, AuthExit, AuthStuck, AuthAcceptError, AuthKill, AuthStart, AuthGone
    <3> QED  BY <3>1
  <2>2. ProcessEnds
    BY <2>1
  <2>3. toAuth' = toAuth
    BY <2>2 DEF ProcessEnds
  <2>4. Settled(toAuth[link][n].cmd, toAuth[link][n].cred)'
    BY <1>3, <2>2, <2>3, EndSettles
  <2>5. link' = link
    BY <2>2 DEF ProcessEnds
  <2> QED  BY <1>3, <2>4, <2>5 DEF Settled, AskedBy
<1> QED  BY <1>2, <1>3

\* What is known of who asked, as long as no connection was lost.
OriginKept == NothingStale /\ AuthKept => Origin

LEMMA WayHolds ==
  ASSUME Inv, Attached, OwnInv, OnItsWay, NothingStale, AuthKept
  PROVE  Way
BY DEF Way, OnItsWay

LEMMA InitOrigin == Init => Origin
<1> SUFFICES ASSUME Init PROVE Origin
  OBVIOUS
<1>1. ReadOnce
  BY DEF Init, ClientInit, ReadOnce
<1>2. MembersAsked
  BY DEF Init, ServerInit, MembersAsked
<1>3. LeftAsked
  BY DEF Init, LinkInit, LeftAsked
<1> QED  BY <1>1, <1>2, <1>3 DEF Origin

LEMMA InitRefines == Init => Service!Init
<1> SUFFICES ASSUME Init PROVE Service!Init
  OBVIOUS
<1>1. /\ \A c \in Client : chat[c] = "idle" /\ req[c] = NoReq /\ seen[c].kind = 0
      /\ granted = {}
  BY DEF Init, ClientInit, LinkInit, NothingSeen
<1>2. \A c \in Client : Outcome(c) = 0
  BY <1>1, OutcomeIs
<1>3. askedOf = [c \in Client |-> <<>>] /\ outcomeOf = [c \in Client |-> 0] /\ readOf = {}
  BY <1>1, <1>2 DEF askedOf, outcomeOf, readOf
<1> QED  BY <1>1, <1>3 DEF Service!Init, Service!Nothing

LEMMA OriginStep ==
  Inv /\ Attached /\ OwnInv /\ OnItsWay /\ OriginKept /\ [Next]_vars => OriginKept'
<1> SUFFICES ASSUME Inv, Attached, OwnInv, OnItsWay, OriginKept, [Next]_vars,
                    NothingStale, AuthKept'
             PROVE  Origin'
  BY DEF OriginKept, NothingStale
<1>1. AuthKept
  BY AuthKeptBefore DEF Inv, TypeOK
<1>2. Way /\ Origin
  BY <1>1, WayHolds DEF OriginKept
<1> QED  BY <1>2, ReadOnceStep, MembersStep, LeftStep DEF Origin

LEMMA RefinementStep ==
  Inv /\ Attached /\ OwnInv /\ OnItsWay /\ OriginKept /\ [Next]_vars =>
    (NothingStale => [AuthKept' => Service!Next]_(Service!vars))
<1> SUFFICES ASSUME Inv, Attached, OwnInv, OnItsWay, OriginKept, [Next]_vars,
                    NothingStale, AuthKept'
             PROVE  Refines
  BY DEF Refines
<1>1. AuthKept
  BY AuthKeptBefore DEF Inv, TypeOK
<1>2. Way /\ Origin
  BY <1>1, WayHolds DEF OriginKept
<1> QED  BY <1>2, RefinesStep

\* For any number of clients that are killed at any point, any number of starts
\* of the chat server and any answers: each client reads the outcome of its own
\* command, which was carried out after it asked, was fixed then and given to no
\* other; whatever else is carried out was asked by a client that waits for
\* nothing any more.  If no stale bytes follow a request or a response and no
\* request is empty, and until a connection is lost.
THEOREM ImplementsServiceHolds == NothingStale => (Spec => ImplementsService)
<1>1. Init => OriginKept
  BY InitOrigin DEF OriginKept
<1>2. Spec => []Attached
  BY InitAttached, StepAttached, InvHolds, PTL DEF Spec
<1>3. Spec => []OriginKept
  BY <1>1, <1>2, OriginStep, InvHolds, OwnInvHolds, OnItsWayHolds, PTL DEF Spec
<1> SUFFICES ASSUME NothingStale PROVE Spec => ImplementsService
  OBVIOUS
<1>4. Inv /\ Attached /\ OwnInv /\ OnItsWay /\ OriginKept /\ [Next]_vars =>
        [AuthKept' => Service!Next]_(Service!vars)
  BY RefinementStep
<1> QED  BY <1>2, <1>3, <1>4, InitRefines, InvHolds, OwnInvHolds, OnItsWayHolds, PTL
         DEF Spec, ImplementsService
=============================================================================
