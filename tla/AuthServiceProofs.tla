------------------------- MODULE AuthServiceProofs -------------------------
(***************************************************************************)
(* What the proofs about both servers share: the types of what passes      *)
(* between them.                                                           *)
(***************************************************************************)
EXTENDS AuthService, SequenceTheorems, TLAPS

\* The authentication server's responses answer the command, with the id of
\* the request.
LEMMA AnswersFit ==
  ASSUME NEW q, q.id \in Nat, NEW r \in Answers(q)
  PROVE  /\ r \in Response
         /\ r.id = q.id
         /\ r.kind \in AnswerKinds(q.cmd)
<1>2. CASE q.cmd = "LOGIN"
  <2>1. r \in [kind : {AuthSuccess}, id : {q.id}, val : UserId]
        \/ r \in [kind : {AuthFail}, id : {q.id}, val : AuthReason]
    BY <1>2 DEF Answers
  <2>2. UserId \subseteq Nat
    BY UserIdAssumption DEF UserIdAssumption
  <2>3. AuthReason \subseteq Nat
    BY DEF AuthReason, INVALID_CREDENTIALS, AuthInternalError
  <2>4. r.val \in Nat
    <3>1. r.val \in UserId \/ r.val \in AuthReason
      BY <2>1
    <3> QED  BY <2>2, <2>3, <3>1
  <2>5. r.kind \in Kind /\ r.id \in Nat
    BY <2>1 DEF Kind, AuthSuccess, AuthFail, CreateFail
  <2>6. r = [kind |-> r.kind, id |-> r.id, val |-> r.val]
    BY <2>1
  <2>7. r \in Response
    BY <2>4, <2>5, <2>6 DEF Response
  <2> QED  BY <1>2, <2>1, <2>7 DEF AnswerKinds
<1>3. CASE q.cmd # "LOGIN"
  BY <1>3
  DEF Answers, AnswerKinds, Response, Kind, CreateReason,
      ACCOUNT_ALREADY_EXISTS, CreateInternalError, AuthSuccess, CreateDetail, CreateFail
<1> QED  BY <1>2, <1>3

-----------------------------------------------------------------------------
(* Types.                                                                  *)

LEMMA LinkInitType == LinkInit => LinkTypeOK
BY ServiceAssumption DEF LinkInit, LinkTypeOK, Link, SockState

LEMMA LinkVarsType == LinkTypeOK /\ UNCHANGED linkVars => LinkTypeOK'
BY DEF LinkTypeOK, linkVars

\* An answer keeps the types of what it disturbs, on a connection that exists.
LEMMA SendAnswerType ==
  ASSUME LinkTypeOK, NEW k \in Link, ~(k > link),
         NEW q, q.cmd \in Cmd, q.cred \in Cred, NEW r \in Response,
         SendAnswer(k, q, r)
  PROVE  /\ fromAuth' \in [Link -> Seq(Response)]
         /\ sock' \in [Link -> SockState]
         /\ granted' \subseteq Cmd \X Cred
         /\ \A j \in Link : j > link =>
              fromAuth'[j] = fromAuth[j] /\ sock'[j] = sock[j]
<1>1. fromAuth' \in [Link -> Seq(Response)]
  BY DEF SendAnswer, LinkTypeOK
<1>2. sock' \in [Link -> SockState]
  BY DEF SendAnswer, LinkTypeOK, SockState
<1>3. granted' \subseteq Cmd \X Cred
  BY DEF SendAnswer, LinkTypeOK
<1>4. \A j \in Link : j > link =>
        fromAuth'[j] = fromAuth[j] /\ sock'[j] = sock[j]
  BY DEF SendAnswer, LinkTypeOK
<1> QED  BY <1>1, <1>2, <1>3, <1>4

LEMMA AuthGoneType ==
  ASSUME LinkTypeOK, NEW end \in {"fin", "rst"}, AuthGone(end)
  PROVE  LinkTypeOK'
<1>1. toAuth' \in [Link -> Seq(Request)] /\ \A j \in Link : toAuth'[j] = <<>>
  BY DEF AuthGone
<1>2. /\ sock' \in [Link -> SockState]
      /\ \A j \in Link : j > link => sock'[j] = "none"
  BY DEF AuthGone, LinkTypeOK, SockState
<1> QED  BY <1>1, <1>2 DEF AuthGone, LinkTypeOK

\* The steps of the authentication server keep the types.
LEMMA AuthStepType ==
  ASSUME LinkTypeOK, AuthStep
  PROVE  LinkTypeOK'
<1>1. ASSUME NEW k \in Link, AuthServe(k) PROVE LinkTypeOK'
  <2> DEFINE q == Head(toAuth[k])
  <2>1. toAuth[k] \in Seq(Request) /\ toAuth[k] # <<>>
    BY <1>1 DEF AuthServe, LinkTypeOK
  <2>2. q \in Request /\ Tail(toAuth[k]) \in Seq(Request)
    BY <2>1
  <2>3. PICK r \in Answers(q) : SendAnswer(k, q, r)
    BY <1>1 DEF AuthServe
  <2>4. r \in Response
    BY <2>2, AnswersFit DEF Request
  <2>5. ~(k > link)
    BY <2>1 DEF LinkTypeOK
  <2>6. q.cmd \in Cmd /\ q.cred \in Cred
    BY <1>1, <2>2 DEF AuthServe, Readable, Request
  <2>7. /\ fromAuth' \in [Link -> Seq(Response)]
        /\ sock' \in [Link -> SockState]
        /\ granted' \subseteq Cmd \X Cred
        /\ \A j \in Link : j > link =>
             fromAuth'[j] = fromAuth[j] /\ sock'[j] = sock[j]
    BY <2>3, <2>4, <2>5, <2>6, SendAnswerType
  <2>8. /\ toAuth' \in [Link -> Seq(Request)]
        /\ \A j \in Link : j > link => toAuth'[j] = <<>>
    BY <1>1, <2>2, <2>5 DEF AuthServe, LinkTypeOK
  <2> QED  BY <1>1, <2>7, <2>8 DEF AuthServe, LinkTypeOK
<1>2. ASSUME NEW k \in Link, AuthExit(k) \/ AuthAcceptError(k) PROVE LinkTypeOK'
  BY <1>2, AuthGoneType DEF AuthExit, AuthAcceptError
<1>3. ASSUME NEW k \in Link, AuthStuck(k) PROVE LinkTypeOK'
  BY <1>3 DEF AuthStuck, LinkTypeOK
<1>4. ASSUME AuthKill PROVE LinkTypeOK'
  BY <1>4, AuthGoneType DEF AuthKill
<1>5. ASSUME AuthStart PROVE LinkTypeOK'
  BY <1>5 DEF AuthStart, LinkTypeOK, SockState
<1> QED  BY <1>1, <1>2, <1>3, <1>4, <1>5 DEF AuthStep

\* The steps of the peer keep the types.
LEMMA PeerStepType ==
  ASSUME LinkTypeOK, history \in Nat, PeerStep
  PROVE  LinkTypeOK' /\ history' \in Nat
<1>1. link \in Link /\ link \in Nat
  BY ServiceAssumption DEF LinkTypeOK, Link
<1>2. CASE PeerSend
  <2>1. CASE UNCHANGED toAuth
    <3>1. /\ sock' \in [Link -> SockState]
          /\ \A j \in Link : j > link => sock'[j] = sock[j]
      BY <1>1, <1>2 DEF PeerSend, LinkTypeOK, SockState
    <3> QED  BY <1>2, <2>1, <3>1 DEF PeerSend, LinkTypeOK
  <2>2. ASSUME NEW cmd \in Cmd, NEW cred \in Cred \cup {NoCred}, UNCHANGED sock,
               toAuth' = [toAuth EXCEPT ![link] =
                 Append(@, [cmd |-> cmd, id |-> history + 1, cred |-> cred])]
        PROVE  LinkTypeOK'
    <3>1. [cmd |-> cmd, id |-> history + 1, cred |-> cred] \in Request
      BY DEF Request
    <3> DEFINE q == [cmd |-> cmd, id |-> history + 1, cred |-> cred]
    <3> HIDE DEF q
    <3>2. Append(toAuth[link], q) \in Seq(Request)
      BY <1>1, <3>1 DEF LinkTypeOK, q
    <3>3. toAuth' \in [Link -> Seq(Request)]
      BY <2>2, <3>2 DEF LinkTypeOK, q
    <3>4. \A j \in Link : j > link => toAuth'[j] = toAuth[j]
      BY <1>1, <2>2 DEF LinkTypeOK
    <3> QED  BY <1>2, <2>2, <3>3, <3>4 DEF PeerSend, LinkTypeOK
  <2>3. \/ UNCHANGED toAuth
        \/ /\ UNCHANGED sock
           /\ \E cmd \in Cmd, cred \in Cred \cup {NoCred} :
                toAuth' = [toAuth EXCEPT ![link] =
                  Append(@, [cmd |-> cmd, id |-> history + 1, cred |-> cred])]
    BY <1>2 DEF PeerSend
  <2>4. LinkTypeOK'
    BY <2>1, <2>2, <2>3
  <2> QED  BY <1>2, <2>4 DEF PeerSend
<1>3. CASE PeerReceive
  <2>1. fromAuth[link] \in Seq(Response) /\ fromAuth[link] # <<>>
    BY <1>1, <1>3 DEF PeerReceive, LinkTypeOK
  <2>2. Tail(fromAuth[link]) \in Seq(Response)
    BY <2>1
  <2>3. fromAuth' \in [Link -> Seq(Response)]
    BY <1>3, <2>2 DEF PeerReceive, LinkTypeOK
  <2>4. \A j \in Link : j > link => fromAuth'[j] = fromAuth[j]
    BY <1>1, <1>3 DEF PeerReceive, LinkTypeOK
  <2> QED  BY <1>3, <2>3, <2>4 DEF PeerReceive, LinkTypeOK
<1>4. CASE PeerEnd
  <2>1. /\ sock' \in [Link -> SockState]
        /\ \A j \in Link : j > link => sock'[j] = sock[j]
    BY <1>1, <1>4 DEF PeerEnd, LinkTypeOK, SockState
  <2> QED  BY <1>4, <2>1 DEF PeerEnd, LinkTypeOK
<1>5. CASE PeerStart
  <2>1. link + 1 \in Link /\ link' = link + 1
    BY <1>1, <1>5, ServiceAssumption DEF PeerStart, Link
  <2>2. sock' \in [Link -> SockState]
    BY <1>5 DEF PeerStart, LinkTypeOK, SockState
  <2>3. \A j \in Link : j > link' =>
          sock'[j] = "none" /\ toAuth'[j] = <<>> /\ fromAuth'[j] = <<>>
    <3> SUFFICES ASSUME NEW j \in Link, j > link'
                 PROVE  sock'[j] = "none" /\ toAuth'[j] = <<>> /\ fromAuth'[j] = <<>>
      OBVIOUS
    <3>1. j > link /\ j # link + 1
      BY <1>1, <2>1, ServiceAssumption DEF Link
    <3> QED  BY <1>5, <3>1 DEF PeerStart, LinkTypeOK
  <2> QED  BY <1>5, <2>1, <2>2, <2>3 DEF PeerStart, LinkTypeOK
<1> QED  BY <1>2, <1>3, <1>4, <1>5 DEF PeerStep
=============================================================================
