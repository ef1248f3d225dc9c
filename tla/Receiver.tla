------------------------------ MODULE Receiver ------------------------------
(***************************************************************************)
(* A receiver and its one buffer: each recv writes over the start of the   *)
(* buffer, and what is read is the C string there, however many bytes      *)
(* came.  The buffers of ReadFromClient and ReceiveFromServer, two         *)
(* functions that main calls in turn, may be the same stack memory: then   *)
(* requests and responses come to it.                                      *)
(*                                                                         *)
(* One message is under way at a time, as ChatServer!LockStep says.  The   *)
(* stream may hand it over in pieces.                                      *)
(***************************************************************************)
EXTENDS Wire

CONSTANTS
  Kinds,      \* the messages that come to the buffer
  Cuts,       \* whether recv may return a part of what was sent
  Fill,       \* what a fresh stack may hold: bytes
  BufLen,     \* bound: length of the buffer, enough for every message
  MaxId,      \* bound: request ids, and the messages sent in pieces
  Ids, Vals   \* the ids, user ids and reasons in responses

VARIABLES
  what,     \* which of Kinds is under way or was the last one
  buf,      \* the buffer
  stream,   \* the bytes under way
  sent,     \* the messages sent
  heard,    \* what the last recv was read as, if anything
  tail      \* the byte behind what recv wrote; 0 at the end of the buffer

vars == <<what, buf, stream, sent, heard, tail>>

Requests == [cmd : Cmd, id : 1..MaxId, cred : Cred \cup {NoCred}]

Reasons(kind) == IF kind = AuthFail THEN AuthReason ELSE CreateReason

Responses ==
  {r \in [kind : Kind, id : Ids, val : Vals] :
     IsSuccess(r.kind) \/ r.val \in Reasons(r.kind)}

ASSUME ReceiverAssumption ==
  /\ Kinds \subseteq {"requests", "responses"}
  /\ Cuts \in BOOLEAN
  /\ Fill \subseteq 0..255
  /\ {BufLen, MaxId} \cup Ids \cup Vals \subseteq Number
  /\ \A q \in Requests : Len(SerializeRequest(q)) <= BufLen
  /\ \A r \in Responses : Len(SerializeResponse(r)) <= BufLen

Init ==
  /\ what \in Kinds
  /\ \E b \in Fill : buf = [n \in 1..BufLen |-> b]
  /\ stream = <<>>
  /\ sent = <<>>
  /\ heard = <<>>
  /\ tail = 0

\* The peer sends; it waits for what it sent before to be read.
Send(kind, m, bytes) ==
  /\ kind \in Kinds
  /\ stream = <<>>
  /\ Cuts => Len(sent) < MaxId
  /\ stream' = bytes
  /\ sent' = IF Cuts THEN Append(sent, m) ELSE <<m>>
  /\ what' = kind
  /\ heard' = <<>>
  /\ UNCHANGED <<buf, tail>>

SendRequest ==
  \E q \in Requests :
    /\ Cuts => q.id = Len(sent) + 1
    /\ Send("requests", q, SerializeRequest(q))

SendResponse ==
  \E r \in Responses : Send("responses", r, SerializeResponse(r))

\* recv writes over the start of the buffer.
Overlay(bytes) ==
  [n \in DOMAIN buf |-> IF n <= Len(bytes) THEN bytes[n] ELSE buf[n]]

\* recv, and ParseFromString(buf).
Recv ==
  /\ stream # <<>>
  /\ \E n \in 1..Len(stream) :
       /\ ~Cuts => n = Len(stream)
       /\ buf' = Overlay(SubSeq(stream, 1, n))
       /\ stream' = SubSeq(stream, n + 1, Len(stream))
       /\ tail' = IF n < BufLen THEN buf'[n + 1] ELSE 0
  /\ heard' = <<IF what = "requests" THEN RequestsIn(CString(buf'))
                ELSE ResponseIn(CString(buf'))>>
  /\ UNCHANGED <<what, sent>>

Next == SendRequest \/ SendResponse \/ Recv

Spec == Init /\ [][Next]_vars
-----------------------------------------------------------------------------
(* Properties.                                                             *)

\* A request that arrives whole is read as AuthProtocol says, over any history
\* of the buffer: with a zero byte behind it as Readable has it; with stale bytes,
\* as the one that was sent or not at all.  That these add no command and change
\* no email or password is a fact of the texts the instance has: with control
\* characters in an email, what is behind another request could be a command.
RequestsAreRead ==
  what = "requests" /\ heard # <<>> /\ ~Cuts =>
    LET q == Last(sent)
        clean == IF Readable(q, "clean")
                   THEN <<[cmd |-> q.cmd, id |-> q.id, text |-> Text[q.cred]]>> ELSE <<>>
    IN heard[1] \in {clean, <<>>} /\ (tail = 0 => heard[1] = clean)

\* The kind and the status ReceiveFromServer gets from a response that arrives
\* whole are those AuthProtocol says for a clean tail, if a zero byte is behind it,
\* and for a clean or a detail tail otherwise.  That stale dates, emails and
\* passwords do nothing else is, again, a fact of the instance's texts.
ResponsesAreRead ==
  what = "responses" /\ heard # <<>> /\ ~Cuts =>
    LET r == Last(sent)
        Seen(t) == [kind |-> KindSeen(r, t), status |-> StatusOf(KindSeen(r, t), ValSeen(r))]
        result == [kind |-> heard[1].kind, status |-> StatusOf(heard[1].kind, heard[1].val)]
    IN /\ result \in {Seen("clean"), Seen("detail")}
       /\ tail = 0 => result = Seen("clean")

\* In AuthProtocol.proto "required string email = 2;" and "required string
\* passwd = 3;" make both a part of each request: no receiver takes a command
\* with an email and a password that were not sent together.
CredentialsOfOneRequest ==
  what = "requests" /\ heard # <<>> =>
    \A n \in DOMAIN heard[1] : \E k \in DOMAIN sent : heard[1][n].text = Text[sent[k].cred]
=============================================================================
