---------------------------- MODULE AuthProtocol ----------------------------
(***************************************************************************)
(* The messages of Proto/AuthProtocol.proto and what is left of them once  *)
(* they are read.                                                          *)
(*                                                                         *)
(* Every receiver calls ParseFromString(buf) on a char array: the argument *)
(* is a C string.  It ends at the first zero byte, and a requestID, a user *)
(* id or a reason equal to zero is a zero byte; if the message holds none, *)
(* the string runs on into bytes that recv did not write, its "tail".      *)
(* A message cut short, or followed by a tail that does not parse, makes   *)
(* ParseFromString return false, but the elements it met are in the        *)
(* message all the same, with the fields not reached at their default.     *)
(*                                                                         *)
(* A definition named X_Y, just before X, is X with the mistake Y, used    *)
(* nowhere: see README.md.                                                 *)
(***************************************************************************)
EXTENDS Integers

CONSTANTS
  Cred,      \* the (email, password) pairs users type, none of them empty
  NoCred,    \* an empty email and password
  UserId,    \* the user ids the accounts have
  Residue    \* what the tail of a receive buffer may be

\* What the tail may be: a zero byte, bytes that do not parse, or bytes that,
\* behind a response, begin with the tag of a createDetail.  These are left by
\* the creation date of an earlier authSuccess or, where the build gives the
\* buffers of ReadFromClient and ReceiveFromServer the same stack memory, by
\* the password of a request.  The tags of the other elements are left out: in
\* stale bytes they are control characters somebody typed, or the length of an
\* email or a password of 10, 18 or 34 bytes, where a field would begin.  A build
\* where stale bytes never matter has only "clean".
ASSUME ResidueAssumption ==
  /\ Residue \subseteq {"clean", "garbage", "detail"}
  /\ "clean" \in Residue

ASSUME CredAssumption == NoCred \notin Cred

ASSUME UserIdAssumption == UserId \subseteq Nat

Cmd == {"CREATEACCOUNT", "LOGIN"}

Request == [cmd : Cmd, id : Nat \ {0}, cred : Cred \cup {NoCred}]

\* The four repeated fields of Response, by their field numbers, which are
\* also the values ReceiveFromServer returns.
AuthSuccess  == 1
AuthFail     == 2
CreateDetail == 3
CreateFail   == 4
Kind == AuthSuccess..CreateFail

\* val is the user id of a success and the reason of a failure.
Response == [kind : Kind, id : Nat, val : Nat]

\* The reasons of AuthenticateWebFailure and of CreateAccountWebFailure.
INVALID_CREDENTIALS    == 0
AuthInternalError      == 1
ACCOUNT_ALREADY_EXISTS == 0
INVALID_PASSWORD       == 1
CreateInternalError    == 2
AuthReason   == INVALID_CREDENTIALS..AuthInternalError
CreateReason == ACCOUNT_ALREADY_EXISTS..CreateInternalError

\* cTCP_Client::returnStatus; UNSET is the member before any assignment.
Status == {"UNSET", "SUCCESS", "INVALID_CREDENTIAL", "ACCOUNT_EXISTS",
           "INVALID_PASS", "INTERNAL_SERVER_ERROR"}

-----------------------------------------------------------------------------
(* Reading a response.                                                     *)

Truncated(r) == r.id = 0 \/ r.val = 0

\* A detail tail begins with the byte 1A: one more element, a createDetail,
\* which does not parse but is counted.
KindsSeen(r, tail) ==
  IF tail = "detail" /\ ~Truncated(r) THEN {r.kind, CreateDetail} ELSE {r.kind}

\* ReceiveFromServer looks for the four kinds in the order of their numbers.
KindSeen(r, tail) ==
  CHOOSE k \in KindsSeen(r, tail) : \A j \in KindsSeen(r, tail) : k <= j

\* A zero id hides the fields behind it; a zero value reads as the default.
ValSeen(r) == IF r.id = 0 THEN 0 ELSE r.val

\* The status ReceiveFromServer derives from the element it found.
StatusOf(kind, val) ==
  CASE kind \in {AuthSuccess, CreateDetail} -> "SUCCESS"
    [] kind = AuthFail /\ val = INVALID_CREDENTIALS -> "INVALID_CREDENTIAL"
    [] kind = CreateFail /\ val = ACCOUNT_ALREADY_EXISTS -> "ACCOUNT_EXISTS"
    [] kind = CreateFail /\ val = INVALID_PASSWORD -> "INVALID_PASS"
    [] OTHER -> "INTERNAL_SERVER_ERROR"

-----------------------------------------------------------------------------
(* Reading a request.                                                      *)

\* The parse succeeds unless the message is cut (an empty string is a zero
\* length byte) or a tail that does not parse follows it.
Readable_IdsFromZero(q, tail) ==
  q.cred # NoCred /\ q.id # 1 /\ tail = "clean"
Readable_Unchecked(q, tail) == TRUE
Readable(q, tail) == q.cred # NoCred /\ tail = "clean"

\* The kinds that answer a command, and the command a kind answers.
AnswerKinds(cmd) ==
  IF cmd = "LOGIN" THEN {AuthSuccess, AuthFail} ELSE {CreateDetail, CreateFail}

IsSuccess(kind) == kind \in {AuthSuccess, CreateDetail}
=============================================================================
