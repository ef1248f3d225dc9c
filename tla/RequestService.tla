--------------------------- MODULE RequestService ---------------------------
(***************************************************************************)
(* What the three programs together promise their users: a client asks     *)
(* once; its command is carried out and the outcome, fixed from then on,   *)
(* is what the user reads, unless the connection is lost before.  A        *)
(* command that was answered, or that nobody waits for any more, may be    *)
(* carried out again behind the user's back.                               *)
(***************************************************************************)
EXTENDS AuthProtocol

CONSTANT Client

VARIABLES
  asked,     \* the command and credentials of each client, Nothing before
  outcome,   \* the kind of the answer to each client, 0 before
  read,      \* the clients that read it
  granted    \* the commands and credentials carried out with success

vars == <<asked, outcome, read, granted>>

Nothing == <<>>

\* The outcome for a client that is gone.
Gone == 5

Init ==
  /\ asked = [c \in Client |-> Nothing]
  /\ outcome = [c \in Client |-> 0]
  /\ read = {}
  /\ granted = {}

Ask(c) ==
  /\ asked[c] = Nothing
  /\ outcome[c] = 0
  /\ \E q \in Cmd \X Cred : asked' = [asked EXCEPT ![c] = q]
  /\ UNCHANGED <<outcome, read, granted>>

CarryOut(c) ==
  /\ asked[c] # Nothing
  /\ outcome[c] = 0
  /\ \E kind \in AnswerKinds(asked[c][1]) :
       /\ outcome' = [outcome EXCEPT ![c] = kind]
       /\ granted' = granted \cup (IF IsSuccess(kind) THEN {asked[c]} ELSE {})
  /\ UNCHANGED <<asked, read>>

CarryOutAgain(c) ==
  /\ asked[c] # Nothing
  /\ outcome[c] # 0
  /\ granted' = granted \cup {asked[c]}
  /\ UNCHANGED <<asked, outcome, read>>

Read(c) ==
  /\ outcome[c] \in Kind
  /\ read' = read \cup {c}
  /\ UNCHANGED <<asked, outcome, granted>>

\* A client is killed, or all of them lose the chat server.
Lose ==
  /\ \E lost \in SUBSET (Client \ read) :
       outcome' = [c \in Client |-> IF c \in lost THEN Gone ELSE outcome[c]]
  /\ UNCHANGED <<asked, read, granted>>

Next ==
  \/ \E c \in Client : Ask(c) \/ CarryOut(c) \/ CarryOutAgain(c) \/ Read(c)
  \/ Lose

Spec == Init /\ [][Next]_vars
=============================================================================
