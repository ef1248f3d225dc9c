---------------------------- MODULE AccountStore ----------------------------
(***************************************************************************)
(* cMySQL: the calls that create an account and check a login, over the    *)
(* tables web_auth and user of the database.  A cMySQL object lives for    *)
(* one request; the tables outlive the process.                            *)
(*                                                                         *)
(* An account is made by two inserts without a transaction.  The operators *)
(* below are the pieces between which the process may die; the module that *)
(* uses them puts them in order.                                           *)
(*                                                                         *)
(* The login reads a table authserver, which nothing writes: it is taken   *)
(* for a view of web_auth.  Where there is none, each login throws, as it  *)
(* may here when "login" is in SqlFaults.                                  *)
(*                                                                         *)
(* A definition named X_Y, just before X, is X with the mistake Y, used    *)
(* nowhere.                                                                *)
(***************************************************************************)
EXTENDS AuthProtocol, Sequences

CONSTANTS
  Email, Passwd,  \* what a credential is a pair of
  SqlFaults       \* the database calls that may throw an SQLException

ASSUME StoreAssumption ==
  /\ Cred \subseteq Email \X Passwd
  /\ SqlFaults \subseteq
       {"connect", "prepare", "insert", "profile", "login", "close"}

VARIABLES
  webAuth,   \* the rows of web_auth, whose email is unique
  user,      \* the userId of each row of user, in order of insertion
  sqlStatus, \* the member status of the object in use
  uID        \* its member uID

tables == <<webAuth, user>>

storeVars == <<tables, sqlStatus, uID>>

\* The salt is drawn for the row and kept in it: two hashes with the same salt
\* are equal when the passwords are, so that the row holds the password.
Row == [email : Email, passwd : Passwd, userId : Nat]

StoreTypeOK ==
  /\ webAuth \subseteq Row
  /\ user \in Seq(Nat)
  /\ sqlStatus \in Status
  /\ uID \in Nat

StoreInit ==
  /\ webAuth = {}
  /\ user = <<>>
  /\ sqlStatus = "UNSET"
  /\ uID = 0

AccountOf(email) == {r \in webAuth : r.email = email}

-----------------------------------------------------------------------------
(* createNewAccount                                                        *)

\* The first prepareStatement throws: the one error that ends the call.
PrepareFails ==
  /\ "prepare" \in SqlFaults
  /\ sqlStatus' = "INTERNAL_SERVER_ERROR"
  /\ UNCHANGED <<tables, uID>>

\* The insert in web_auth, or an exception for any reason, which may come after
\* the row is in: the code takes each for an account that exists, and goes on.
\* The user id is the request id.
InsertWebAuth_IdBefore(q) ==
  /\ AccountOf(q.cred[1]) = {}
  /\ webAuth' = webAuth \cup {[email |-> q.cred[1], passwd |-> q.cred[2],
                              userId |-> uID]}
  /\ uID' = q.id
  /\ UNCHANGED <<user, sqlStatus>>
InsertWebAuth_NoId(q) ==
  /\ AccountOf(q.cred[1]) = {}
  /\ webAuth' = webAuth \cup {[email |-> q.cred[1], passwd |-> q.cred[2],
                              userId |-> q.id]}
  /\ UNCHANGED <<user, sqlStatus, uID>>
InsertWebAuth_Swapped(q) ==
  /\ AccountOf(q.cred[2]) = {}
  /\ webAuth' = webAuth \cup {[email |-> q.cred[2], passwd |-> q.cred[1],
                              userId |-> q.id]}
  /\ uID' = q.id
  /\ UNCHANGED <<user, sqlStatus>>
InsertWebAuth(q) ==
  LET row == [email |-> q.cred[1], passwd |-> q.cred[2], userId |-> q.id] IN
  /\ uID' = q.id
  /\ \/ /\ AccountOf(row.email) = {}
        /\ webAuth' = webAuth \cup {row}
        /\ \/ UNCHANGED sqlStatus
           \/ "insert" \in SqlFaults /\ sqlStatus' = "ACCOUNT_EXISTS"
     \/ /\ AccountOf(row.email) # {} \/ "insert" \in SqlFaults
        /\ sqlStatus' = "ACCOUNT_EXISTS"
        /\ UNCHANGED webAuth
  /\ UNCHANGED user

\* The insert in user, whose exception is only printed.  The status is a
\* success whatever happened before.
InsertUser_KeepsStatus(q) ==
  /\ user' = Append(user, q.id)
  /\ UNCHANGED <<webAuth, sqlStatus, uID>>
InsertUser(q) ==
  /\ \/ user' = Append(user, q.id)
     \/ "profile" \in SqlFaults /\ UNCHANGED user
  /\ sqlStatus' = "SUCCESS"
  /\ UNCHANGED <<webAuth, uID>>

-----------------------------------------------------------------------------
(* userAuthen and Disconnect                                               *)

\* No row, or an exception of any of the three queries, is an internal error;
\* uID may be assigned before it.  The row is read without a call of next: the
\* connector may answer that with an exception each time.
UserAuthen_KeepsId(q) ==
  /\ \E r \in AccountOf(q.cred[1]) : r.passwd = q.cred[2]
  /\ sqlStatus' = "SUCCESS"
  /\ UNCHANGED <<tables, uID>>
UserAuthen(q) ==
  /\ \/ \E r \in AccountOf(q.cred[1]) :
          IF r.passwd = q.cred[2]
            THEN sqlStatus' = "SUCCESS" /\ uID' = r.userId
            ELSE sqlStatus' = "INVALID_CREDENTIAL" /\ UNCHANGED uID
     \/ /\ AccountOf(q.cred[1]) = {} \/ "login" \in SqlFaults
        /\ sqlStatus' = "INTERNAL_SERVER_ERROR"
        /\ \/ UNCHANGED uID
           \/ \E r \in AccountOf(q.cred[1]) :
                r.passwd = q.cred[2] /\ uID' = r.userId
  /\ UNCHANGED tables

\* Disconnect: an exception of close replaces the status of the call before.
SqlDisconnect ==
  /\ \/ UNCHANGED sqlStatus
     \/ "close" \in SqlFaults /\ sqlStatus' = "INTERNAL_SERVER_ERROR"
  /\ UNCHANGED <<tables, uID>>
=============================================================================
