# A verification of the chat authentication programs

The repository holds three Windows programs that let users create an account or
log in: **ChatClient**, **ChatServer** and **AuthenServer**.  This directory
models them in TLA+, checks the models with TLC and proves part of what is
checked with TLAPS.  `PROJECT.json` maps every definition to the lines it
translates and lists the runs, the hazards and the theorems.

## 1. The system

    ChatClient --Request-->  ChatServer --Request-->  AuthenServer --SQL--> MySQL
        (one per user)  <--Response--   (port 1112)  <--Response--  (port 1150)

Paths below are relative to `src/6016_Project2_<program>/source/`.

| part | source | state it keeps | operations |
|---|---|---|---|
| wire protocol | `src/Proto/AuthProtocol.proto`, generated `AuthProtocol.pb.*` | none | two requests, four responses; `ParseFromString` on a C string |
| ChatClient | `main.cpp`, `TCP/cTCP_Client.cpp` | its socket, `status`, `mCMDHistory` | `initialize`, `SendToServer`, `ReceiveFromServer`, `CloseSocket` |
| ChatServer, client side | `main.cpp`, `TCP/cTCPServer.cpp` | `clients`, `socketsReadyForReading`, and the members `action`, `email_`, `password_` shared by all clients | `poll` = `SelectConnection` + `AcceptConnection`, `ReadFromClient`, `responseToChatClient` |
| ChatServer, authentication side | `TCP/cTCP_Client.cpp` | one socket, `status`, `createDate`, `mCMDHistory` | `initialize`, `SendToServer`, `ReceiveFromServer` |
| AuthenServer | `main.cpp`, `TCP/cTCPServer.cpp` | `clients`, `socketsReadyForReading`, and for the length of one request `reqMSG` and a `cMySQL` object | `TCP_Run` = `SelectConnection` + `AcceptConnection` + the loop over the clients |
| account store | `MySQL/cMySQL.cpp` | tables `web_auth` and `user`, `status`, `uID` | `Connect`, `createNewAccount`, `userAuthen`, `Disconnect` |
| Winsock set-up | `WinsockInit` ... `ListenConnection` of the two classes, in three copies | reference count of Winsock, address lists, sockets | `TCP_init`, `initialize`, `CloseSocket` and every error path |
| hash library | `hash-library/sha256.cpp` | `m_buffer`, `m_bufferSize`, `m_numBytes`, `m_hash` | `reset`, `add`, `getHash` |
| protobuf | `src/dev/inc/google/protobuf/` | none | what the generated code calls to write and to parse a message |
| MySQL connector | `src/dev/inc/jdbc/` | | declarations only: not modelled |

**How the parts interact.**  A client sends one request and waits.  The chat
server is one thread: it polls its sockets twice a second, accepts at most one
connection, then walks the vector of clients from its end.  For each ready
client it calls `ReadFromClient`, *ignores the result*, and relays whatever the
members `action`, `email_` and `password_` hold over its one connection to the
authentication server; it waits for the answer there before it looks at another
client, and sends the client a response of the same kind, with ids set to 0.
The authentication server has the same structure with a database behind it.

**What is hard here.**

* *Stale state*: the members survive from one client to the next, and are acted
  on after a disconnection or a failed parse too.  Responses are matched to
  requests by nothing but order.  `recv` buffers are never cleared and parsed
  as C strings.
* *Failure*: every process can die.  A connection closed in order makes `recv`
  return 0, a reset one makes it fail, and the two are treated in opposite ways:
  the first as a message, the second as "try again", for ever.  Errors are
  reported by return values that the callers drop.
* *Ordering and liveness*: `FD_SET` silently drops sockets, one accept per
  round, a blocking `recv` in the only thread.
* *Restart*: request ids start again at 1, and become user ids.

`PROJECT.json` "hazards" lists these at their lines with the properties that
would notice each going wrong.

**What makes each part correct.**  Client: reads the outcome of its own command.
Chat server: serves a client with that client's request; passes on the response
to the request it relayed last; never blocks on a quiet socket; answers
everybody; relays no more than the clients caused.  Authentication server: one
answer per request, of the right kind and id; ends or stops only for a known
cause.  Account store: a login's success means a stored account, a failed
creation stored none, unique user ids.  Set-up: every resource released once.

## 2. The modules

| module | models |
|---|---|
| `AuthProtocol` | messages; what a receiver sees of one that is cut at a zero byte or followed by stale bytes |
| `Wire` | the bytes of the messages: `SerializeToString`, and `ParseFromString` on a C string as the generated code and protobuf's parser carry it out |
| `Receiver` | one `recv` buffer over a sequence of messages; EXTENDS `Wire`, and is the evidence for `AuthProtocol` |
| `AuthService` | the contract on the connections between the two servers: what the chat server may do (`PeerStep`), and one atomic answer per request on the other side (`AuthStep`) |
| `ChatClient` | the client processes: connect, ask, read, close, be killed, be refused |
| `ChatServer` | the chat server process; EXTENDS `ChatClient` and `AuthService`, of which it uses `AuthStep` |
| `AccountStore` | `cMySQL` over the tables `web_auth` and `user`, in the pieces between which something may fail |
| `AuthServer` | the authentication server process; EXTENDS `AccountStore` and `AuthService`, of which it uses `PeerStep` |
| `ChatSystem` | all three programs and the database: `ChatServer` with an INSTANCE of `AuthServer` in the place of `AuthStep` |
| `Sockets` | Winsock start-ups, address lists and sockets of the three programs, over every failing call |
| `Sha256` | the class `SHA256`: buffering and padding |
| `RequestService` | abstract: what users are promised |
| `ChatServerRefinement` | `ChatServer` implements `RequestService` |
| `AuthServerRefinement` | `AuthServer` implements `AuthService` |
| `AuthServiceProofs` | lemmas on types that both servers' proofs use |
| `ChatServerProofs`, `ChatServerRefinementProofs` | theorems about the chat server: types and the order of responses; whose answer a client gets, and the loop over the clients; that it implements `RequestService` |
| `AuthServerProofs` | theorems about the authentication server, and that it implements `AuthService` |
| `ChatSystemProofs` | theorems about the three programs together |
| `SocketsProofs` | theorems about the resources of the three programs |
| `Sha256Proofs` | theorems about the hash, for inputs of every length |
| `ReceiverProofs` | theorems about the bytes of the messages, for every text, date, id and value |
| `MCChatServer`, `MCAuthServer`, `MCChatSystem`, `MCReceiver`, `MCSockets`, `MCSha256` | constants and symmetry for TLC; the `.cfg` files of the same name are the runs |

**How the two halves fit.**  The connection between the servers is a contract.
`ChatServer` is verified over any authentication server that takes `AuthStep`s,
and keeps to `PeerStep` (`KeepsToService`).  `AuthServer` is verified under any
peer that takes `PeerStep`s, and each of its steps is an `AuthStep` or a stutter
(`ImplementsAuthService`).  Both are model-checked, and proved for all constants.
That the two halves are those of one system is not left to this argument:
`ChatSystem` puts the real programs together, and the whole is a `Spec` of
`AuthServer` (`PeerIsChatServer`) and of `ChatServer` (`ServiceIsAuthServer`),
checked on an instance and proved for all constants.

Two things of the contract are what the other side cannot see: `granted` is a
history variable, and the request in hand of `AuthServer` counts as still under
way until it is answered (`toAuthOf`).

**What users are promised.**  In `RequestService` a client asks once, the outcome
is fixed when its command is carried out, and then read.  Three actions of it are
there because the code needs them.  `CarryOutAgain`: a client that leaves makes
the server relay the members once more, and a request of a chat server that died
may still be carried out; both repeat what somebody asked who waits for nothing
any more.  `Lose`: a process that dies leaves clients with no outcome but `Gone`.
And `ImplementsService` speaks of the steps after which no connection between the
servers was lost (`AuthKept`): after that the buffer of `ReceiveFromServer` is
parsed again without having been written.

### State and code

* `chat[c]` is the place of a client process in its `main`; `outbox`, `inbox`
  are the two directions of its TCP connection, `backlog` the accept queue.
* `pc` is the place of the chat server's thread: `poll` before `select`,
  `accept` between `select` and `accept`, `scan` at the head of the `for` loop,
  `read` before `ReadFromClient`, `relay` before the two `if`s, `await` in
  `ReceiveFromServer`, `reply` before `responseToChatClient`.  Steps between
  two places touch nothing another process can see, so each is one action.
* `i` counts from 1 where the code counts from 0; `i = 0` ends the loop.
* `credential` stands for the pair `email_`, `password_`; `NoCred` for two empty
  strings, which is what they hold before any request was read.  `action` is
  never initialised: `InitialAction` gives what it may hold.
* In `AuthServer`, `pc` has the places of `TCP_Run`: `poll`, `accept`, `scan` as
  above, `recv` before `recv`, then, with a request in hand, `connect` before
  `sql.Connect`, `create` and `profile` before the two inserts, `login` before
  the queries of `userAuthen`, `disconnect`, and `send` before the two switches,
  `SerializeToString` and `send`.  A process may die at each.  `status` and `uID`
  of the `cMySQL` object are `sqlStatus` and `uID`.
* A row of `web_auth` holds the password: a salt is stored with its hash, and
  two hashes over one salt are equal when the passwords are.  `user` is the
  sequence of the `userId`s inserted in that table.
* `sock[k]`, `toAuth[k]`, `fromAuth[k]`: the connection made by the k-th start
  of the chat server.  The server connects once per start and never again.
* `result = 0` stands for every value of `resultFromAuthServer` outside 1..4,
  which `responseToChatClient` maps to an empty message.
* `granted` is a history variable, read by properties only.
* In `Sockets` an address list is `wild` in a `cTCPServer` that was never set up,
  whose constructor assigns nothing, and `freed` twice is what `undefined` notes.
  `cmd` is what the user of a client chose at the menu, which comes after the
  set-up whether that succeeded or not: one of the two commands, which end in
  `ReceiveFromServer`, or anything else, after which `main` goes straight to
  `CloseSocket`.
* In `Wire` a text is a string of any bytes but zero that is not empty; numbers
  are ints, of five digits to the base 128, and lose the bits beyond (nobody
  sends such a number: it would be read from stale bytes, as one the program
  ignores or a size that does not fit).  The parser's loop over fields is a
  recursive function of the position (`FieldsFrom`), groups included, which only
  stale bytes can make; that the library gives up on messages nested deeper than
  100 is left out.
* In `Sha256` a byte of the input is its position, and `m_hash` the sequence of the
  blocks compressed into it.

### What is a choice of the environment

* The bytes after a message (`Residue`): `recv` fills the front of a stack
  array.  What follows may be a zero (`clean`), something that does not parse
  (`garbage`) or, behind a response, bytes that begin with `1A`, the tag of a
  `createDetail` (`detail`).  The creation date of an earlier `authSuccess` leaves
  such bytes; and so does the password of a request, where the compiler gives the
  buffers of `ReadFromClient` and `ReceiveFromServer`, two functions `main` calls in
  turn, the same memory.  A `detail` may therefore follow any response, the first
  one too.  The tags of the other elements are left out: in stale bytes they are
  control characters that somebody typed, or the length of an email or a password
  of 10, 18 or 34 bytes, at the place where a field would begin.
* When `recv` returns 0 in `ReceiveFromServer`, the buffer may still hold the
  previous response, or nothing of use: then the function ends without `return`
  and its value is indeterminate (`ReceiveEnd`).
* The same call of a client, which reads one response in its life, meets no
  `recv` that returns 0: the chat server closes no socket of its own will, and the
  end of its process resets its clients.  A chat server whose end a client saw as
  an orderly close would leave that client with a stale parse or no return value.
* Death of a process resets its connections (`rst`, `lost`, `reset`), except
  that the authentication server, when it ends because of a request, calls
  `CloseSocket`, which closes the connection accepted last in order (`fin`).  A
  chat server's end may be seen as an orderly close or as a reset by the
  authentication server.
* The database: `SqlFaults` names the calls that may throw.  An insert may throw
  after it was done.  `email` is taken to be unique in `web_auth`: the code
  relies on the insert failing to notice a duplicate.  A null `pConnection` after
  a failed `connect` ends the process (`SqlConnectFails`), as `Kill` does, which
  also stands for the exceptions of `setString` outside any `try`.
* The login of the source depends on more than the source says: it reads a table
  `authserver`, which nothing here writes, puts the email unquoted in the query,
  reads the row without calling `next`, and adds `uID` to a string literal's
  address.  `UserAuthen` therefore has both outcomes for an account that exists,
  success (the database has a view of that name, the connector has a current
  row) and, with `"login"` in `SqlFaults`, an exception.
* In the authentication server a failed `accept` calls `WSACleanup` once for the
  whole process: every socket fails from there on, `select` frees `info` again
  and again, and the model takes the process for dead (`AcceptError`).
* After `accept` failed in the chat server, the second `freeaddrinfo(info)` is undefined
  behaviour; the model takes the outcome where the process ends.

### Mistakes

A definition named `X_Y` just before `X` is `X` with a plausible mistake, for
instance `ReadEnd_KeepsConnected` or `ReceiveEnd_GivesUp`.  Nothing uses it; put
in the place of `X`, it makes the property `PROJECT.json` names with it fail,
which shows that the property depends on the code being as it is.

## 3. The runs

A client sends one request in its life, so the runs of the chat server end with
every client done, and `history` is bounded by itself.  Two clients: the hazards
need one whose request or departure leaves something behind and one that meets
it.  `FdSetSize = 3` is the size at which two clients and the listening socket
just fit; the times are those of a small machine with two workers.

| run | bounds | properties |
|---|---|---|
| `faults` | one credential, clients and both servers killed anywhere, both started again (`Restarts = 1`), `action` first `LOGIN`, clean buffers; 2 M states, 2.5 min | `TypeOK`, `LockStep`, `AnswerIsCurrent`, `RelayOwn`, `NoFalseSuccess`, `AnswerFitsCommand`, `RecvNeverBlocks`, `RelaysBounded`, `BareRequestIsFirst`, `KeepsToService`, `ImplementsService` |
| `live` | clients killed, stale tags behind responses, weak fairness; 0.2 M states | `Answered`, `EndNoticed` |
| `auth` | two accounts, two chat servers in turn with two requests each, both servers killed, `connect`, `prepareStatement`, the first insert and the login may throw, an `fd_set` with room for one connection, weak fairness; 0.9 M states, 3 min | `TypeOK`, `LoginIsAccount`, `UserIdsDistinct`, `FailureIsClean`, `RecvNeverBlocks`, `ImplementsAuthService`, `Served` |
| `system` | all programs: one account with a right and a wrong password, both servers killed and started again; 0.9 M states, 3 min | `LoginMeansAccount`, `CreatedMeansAccount`, `AccountsWereAskedFor`, `PeerIsChatServer`, `ServiceIsAuthServer` |
| `sockets` | five handles, three failing calls, the three programs, every choice at the client's menu | `TypeOK`, `Balanced`, `AuthConnectionKept`, `FaultNeedsCause`, `ClientEndsClean` |
| `wire_whole` | requests and responses in one buffer of 32 bytes, first 0 or 204; three texts and a date with bytes that start, end or close a protobuf group, and one that is not ASCII; the password and the email of one text lie where messages with the others end; ids 0, 1 and 130 (two bytes on the wire), values 0 and 1; 0.2 M states | `RequestsAreRead`, `ResponsesAreRead` |
| `sha256` | up to 128 bytes in pieces of 8, 55 and 64 | `TypeOK`, `HashIsOfWhole`, `NothingLost` |

Why these are enough.  `Restarts = 1` gives two connections, one of them dead,
which is what the scan, the `fd_set` and the numbering of requests have to cope
with.  An account is made, then met again by a login or a second creation, and
the ids of a second chat server clash with those of the first at its first
request.  `auth` leaves out the exceptions of the second insert and of `close`,
and `system` those of the database, to stay within minutes: `SqlFaults` is
arbitrary in the proofs.  The padding of a block of 55 bytes just fits, that of
63 = 55 + 8 does not, and 64 is a full block; three chunks also meet in one
buffer.  130 is the smallest kind of id that takes two bytes.  Deadlock is not
checked where the code really stops: it spins in `recv` after a reset, or ends.

What they show:

* `LockStep`: requests and responses are matched by order alone, and the order
  holds: at any time one request at most is under way on a connection that
  holds, and only while the server waits.  `AnswerIsCurrent`: so the response
  passed on is the response to the request relayed last, of a kind that answers
  it.  Both survive the failures of the model, the relays of stale requests and
  a restart, whose new process numbers its requests from 1 again.
* `RelayOwn`: where no garbage follows a request, the shared members are the own
  ones of each connected client that is served, unless its request was empty.
  `NoFalseSuccess` and `AnswerFitsCommand` follow an answer from the
  authentication server to the user across all processes, with clean buffers: a
  `detail` behind a failed creation reads as a success, which is why `NoFalseSuccess`
  is not checked with one.
* `ImplementsService`: see "What users are promised".
* `RelaysBounded`: two relays per client at most, one for its request and one
  for its departure, however the failures fall.
* `BareRequestIsFirst`: an unreadable request ends the authentication server.
  There is one such request only, the first relay of a chat server, caused by a
  client that leaves before anyone asked while `action` happens to hold a
  command.
* `RecvNeverBlocks`, `Answered`, `EndNoticed`: the blocking `recv` is safe, and
  nobody is starved as long as the sockets fit in one `fd_set`.  The last two
  except a thread that met a reset connection (`Stopped`), and so do not see the
  hazard of a client that is killed: there the code spins
  in `recv` for ever, or ends after a failed `accept`.
* `ImplementsAuthService`: whatever the database does, each request gets one
  answer of its kind with its id, on its connection, and the process ends or
  stops only for the causes `AuthService` names.
* `UserIdsDistinct`: user ids are request ids.  That two accounts made through
  one chat server differ rests on one request being under way at a time.
  `UserIdsUnique` is the same without that condition, and fails.
* `FailureIsClean`, `LoginIsAccount`: a failure reported by `createNewAccount`
  itself has put no row in `web_auth`, and a login's success is never a leftover
  of a member.  Two inserts without a transaction can leave half an account, a
  row in `web_auth` and none in `user`: no property excludes it, as nothing in the
  repository says that it should not happen.
* `Served`: a dead connection keeps its place in the `fd_set` only until its end
  is read, so that the next one is served, unless it was reset.
* `LoginMeansAccount`, `CreatedMeansAccount`, `AccountsWereAskedFor`: from the
  screen of a user to the row of the table and back, through all three programs.
  A user who is told "account created" has the account, or lost it to another
  user who asked for the same email: `duplicate_account` shows that no more can
  be said.
* `RequestsAreRead`, `ResponsesAreRead`: what `AuthProtocol` says of a message in
  a buffer is what the parser does with its bytes, when messages arrive whole.
  For the texts of the instance it says enough of stale bytes as well: behind a
  request they make it unreadable or do nothing, behind a response they are those
  of a `clean` or a `detail` tail.  That is a fact of these texts: an email with a
  control character at the right place could be taken for a command.
* `Balanced`, `AuthConnectionKept`, `FaultNeedsCause`, `ClientEndsClean`: each of
  the many error paths gives back what its object took and no more, so that the
  chat server's two objects do not end each other's Winsock, until an address
  list is freed a second time.  In a server that needs a failing call or the last
  handle.  In a client it happens in one way: its set-up failed, which `main` does
  not notice, and its user then chose neither of the two commands, so that
  `CloseConnection` finds no socket and frees `info` again.  A user who asks waits
  for ever in `ReceiveFromServer` instead; that it never gives up is what keeps
  such a client from the second free.
* `HashIsOfWhole`, `NothingLost`: the stored hash depends on salt and password
  only, not on how they were added, at the sizes where padding is delicate.

**Fairness** (`FairSpec`): weak fairness of the server's thread, of the
authentication server's handling of a request, and of a client that has a
response to read.  Each is one thread that runs whenever its call can return.
`FairSpec` of `AuthServer` is the same for its only thread, `TCP_Run`; the peer,
failures and starts are not fair.  Nothing is assumed of users, who may stay at
the menu for ever, nor of failures.

**Runs that fail, as the code does** (seconds each):

* `status_lost`: the chat server writes `requestid` 0, whose zero byte cuts the
  response: a server error reads as a wrong password or an existing account.
* `false_success`: with stale bytes that do not parse, the client gets the
  answer to somebody else's command and may print "account created".
* `duplicate_account`: `createNewAccount` ends with `status = SUCCESS`, so that a
  taken email is answered with a `createDetail` (`cMySQL.cpp:148`).
* `same_user_id`: a restarted chat server numbers its requests from 1, and the
  accounts it makes get the user ids of the first ones.
* `wire_cut`: one `recv` is taken for one message; a request of which a part
  arrived is completed with the bytes of the request before, and parses.

## 4. The proofs

All theorems hold for any number of clients, starts and requests, any
`FdSetSize`, any stale bytes and any failure of the models, except where one says
more.  The assumptions are the named ASSUMEs of the modules, which say what the
constants are; TLC evaluates them in every run.  `SystemAssumption` has one that
is about a bound: `MaxRequests`, which `AuthServer` needs for its peer, is twice
the number of clients at least.  By `RelaysBounded` no process of the chat server
asks more often, so that it excludes nothing.

**Chat server.**  Each invariant is stated with what makes it inductive.

* `TypeCorrect` (`ChatServerProofs`).  `TypeOK` is inductive by itself: it also
  says that the scan index is inside the vector, that a connection which select
  reported is still in the backlog when `accept` is called, and that a
  connection not made yet carries nothing.
* `LockStepHolds`, `AnswerIsCurrentHolds`.  `Inv == TypeOK /\ LockStep /\
  AnswerIsCurrent`.  `AnswerIsCurrent` needs `LockStep` at the moment the
  response is read; `LockStep` needs the types to know that a new connection
  starts empty.  `KindSurvives` says what stale bytes cannot change.
* `KeepsToServiceHolds`.  A relay is a `PeerSend` only when nothing is under way,
  which is `LockStep`; and while the process runs its end of the connection is
  not closed (`Attached`), so that only its death is a `PeerEnd`.
* `RelayOwnHolds`.  `OneRequest`: a client's request is
  in its outbox, or was read, and never changes.  `ServesConnected`: whom main
  serves is connected, or its end was just read.
* `NoFalseSuccessHolds`, `AnswerFitsCommandHolds`.  An answer is followed along
  its way: what is granted when the authentication server sends it
  (`GrantedAtAuth`), in main (`FitsInMain`), at the client (`FitsAtClient`), under
  `NothingStale`, no stale bytes behind requests or responses and no empty request,
  and as long as no connection was lost.  Both halves are needed: garbage behind a
  request leaves the members as they were, and a `detail` behind a response turns a
  failed creation into a success although every request parses.  The induction
  works because a lost connection stays lost (`AuthKeptBefore`), so the condition
  held at every earlier state.
* `RecvNeverBlocksHolds`.  What select reported stays
  pending until the scan reads it (`StillThere`), because no connection is twice
  in the vector (`Distinct`).
* `BareRequestIsFirstHolds`.  While main holds no credentials, no request was
  read, so no client was answered and nothing was relayed but, once, the request
  of one that left (`NoneRead`).
* `RelaysBoundedHolds`.  What main is about to relay is already paid for by a
  request it read or an end it noticed (`Owed`); the count is over finite sets of
  accepted clients (`Accepted`), by the library's facts on cardinality.
* `ImplementsServiceHolds` (`ChatServerRefinementProofs`).  Each step maps to a
  step of `RequestService` or to a stutter: sending to `Ask`, the answer of the
  authentication server to `CarryOut`, if the client still waits, reading to
  `Read`, deaths to `Lose`, and everything main does in between to nothing,
  because it passes the outcome on unchanged.  What else is carried out must
  have been asked: `MembersAsked` says whose request the members hold, and
  `LeftAsked` that what a dead chat server left under way was asked by a client
  whose outcome is fixed.

**Authentication server.**

* `TypeCorrect`, inductive by itself.
* `LoginIsAccountHolds`: `LoginDone` says, from `userAuthen` on, that a status of
  success goes with a row of the tables and its id; the calls follow the command
  of the request, so that no creation can leave its status to a login.
* `UserIdsDistinctHolds`: `IdsFresh` adds to the property that the ids of all
  accounts are at most `history`, that one request at most is under way or in
  hand, and that until it is inserted its id is larger than all of them.  It is
  stated while there is one connection: the step that makes a second ends it.
* `FailureIsCleanHolds`, from `IdsFresh` and the status each call leaves.
* `RecvNeverBlocksHolds`, as for the chat server.
* `ImplementsAuthServiceHolds`: each step maps to a
  step of `AuthService` or to a stutter; the answer is sent in one step, `Send`,
  whose response is one of `Answers` because status and id in hand are those of
  its request.

* `GrantedIsAccountHolds` and `GrantedIsStoredHolds`, lemmas for the next part:
  what was granted to a login is an account for good, as no row is deleted; and
  what was granted to a creation has a row with its email, whoever made it, if
  the first insert does not throw (`CreateDone` says so of the request in hand).

**The three programs** (`ChatSystemProofs`).  Either server was proved correct
over what `AuthService` says of the other, so each proof is a premise of the
other.  The circle is broken by induction over steps: `SystemInv` is the
conjunction of the inductive invariants of both, and in a state where it holds
each step of the system is a step of `ChatServer` and one of `AuthServer`, each
of which keeps its half.  The proof modules of both servers are instantiated, so
that their lemmas are cited and not proved again.

* `PeerIsChatServerHolds`.  What the chat server does is a step of `Peer`:
  when it asks, nothing is under way, unread or in hand (`NothingUnderWay`, from
  `LockStep`), and it is within the bound (`WithinBound`, from `Owed`).
* `ServiceIsAuthServerHolds`.  What the authentication server does is an `AuthStep`
  or leaves the connections alone (`ServiceAuthStep`), with the request in hand
  in front of `toAuthOf`; a relay appends to both alike (`RelayIsRelay`).
* `LoginMeansAccountHolds` joins `OnItsWay` of the one (what a client reads was
  granted to its command) and `GrantedIsAccount` of the other.  It has the
  condition of `NoFalseSuccessHolds`, `NothingStale`, whose half about requests the
  run `false_success` shows to be needed.
* `CreatedMeansAccountHolds` has the same condition.  That the email has a row
  comes from `GrantedIsStored`, and who asked for that row from
  `AccountsWereAskedFor`: no more is known of its password.
* `AccountsWereAskedForHolds` has no condition.  `AllAsked`, proved of the chat
  server, says that the members and each request under way are those of one
  client; the request in hand is the first of `toAuthOf`, so that the row made
  of it was asked for (`RowsAsked`).
* `ChatServerHolds`, `AuthServerHolds`: the invariants proved of each server alone,
  of the three programs.  The system is a `Spec` of either (the first two theorems),
  so its theorems apply; what remains is that the two read the same variables.
* `SystemImplementsService`: the three programs implement `RequestService`, by
  `ImplementsServiceHolds`, whose refinement mapping does not depend on `toAuth`.

**Set-up and tear-down** (`SocketsProofs`), for any number of handles and of
failing calls.  `Inv` says for each place of the programs what was taken on the
way there.

* `TypeCorrect` and `BalancedHolds`.  `Accounts` is the count behind `Balanced` at
  every place: one start-up for each object that is set up, and one more while the
  program is at `getaddrinfo`.  A sum of two terms is related to the cardinality of
  the set by `HeldObjects`.
* `AuthConnectionKeptHolds`.  A handle that was closed may be given out again, so
  the invariant has to say of each open handle what it stands for (`Fresh`,
  `Listening`, `Connection`).
* `FaultNeedsCauseHolds`.  Where no call failed and the clients are few, a server
  has all that it took and its clients are open (`NoFault`); that there is a handle
  for each is an argument on cardinalities.
* `ClientEndsCleanHolds`.  What the client holds at each place (`ClientHolds`),
  after a set-up that succeeded and after one that failed, whatever its user
  chose; and that Winsock is started up wherever a socket may be made or used
  (`Started`).

**Hash** (`Sha256Proofs`), for every set of sizes and every length.

* `TypeCorrect` and `NothingLostHolds`.  `Buffered` adds to `NothingLost` that
  `m_numBytes` counts the blocks.  In `add`, bytes are left over only behind a
  buffer that was empty or just filled (`LeftIs`), so that what follows starts a
  block; where each byte ends up is then `DataIs`, `FilledIs`, `LeftBytes` and
  `HashGrows`.
* `HashIsOfWholeHolds`.  The buffer is padded to 56 or to 120 bytes
  (`PaddedLengthIs`), and the zeros that takes are the one number with which the
  padded message is a whole number of blocks (`ZerosAre`); block by block and byte
  by byte the hash is then that of the message padded as a whole
  (`LastBlocksAre`).

**Messages** (`ReceiverProofs`), for all emails, passwords and dates of any bytes
but zero that are not empty (`TextAssumption`: they are C strings), all ids and
values, any length of the buffer and anything it held.  From the inside out:

* A number is read as it was written (`VarintAtWritten`), and so is a field, whole
  (`VarintFieldAt`, `WholeFieldAt`) or with less or more behind its length
  (`BytesFieldAt`).
* `FieldsFromIs`: the recursive function `FieldsFrom` is the one its definition
  says.  The provers do not have the library's recursion theorem, so that there is
  such a function is shown here, by induction on the position, from the end of the
  message to its start (`LeastOf`).  After that a message is read field by field
  (`AtField`, `AtBad`, `AtEnd`), whole (`WholeMessage`) or cut (`CutMessage`).
* A message in a buffer is, as a C string, itself if a zero byte follows, or what
  comes before its own first zero byte (`Left`, `BufferIs`): an id or a value of 0,
  or an empty text.  `RequestLeft` and `ResponseLeft` say what the parser makes of
  either.
* `RequestsAreReadHolds`, `ResponsesAreReadHolds`.  The invariant is `Arrival`: a
  message that comes whole is under way, or lies at the start of the buffer with
  the byte `tail` behind it.

Both theorems are about a message that is followed by a zero byte or holds one of
its own.  With a stale byte other than zero behind it, what is read depends on the
bytes that happen to be there: the half of the two properties about that case does
not hold for all texts, and is a fact about an instance, which `wire_whole` checks.

**Only model-checked**: the half of `RequestsAreRead` and `ResponsesAreRead` just
named; and `Answered`, `EndNoticed` and `Served`, liveness under fairness, which
is out of the prover's reach.

## 5. What is not modelled

* Most of the repository by lines: the vendored protobuf library with its tests
  and compiler, of which the programs call the few functions that `Wire` models;
  CRC32, Keccak, MD5, SHA1 and SHA3 of the hash library, which nothing calls; the
  MySQL connector's headers, which declare a DLL.  The code of the three programs
  is some two thousand lines, all of which belong to a component above.
* The compression of a block of SHA256: a pure function of the block and the
  hash before it.
* What MySQL and its connector do, beyond the choices named in section 2: that
  the login's query fails on the schema the code writes is not a property of
  this code alone.
* More than one piece of a message in the composed models: they carry whole
  messages, and `wire_cut` shows what a cut does.
* Liveness of the three programs together: `live` and `Served` show each half;
  the composition with fairness is too large for one run.
* Formatting, console output, the creation date as a text.
* `Chat`, `JoinRoom` and the like are declared in `cTCP_Client.h` and never
  defined.
