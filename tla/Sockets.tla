------------------------------ MODULE Sockets ------------------------------
(***************************************************************************)
(* What the three programs take from Winsock and give back: start-ups,     *)
(* address lists and sockets, over every failure of a call.                *)
(*                                                                         *)
(* Both classes, cTCPServer and cTCP_Client, set themselves up in five     *)
(* calls.  A call that fails gives back what its object took before, and   *)
(* returns 1, which no main looks at: the program goes on with an object   *)
(* that is not set up.  The constructor of cTCPServer assigns nothing, so  *)
(* ListenSocket may hold the number of any socket, and a number that was   *)
(* closed is given out again.                                              *)
(*                                                                         *)
(* A definition named X_Y, just before X, is X with the mistake Y, used    *)
(* nowhere: see README.md.                                                 *)
(***************************************************************************)
EXTENDS Integers, FiniteSets

CONSTANTS
  Handle,      \* the sockets the operating system can give a process
  NoHandle,    \* INVALID_SOCKET, and whatever is the number of no socket
  MaxFailures  \* bound: the calls that fail of themselves

\* Enough for the program's own sockets.
ASSUME HandleAssumption ==
  /\ NoHandle \notin Handle
  /\ IsFiniteSet(Handle)
  /\ Cardinality(Handle) >= 2

ASSUME FailuresAssumption == MaxFailures \in Nat

Program == {"ChatServer", "AuthenServer", "ChatClient"}

VARIABLES
  program,
  at,          \* the object whose function runs, and the call it is at
  startups,    \* calls of WSAStartup without their WSACleanup
  socket,      \* what each handle stands for
  info,        \* the member info of each object
  handle,      \* the members ListenSocket and ConnectSocket
  acceptReady, \* FD_ISSET(ListenSocket, &socketsReadyForReading)
  clients,     \* sockets in the vector of clients
  connected,   \* those whose connected flag is set
  accepted,    \* the member ClientSocket
  cmd,         \* what the user of a ChatClient chose: "none" before the menu
  undefined    \* an address list was freed that was not allocated, or freed twice

\* History variables, for the properties only.
VARIABLES
  failures,    \* the calls that failed of themselves
  ready        \* the objects whose set-up succeeded

resources == <<startups, socket, info, handle, undefined>>

loopVars == <<acceptReady, clients, connected, accepted>>

mainVars == <<loopVars, cmd>>

vars == <<program, at, resources, mainVars, failures, ready>>

Object == {"server", "client"}

Call == {"WSAStartup", "getaddrinfo", "socket", "bind", "listen", "connect",
         "ioctlsocket", "select", "accept", "scan", "menu", "recv", "shutdown",
         "CloseSocket", "ShutdownWinsock", "stuck", "end"}

TypeOK ==
  /\ program \in Program
  /\ at \in Object \X Call
  /\ startups \in 0..2
  /\ socket \in [Handle -> {"closed", "new", "listening", "stream"}]
  /\ startups = 0 => \A h \in Handle : socket[h] = "closed"
  /\ info \in [Object -> {"wild", "null", "held", "freed"}]
  /\ info["client"] # "wild"
  /\ handle \in [Object -> Handle \cup {NoHandle}]
  /\ acceptReady \in BOOLEAN
  /\ clients \in SUBSET Handle
  /\ connected \in SUBSET clients
  /\ accepted \in Handle \cup {NoHandle}
  /\ cmd \in {"none", "ask", "other"}
  /\ undefined \in BOOLEAN
  /\ failures \in 0..MaxFailures
  /\ ready \in SUBSET Object

Init ==
  /\ program \in Program
  /\ at = <<IF program = "ChatClient" THEN "client" ELSE "server", "WSAStartup">>
  /\ startups = 0
  /\ socket = [h \in Handle |-> "closed"]
  /\ info = [o \in Object |-> IF o = "server" THEN "wild" ELSE "null"]
  /\ handle \in [Object -> Handle \cup {NoHandle}]
  /\ handle["client"] = NoHandle
  /\ acceptReady = FALSE
  /\ clients = {}
  /\ connected = {}
  /\ accepted = NoHandle
  /\ cmd = "none"
  /\ undefined = FALSE
  /\ failures = 0
  /\ ready = {}

-----------------------------------------------------------------------------
(* Giving back.                                                            *)

Open == {h \in Handle : socket[h] # "closed"}

\* freeaddrinfo, which accepts a null pointer.
FreeAddrInfo(o) ==
  /\ undefined' = (undefined \/ info[o] \in {"wild", "freed"})
  /\ info' = [info EXCEPT ![o] = IF @ = "null" THEN "null" ELSE "freed"]

\* closesocket of the handles in H, then WSACleanup, which fails when nothing
\* is started up, and closes all when it is the last.
CloseAndCleanup_LastOpen(H) ==
  /\ startups' = IF startups = 0 THEN 0 ELSE startups - 1
  /\ socket' = [h \in Handle |-> IF h \in H THEN "closed" ELSE socket[h]]
CloseAndCleanup(H) ==
  /\ startups' = IF startups = 0 THEN 0 ELSE startups - 1
  /\ socket' = [h \in Handle |->
                  IF startups <= 1 \/ h \in H THEN "closed" ELSE socket[h]]

\* The error path of a call on the object's socket.
GiveBack_NoCleanup(o) ==
  /\ FreeAddrInfo(o)
  /\ socket' = [h \in Handle |-> IF h = handle[o] THEN "closed" ELSE socket[h]]
  /\ UNCHANGED startups
GiveBack_Twice(o) ==
  /\ FreeAddrInfo(o)
  /\ startups' = IF startups > 1 THEN startups - 2 ELSE 0
  /\ socket' = [h \in Handle |->
                  IF startups <= 2 \/ h = handle[o] THEN "closed" ELSE socket[h]]
GiveBack(o) == FreeAddrInfo(o) /\ CloseAndCleanup({handle[o]})

\* A call fails of itself.
Fails == failures < MaxFailures /\ failures' = failures + 1

-----------------------------------------------------------------------------
(* TCP_init and initialize.                                                *)

\* Where main goes when a set-up is over, whatever it returned.
AfterSetUp(o) ==
  CASE program = "ChatClient" -> <<"client", "menu">>
    [] program = "ChatServer" /\ o = "server" -> <<"client", "WSAStartup">>
    [] OTHER -> <<"server", "select">>

Succeeds(o, next) ==
  /\ at' = <<o, next>>
  /\ UNCHANGED <<failures, ready>>

SetUpFails(o) ==
  /\ Fails
  /\ at' = AfterSetUp(o)
  /\ UNCHANGED ready

WSAStartup(o) ==
  /\ at = <<o, "WSAStartup">>
  /\ \/ Succeeds(o, "getaddrinfo") /\ startups' = startups + 1
     \/ SetUpFails(o) /\ UNCHANGED startups
  /\ UNCHANGED <<socket, info, handle, undefined>>

\* hints of a cTCPServer is never cleared, which alone may make it fail.  When
\* it fails it may clear info.
GetAddrInfo(o) ==
  /\ at = <<o, "getaddrinfo">>
  /\ \/ /\ Succeeds(o, "socket")
        /\ info' = [info EXCEPT ![o] = "held"]
        /\ UNCHANGED <<startups, socket>>
     \/ /\ SetUpFails(o)
        /\ info' \in {info, [info EXCEPT ![o] = "null"]}
        /\ CloseAndCleanup({})
  /\ UNCHANGED <<handle, undefined>>

SocketCreate(o) ==
  /\ at = <<o, "socket">>
  /\ \/ /\ Succeeds(o, IF o = "server" THEN "bind" ELSE "connect")
        /\ \E h \in Handle \ Open :
             /\ socket' = [socket EXCEPT ![h] = "new"]
             /\ handle' = [handle EXCEPT ![o] = h]
        /\ UNCHANGED <<startups, info, undefined>>
     \/ /\ SetUpFails(o)
        /\ handle' = [handle EXCEPT ![o] = NoHandle]
        /\ FreeAddrInfo(o)
        /\ CloseAndCleanup({})

\* A call on the object's socket, which turns it into what, and is followed by
\* the call next or is the last.
SocketCall(o, call, what, next) ==
  /\ at = <<o, call>>
  /\ \/ /\ socket' = [socket EXCEPT ![handle[o]] = what]
        /\ at' = IF next = "done" THEN AfterSetUp(o) ELSE <<o, next>>
        /\ ready' = IF next = "done" THEN ready \cup {o} ELSE ready
        /\ UNCHANGED <<startups, info, undefined, failures>>
     \/ SetUpFails(o) /\ GiveBack(o)
  /\ UNCHANGED handle

BindSocket == SocketCall("server", "bind", "new", "listen")
ListenConnection == SocketCall("server", "listen", "listening", "done")
MakeConnect == SocketCall("client", "connect", "stream", "ioctlsocket")
IOCntrolSocket == SocketCall("client", "ioctlsocket", "stream", "done")

SetUp ==
  /\ \/ \E o \in Object : WSAStartup(o) \/ GetAddrInfo(o) \/ SocketCreate(o)
     \/ BindSocket
     \/ ListenConnection
     \/ MakeConnect
     \/ IOCntrolSocket
  /\ UNCHANGED <<program, mainVars>>

-----------------------------------------------------------------------------
(* The loop of a server.                                                   *)

\* select fails on a socket that is not open.  The caller does not look at the
\* result, but at a set that a select that failed need not have written.
SelectConnection ==
  /\ at = <<"server", "select">>
  /\ \/ /\ connected \cup {handle["server"]} \subseteq Open
        /\ UNCHANGED <<resources, failures>>
     \/ /\ IF connected \cup {handle["server"]} \subseteq Open THEN Fails
           ELSE UNCHANGED failures
        /\ GiveBack("server")
        /\ UNCHANGED handle
  /\ acceptReady' \in BOOLEAN
  /\ at' = <<"server", "accept">>
  /\ UNCHANGED <<program, clients, connected, accepted, cmd, ready>>

\* accept needs a listening socket and a free handle.
CanAccept ==
  /\ handle["server"] \in Open
  /\ socket[handle["server"]] = "listening"
  /\ Open # Handle

AcceptConnection ==
  /\ at = <<"server", "accept">>
  /\ acceptReady
  /\ \/ /\ CanAccept
        /\ \E h \in Handle \ Open :
             /\ socket' = [socket EXCEPT ![h] = "stream"]
             /\ clients' = clients \cup {h}
             /\ connected' = connected \cup {h}
             /\ accepted' = h
        /\ UNCHANGED <<startups, info, undefined, failures>>
     \/ /\ IF CanAccept THEN Fails ELSE UNCHANGED failures
        /\ GiveBack("server")
        /\ accepted' = NoHandle
        /\ UNCHANGED <<clients, connected>>
  /\ at' = <<"server", "scan">>
  /\ UNCHANGED <<program, handle, acceptReady, cmd, ready>>

\* Nobody to accept.
NothingToAccept ==
  /\ at = <<"server", "accept">>
  /\ ~acceptReady
  /\ at' = <<"server", "scan">>
  /\ UNCHANGED <<program, resources, mainVars, failures, ready>>

\* The scan: some clients left, and their sockets are not closed.
Scan_KeepsFlag ==
  /\ at = <<"server", "scan">>
  /\ \E left \in SUBSET connected :
       socket' = [h \in Handle |-> IF h \in left THEN "closed" ELSE socket[h]]
  /\ at' = <<"server", "select">>
  /\ UNCHANGED <<program, startups, info, handle, undefined, mainVars, failures, ready>>
Scan ==
  /\ at = <<"server", "scan">>
  /\ connected' \in SUBSET connected
  /\ at' = <<"server", "select">>
  /\ UNCHANGED <<program, resources, acceptReady, clients, accepted, cmd, failures, ready>>

\* A recv that fails is repeated for ever: on a client that was reset, or for
\* the relay on a connection that is not there.
ScanStuck ==
  /\ at = <<"server", "scan">>
  /\ connected # {}
  /\ \/ Fails
     \/ /\ program = "ChatServer"
        /\ handle["client"] \notin Open
        /\ UNCHANGED failures
  /\ at' = <<"server", "stuck">>
  /\ UNCHANGED <<program, resources, mainVars, ready>>

\* A request that does not parse ends the TCP_Run of AuthenServer; then comes
\* CloseSocket, and the end.
RunEnds ==
  /\ program = "AuthenServer"
  /\ at = <<"server", "scan">>
  /\ connected # {}
  /\ at' = <<"server", "CloseSocket">>
  /\ UNCHANGED <<program, resources, mainVars, failures, ready>>

CloseSocket ==
  /\ at = <<"server", "CloseSocket">>
  /\ FreeAddrInfo("server")
  /\ CloseAndCleanup({handle["server"], accepted})
  /\ at' = <<"server", "end">>
  /\ UNCHANGED <<program, handle, mainVars, failures, ready>>

-----------------------------------------------------------------------------
(* ChatClient after its set-up, whether that succeeded or not.             *)

\* The user chooses: to create an account or to log in, which end in
\* ReceiveFromServer, or anything else.  On what is no number stoi throws, which
\* nobody catches.
Menu ==
  /\ at = <<"client", "menu">>
  /\ \/ cmd' = "ask" /\ at' = <<"client", "recv">>
     \/ cmd' = "other" /\ at' = <<"client", "shutdown">>
     \/ UNCHANGED cmd /\ at' = <<"client", "end">>
  /\ UNCHANGED <<program, resources, loopVars, failures, ready>>

\* A recv that fails is repeated for ever: this is what keeps a client that is
\* not set up and asks from its CloseSocket.
ReceiveFromServer_GivesUp ==
  /\ at = <<"client", "recv">>
  /\ at' = <<"client", "shutdown">>
  /\ UNCHANGED <<program, resources, mainVars, failures, ready>>
ReceiveFromServer ==
  /\ at = <<"client", "recv">>
  /\ IF handle["client"] \in Open
       THEN \/ at' = <<"client", "shutdown">> /\ UNCHANGED failures
            \/ at' = <<"client", "stuck">> /\ Fails
       ELSE at' = <<"client", "stuck">> /\ UNCHANGED failures
  /\ UNCHANGED <<program, resources, mainVars, ready>>

\* shutdown fails on a socket that is not there, and its error path gives back
\* what the set-up, having failed, gave back before.
CloseConnection ==
  /\ at = <<"client", "shutdown">>
  /\ \/ handle["client"] \in Open /\ UNCHANGED <<resources, failures>>
     \/ /\ IF handle["client"] \in Open THEN Fails ELSE UNCHANGED failures
        /\ GiveBack("client")
        /\ UNCHANGED handle
  /\ at' = <<"client", "ShutdownWinsock">>
  /\ UNCHANGED <<program, mainVars, ready>>

ShutdownWinsock ==
  /\ at = <<"client", "ShutdownWinsock">>
  /\ CloseAndCleanup({handle["client"]})
  /\ at' = <<"client", "end">>
  /\ UNCHANGED <<program, info, handle, undefined, mainVars, failures, ready>>

\* A process whose heap is damaged may die at once; or it goes on.
HeapCorrupted ==
  /\ undefined
  /\ at[2] # "end"
  /\ at' = <<at[1], "end">>
  /\ UNCHANGED <<program, resources, mainVars, failures, ready>>

Next ==
  \/ SetUp
  \/ SelectConnection
  \/ AcceptConnection
  \/ NothingToAccept
  \/ Scan
  \/ ScanStuck
  \/ RunEnds
  \/ CloseSocket
  \/ Menu
  \/ ReceiveFromServer
  \/ CloseConnection
  \/ ShutdownWinsock
  \/ HeapCorrupted

Spec == Init /\ [][Next]_vars

-----------------------------------------------------------------------------
(* Properties.                                                             *)

\* Whatever fails in between, each object that is set up accounts for one
\* start-up, and nothing else does, until the program misuses the heap: no
\* error path leaves a start-up behind or ends one that the other object
\* needs.  (An info cleared by getaddrinfo makes the failure of select
\* harmless to the heap, and so repeatable.)
Balanced ==
  /\ ~undefined
  /\ info["server"] # "null"
  /\ at[2] \in {"select", "accept", "scan", "menu", "recv", "shutdown"}
  => startups = Cardinality({o \in Object : info[o] = "held"})

\* The chat server keeps its connection to the authentication server, whatever
\* happens to its listening socket, if TCP_init succeeded: neither the last
\* WSACleanup nor a closesocket of a number given out again takes it away
\* before the heap is damaged.
AuthConnectionKept ==
  ready = Object /\ ~undefined => socket[handle["client"]] = "stream"

\* Only a call that fails, or having no socket left to give to one more client,
\* makes a server free its address list twice or lose a socket it uses.
FaultNeedsCause ==
  failures = 0 /\ Cardinality(clients) + 2 < Cardinality(Handle) =>
    /\ ~undefined
    /\ "server" \in ready /\ at[2] # "end" =>
         {handle["server"]} \cup clients \subseteq Open

\* The error path of each call of ChatClient's set-up and that of CloseConnection
\* free its address list.  It is freed twice only where the set-up failed and the
\* user then asked for nothing: one who asks waits for ever in ReceiveFromServer.
\* And when the client ends after the menu everything else is given back.
ClientEndsClean ==
  program = "ChatClient" =>
    /\ undefined => "client" \notin ready /\ cmd = "other"
    /\ at[2] = "end" /\ cmd # "none" => startups = 0 /\ Open = {}
=============================================================================
