--------------------------- MODULE SocketsProofs ---------------------------
(***************************************************************************)
(* What is proved of Sockets, for every number of sockets and of failures. *)
(***************************************************************************)
EXTENDS Sockets, FiniteSetTheorems, TLAPS

-----------------------------------------------------------------------------
(* The inductive invariant.                                                *)

Taking == {"WSAStartup", "getaddrinfo", "socket"}

OnSocket == {"bind", "listen", "connect", "ioctlsocket"}

Loop == {"select", "accept", "scan", "CloseSocket"}

SettingUp == at[2] \in Taking \cup OnSocket

Held(o) == IF info[o] = "held" THEN 1 ELSE 0

\* Which object's functions each program runs, and that each has the calls of
\* its class.
Placed ==
  /\ at[1] = "server" =>
       /\ program # "ChatClient"
       /\ at[2] \in Taking \cup Loop \cup {"bind", "listen", "stuck", "end"}
  /\ at[1] = "client" =>
       /\ program # "AuthenServer"
       /\ at[2] \in Taking \cup {"connect", "ioctlsocket", "menu", "recv", "shutdown",
                                 "ShutdownWinsock", "stuck", "end"}
       /\ ~SettingUp => program = "ChatClient"
  /\ program = "ChatClient" => "server" \notin ready /\ info["server"] = "wild"
  /\ program = "AuthenServer" => "client" \notin ready
  /\ at[2] = "CloseSocket" => program = "AuthenServer"

\* What an object that is being set up has taken so far.
Fresh ==
  /\ at[2] \in Taking /\ at[1] = "server" => Open = {}
  /\ SettingUp /\ at[1] = "server" =>
       ready = {} /\ info["client"] = "null" /\ handle["client"] = NoHandle
  /\ SettingUp => at[1] \notin ready
  /\ SettingUp \/ at[1] = "client" => clients = {}
  /\ SettingUp => ~undefined /\ cmd = "none"
  /\ at[2] \in Taking /\ at[1] = "client" => handle["client"] = NoHandle
  /\ at[2] \in {"WSAStartup", "getaddrinfo"} => info[at[1]] # "held"
  /\ at[2] \in {"socket"} \cup OnSocket => info[at[1]] = "held"
  /\ at[2] \in OnSocket => handle[at[1]] \in Handle
  /\ at[2] \in OnSocket /\ at[1] = "client" /\ "server" \in ready =>
       handle["client"] # handle["server"]

\* Every start-up is that of an object that holds an address list, or of the
\* one that is about to get it.
Accounts ==
  ~undefined /\ (SettingUp \/ info["server"] # "null") /\ at[2] # "end" =>
    startups = Held("server") + Held("client")
                 + (IF at[2] = "getaddrinfo" THEN 1 ELSE 0)

\* A server that was set up and has not given back listens.
Listening ==
  "server" \in ready =>
    /\ at[1] = "client" => info["server"] = "held"
    /\ info["server"] \in {"held", "freed"}
    /\ ~undefined /\ info["server"] = "held" /\ at[2] # "end" =>
         handle["server"] \in Handle /\ socket[handle["server"]] = "listening"

\* The connection of a chat server that was set up is its own.
Connection ==
  ready = Object /\ ~undefined =>
    /\ program = "ChatServer" /\ at[1] = "server"
    /\ info["client"] = "held"
    /\ handle["client"] \in Handle /\ handle["client"] # handle["server"]
    /\ socket[handle["client"]] = "stream"

\* Every open socket has its place in the program.
Known == Open \subseteq {handle["server"], handle["client"]} \cup clients

Few == Cardinality(clients) + 2 < Cardinality(Handle)

\* Where nothing failed and no handle was missing, a server has all it took.
NoFault ==
  failures = 0 =>
    /\ at[2] \in Loop => "server" \in ready
    /\ at[1] = "client" /\ program = "ChatServer" => "server" \in ready
    /\ Few => /\ ~undefined
              /\ "server" \in ready /\ at[2] # "end" =>
                   info["server"] = "held" /\ clients \subseteq Open

\* A client that was set up holds what it took until it closes; one that was not
\* has nothing, and gives back again only where its user asked for nothing.
ClientHolds ==
  program = "ChatClient" =>
    /\ at[2] \in {"menu", "recv", "shutdown"} =>
         /\ ~undefined
         /\ IF "client" \in ready
              THEN info["client"] = "held" /\ handle["client"] \in Open
              ELSE failures > 0 /\ info["client"] # "held" /\ Open = {}
    /\ at[2] = "menu" => cmd = "none"
    /\ at[2] = "recv" => cmd = "ask"
    /\ at[2] = "shutdown" => cmd \in {"ask", "other"}
    /\ at[2] = "shutdown" /\ cmd = "ask" => "client" \in ready
    /\ undefined => "client" \notin ready /\ cmd = "other" /\ failures > 0 /\ startups = 0
    /\ at[2] = "end" /\ cmd # "none" => startups = 0

\* Something is started up wherever a socket may be made.
Started == at[2] \in {"getaddrinfo", "socket"} \cup OnSocket => startups > 0

Inv ==
  /\ TypeOK
  /\ Placed
  /\ Fresh
  /\ Accounts
  /\ Listening
  /\ Connection
  /\ Known
  /\ NoFault
  /\ ClientHolds
  /\ Started

-----------------------------------------------------------------------------
(* Giving back.                                                            *)

LEMMA GiveBackType ==
  ASSUME TypeOK, NEW o \in Object, GiveBack(o),
         info[o] # "wild" \/ o = "server"
  PROVE  /\ startups' \in 0..2
         /\ socket' \in [Handle -> {"closed", "new", "listening", "stream"}]
         /\ startups' = 0 => \A h \in Handle : socket'[h] = "closed"
         /\ info' \in [Object -> {"wild", "null", "held", "freed"}]
         /\ info'["client"] # "wild"
         /\ undefined' \in BOOLEAN
BY DEF TypeOK, GiveBack, FreeAddrInfo, CloseAndCleanup, Object

\* A server that gives back what it had frees no start-up but its own, and
\* leaves the sockets that are not its listening socket alone, as long as the
\* other object has its start-up.
LEMMA ServerGivesBack ==
  ASSUME TypeOK, Accounts, GiveBack("server"), ~undefined',
         info["server"] # "null", ~SettingUp, at[2] # "end"
  PROVE  /\ ~undefined
         /\ info["server"] = "held"
         /\ info' = [info EXCEPT !["server"] = "freed"]
         /\ startups = Held("client") + 1
         /\ startups' = Held("client")
         /\ info["client"] = "held" =>
              \A h \in Handle : h # handle["server"] => socket'[h] = socket[h]
<1>1. ~undefined /\ info["server"] = "held"
  BY DEF TypeOK, GiveBack, FreeAddrInfo, Object
<1>2. startups = Held("client") + 1
  BY <1>1 DEF Accounts, Held, SettingUp, Taking
<1> QED  BY <1>1, <1>2 DEF TypeOK, GiveBack, FreeAddrInfo, CloseAndCleanup, Held, Object

\* With few clients there is a handle left.
LEMMA FewLeaveOne ==
  ASSUME TypeOK, Known, Few
  PROVE  Open # Handle
<1> DEFINE S == {handle["server"], handle["client"]} \cup clients
<1>1. IsFiniteSet(clients) /\ Cardinality(clients) \in Nat
  BY HandleAssumption, FS_Subset, FS_CardinalityType DEF TypeOK
<1> DEFINE T == clients \cup {handle["server"]}
<1>2. IsFiniteSet(T) /\ Cardinality(T) <= Cardinality(clients) + 1
  <2>1. IsFiniteSet(T) /\ Cardinality(T) \in {Cardinality(clients), Cardinality(clients) + 1}
    BY <1>1, FS_AddElement, Zenon
  <2> HIDE DEF T
  <2> QED  BY <1>1, <2>1
<1>3. /\ IsFiniteSet(T \cup {handle["client"]})
      /\ Cardinality(T \cup {handle["client"]}) <= Cardinality(T) + 1
  <2> HIDE DEF T
  <2> QED  BY <1>2, FS_AddElement, FS_CardinalityType
<1>4. Cardinality(T) \in Nat /\ Cardinality(T \cup {handle["client"]}) \in Nat
  BY <1>2, <1>3, FS_CardinalityType
<1>5. Cardinality(T \cup {handle["client"]}) <= Cardinality(clients) + 2
  <2> HIDE DEF T
  <2> QED  BY <1>1, <1>2, <1>3, <1>4
<1>6. S = T \cup {handle["client"]}
  OBVIOUS
<1>7. SUFFICES ASSUME Open = Handle PROVE FALSE
  OBVIOUS
<1>8. Handle \subseteq S
  BY <1>7 DEF Known
<1>9. Cardinality(Handle) <= Cardinality(S) /\ Cardinality(Handle) \in Nat
  <2> HIDE DEF S, T
  <2> QED  BY <1>3, <1>6, <1>8, HandleAssumption, FS_Subset, FS_CardinalityType
<1> QED
  <2> HIDE DEF S, T
  <2> QED  BY <1>1, <1>4, <1>5, <1>6, <1>9 DEF Few

\* Clients are only added, so with few after a step there were few before.
LEMMA FewBefore ==
  ASSUME TypeOK, TypeOK', clients \subseteq clients', Few'
  PROVE  Few
<1>1. IsFiniteSet(clients') /\ IsFiniteSet(clients)
  BY HandleAssumption, FS_Subset DEF TypeOK
<1>2. Cardinality(clients) <= Cardinality(clients')
  BY <1>1, FS_Subset
<1> QED  BY <1>1, <1>2, HandleAssumption, FS_CardinalityType DEF Few

-----------------------------------------------------------------------------
(* The steps.                                                              *)

LEMMA TakeStep ==
  ASSUME NEW o \in Object, Inv,
         WSAStartup(o) \/ GetAddrInfo(o), UNCHANGED <<program, mainVars>>
  PROVE  Inv'
<1> USE HandleAssumption, FailuresAssumption
    DEF Inv, TypeOK, SettingUp, Taking, OnSocket, Loop, Open, Object, resources, loopVars, mainVars,
        WSAStartup, GetAddrInfo, Succeeds, SetUpFails, Fails, AfterSetUp,
             CloseAndCleanup
<1>1. TypeOK'
  BY DEF Started, Accounts, Placed, Fresh, Held, ClientHolds, Program, Call
<1>2. Placed'
  BY DEF Placed, Fresh
<1>3. Fresh'
  BY DEF Fresh, Placed, Listening, ClientHolds
<1>4. Accounts'
  BY DEF Accounts, Placed, Fresh, Held, Listening
<1>5. Listening'
  BY DEF Listening, Placed, Fresh, Connection, Accounts, Held
<1>6. Connection'
  BY DEF Connection, Listening, Placed, Fresh, Accounts, Held
<1>7. Known'
  BY DEF Known, Fresh
<1>8. NoFault'
  BY DEF NoFault, Placed, Fresh, Listening, Few
<1>9. ClientHolds'
  BY DEF ClientHolds, Placed, Accounts, Held, Started, Fresh
<1>10. Started'
  BY DEF Started
<1> QED  BY <1>1, <1>2, <1>3, <1>4, <1>5, <1>6, <1>7, <1>8, <1>9, <1>10 DEF Inv

LEMMA SocketStep ==
  ASSUME NEW o \in Object, Inv,
         SocketCreate(o), UNCHANGED <<program, mainVars>>
  PROVE  Inv'
<1> USE HandleAssumption, FailuresAssumption
    DEF Inv, TypeOK, SettingUp, Taking, OnSocket, Loop, Open, Object, resources, loopVars, mainVars,
        SocketCreate, Succeeds, SetUpFails, Fails, AfterSetUp,
             CloseAndCleanup, FreeAddrInfo
<1>1. TypeOK'
  BY DEF Started, Accounts, Placed, Fresh, Held, ClientHolds, Program, Call
<1>2. Placed'
  BY DEF Placed, Fresh
<1>3. Fresh'
  BY DEF Fresh, Placed, Listening, ClientHolds
<1>4. Accounts'
  BY DEF Accounts, Placed, Fresh, Held, Listening
<1>5. Listening'
  BY DEF Listening, Placed, Fresh, Connection, Accounts, Held
<1>6. Connection'
  BY DEF Connection, Listening, Placed, Fresh, Accounts, Held
<1>7. Known'
  BY DEF Known, Fresh
<1>8. NoFault'
  BY DEF NoFault, Placed, Fresh, Listening, Few
<1>9. ClientHolds'
  BY DEF ClientHolds, Placed, Accounts, Held, Started, Fresh
<1>10. Started'
  BY DEF Started
<1> QED  BY <1>1, <1>2, <1>3, <1>4, <1>5, <1>6, <1>7, <1>8, <1>9, <1>10 DEF Inv

LEMMA OnSocketStep ==
  ASSUME Inv, BindSocket \/ ListenConnection \/ MakeConnect \/ IOCntrolSocket,
         UNCHANGED <<program, mainVars>>
  PROVE  Inv'
<1> USE HandleAssumption, FailuresAssumption
    DEF Inv, TypeOK, SettingUp, Taking, OnSocket, Loop, Open, Object, resources, loopVars, mainVars,
        BindSocket, ListenConnection, MakeConnect, IOCntrolSocket, SocketCall,
             SetUpFails, Fails, AfterSetUp, GiveBack, CloseAndCleanup, FreeAddrInfo
<1>1. TypeOK'
  BY DEF Started, Accounts, Placed, Fresh, Held, ClientHolds, Program, Call
<1>2. Placed'
  BY DEF Placed, Fresh
<1>3. Fresh'
  BY DEF Fresh, Placed, Listening, ClientHolds
<1>4. Accounts'
  BY DEF Accounts, Placed, Fresh, Held, Listening
<1>5. Listening'
  BY DEF Listening, Placed, Fresh, Connection, Accounts, Held
<1>6. Connection'
  <2>1. CASE ready' # Object
    BY <2>1 DEF Connection
  <2>2. ASSUME ready' = Object
        PROVE  IOCntrolSocket /\ "server" \in ready /\ ready' = ready \cup {"client"}
    BY <2>2 DEF Fresh, Placed
  <2>3. ASSUME ready' = Object PROVE Connection'
    <3>1. /\ program = "ChatServer"
          /\ handle["client"] \in Handle /\ handle["client"] # handle["server"]
            /\ info["client"] = "held"
      BY <2>2, <2>3 DEF Placed, Fresh, Program
    <3>2. at' = <<"server", "select">> /\ socket'[handle["client"]] = "stream"
            /\ UNCHANGED <<info, handle, program>>
      BY <2>2, <2>3, <3>1 DEF Fresh
    <3> QED  BY <3>1, <3>2 DEF Connection
  <2> QED  BY <2>1, <2>3
<1>7. Known'
  BY DEF Known, Fresh
<1>8. NoFault'
  <2>1. at'[2] \notin {"end"} /\ UNCHANGED <<clients, undefined>> /\ (Few' <=> Few)
    BY DEF Fresh, Few
  <2>2. ASSUME failures' = 0 PROVE failures = 0 /\ UNCHANGED info /\ ready \subseteq ready'
    BY <2>2
  <2>3. ASSUME failures' = 0
        PROVE  /\ at'[2] \in Loop => "server" \in ready'
               /\ at'[1] = "client" /\ program' = "ChatServer" => "server" \in ready'
    <3>1. CASE BindSocket \/ ListenConnection
      BY <2>2, <2>3, <3>1 DEF NoFault, Placed
    <3>2. CASE MakeConnect \/ IOCntrolSocket
      BY <2>2, <2>3, <3>2 DEF NoFault, Placed, Program
    <3> QED  BY <3>1, <3>2
  <2>4. ASSUME failures' = 0
        PROVE  clients' = {} /\ ~undefined' /\ info["server"] = info'["server"]
    BY <2>1, <2>2, <2>4 DEF Fresh
  <2>5. ASSUME failures' = 0, "server" \in ready' PROVE info'["server"] = "held"
    BY <2>2, <2>4, <2>5 DEF Listening, Fresh, Placed
  <2> QED  BY <2>3, <2>4, <2>5 DEF NoFault
<1>9. ClientHolds'
  BY DEF ClientHolds, Placed, Accounts, Held, Started, Fresh
<1>10. Started'
  BY DEF Started
<1> QED  BY <1>1, <1>2, <1>3, <1>4, <1>5, <1>6, <1>7, <1>8, <1>9, <1>10 DEF Inv

LEMMA SelectStep ==
  ASSUME Inv, SelectConnection
  PROVE  Inv'
<1> USE HandleAssumption, FailuresAssumption
    DEF Inv, TypeOK, SettingUp, Taking, OnSocket, Loop, Open, Object, resources, loopVars, mainVars,
        SelectConnection, Fails, GiveBack, CloseAndCleanup, FreeAddrInfo
<1>1. TypeOK'
  <2>1. CASE UNCHANGED resources
    BY <2>1 DEF Call, Program
  <2>2. CASE GiveBack("server") /\ UNCHANGED handle
    <3> HIDE DEF GiveBack
    <3> QED  BY <2>2, GiveBackType DEF Call, Program
  <2> QED  BY <2>1, <2>2
<1>2. Placed'
  BY DEF Placed, Fresh
<1>3. Fresh'
  BY DEF Fresh, Placed, Listening, ClientHolds
<1>4. Accounts'
  <2>1. CASE UNCHANGED resources
    BY <2>1 DEF Accounts, Held
  <2>2. CASE GiveBack("server") /\ UNCHANGED handle
    BY <2>2, ServerGivesBack DEF Accounts, Held
  <2> QED  BY <2>1, <2>2
<1>5. Listening'
  BY DEF Listening, Placed, Fresh, Connection, Accounts, Held
<1>6. Connection'
  <2>1. CASE UNCHANGED resources
    BY <2>1 DEF Connection
  <2>2. CASE GiveBack("server") /\ UNCHANGED handle
    <3> SUFFICES ASSUME ready' = Object, ~undefined' PROVE Connection'
      BY DEF Connection
    <3>1. ~undefined /\ info["server"] # "null"
      BY <2>2 DEF Listening
    <3>2. /\ info' = [info EXCEPT !["server"] = "freed"]
          /\ info["client"] = "held" =>
               \A h \in Handle : h # handle["server"] => socket'[h] = socket[h]
      BY <2>2, <3>1, ServerGivesBack
    <3> QED  BY <2>2, <3>1, <3>2 DEF Connection
  <2> QED  BY <2>1, <2>2
<1>7. Known'
  BY DEF Known, Fresh
<1>8. NoFault'
  BY DEF NoFault, Placed, Fresh, Listening, Few
<1>9. ClientHolds'
  BY DEF ClientHolds, Placed, Accounts, Held, Started, Fresh
<1>10. Started'
  BY DEF Started
<1> QED  BY <1>1, <1>2, <1>3, <1>4, <1>5, <1>6, <1>7, <1>8, <1>9, <1>10 DEF Inv

LEMMA AcceptStep ==
  ASSUME Inv, AcceptConnection
  PROVE  Inv'
<1> USE HandleAssumption, FailuresAssumption
    DEF Inv, TypeOK, SettingUp, Taking, OnSocket, Loop, Open, Object, resources, loopVars, mainVars,
        AcceptConnection, CanAccept, Fails, GiveBack, CloseAndCleanup, FreeAddrInfo
<1>1. TypeOK'
  <2>1. CASE /\ CanAccept /\ UNCHANGED <<startups, info, undefined, failures>>
             /\ \E h \in Handle \ Open :
               /\ socket' = [socket EXCEPT ![h] = "stream"]
               /\ clients' = clients \cup {h}
               /\ connected' = connected \cup {h}
               /\ accepted' = h
    BY <2>1 DEF Call, Program
  <2>2. CASE GiveBack("server")
    <3> HIDE DEF GiveBack
    <3> QED  BY <2>2, GiveBackType DEF Call, Program
  <2> QED  BY <2>1, <2>2
<1>2. Placed'
  BY DEF Placed, Fresh
<1>3. Fresh'
  BY DEF Fresh, Placed, Listening, ClientHolds
<1>4. Accounts'
  <2>1. CASE /\ CanAccept /\ UNCHANGED <<startups, info, undefined, failures>>
             /\ \E h \in Handle \ Open :
               /\ socket' = [socket EXCEPT ![h] = "stream"]
               /\ clients' = clients \cup {h}
               /\ connected' = connected \cup {h}
               /\ accepted' = h
    BY <2>1 DEF Accounts, Held
  <2>2. CASE GiveBack("server")
    BY <2>2, ServerGivesBack DEF Accounts, Held
  <2> QED  BY <2>1, <2>2
<1>5. Listening'
  BY DEF Listening, Placed, Fresh, Connection, Accounts, Held
<1>6. Connection'
  <2>1. CASE /\ CanAccept /\ UNCHANGED <<startups, info, undefined, failures>>
             /\ \E h \in Handle \ Open :
               /\ socket' = [socket EXCEPT ![h] = "stream"]
               /\ clients' = clients \cup {h}
               /\ connected' = connected \cup {h}
               /\ accepted' = h
    BY <2>1 DEF Connection
  <2>2. CASE GiveBack("server")
    <3> SUFFICES ASSUME ready' = Object, ~undefined' PROVE Connection'
      BY DEF Connection
    <3>1. ~undefined /\ info["server"] # "null"
      BY <2>2 DEF Listening
    <3>2. /\ info' = [info EXCEPT !["server"] = "freed"]
          /\ info["client"] = "held" =>
               \A h \in Handle : h # handle["server"] => socket'[h] = socket[h]
      BY <2>2, <3>1, ServerGivesBack
    <3> QED  BY <2>2, <3>1, <3>2 DEF Connection
  <2> QED  BY <2>1, <2>2
<1>7. Known'
  BY DEF Known, Fresh
<1>8. NoFault'
  <2>1. clients \subseteq clients'
    OBVIOUS
  <2>2. SUFFICES ASSUME failures' = 0 PROVE NoFault'
    BY DEF NoFault
  <2>3. failures = 0 /\ "server" \in ready
    BY <2>2 DEF NoFault
  <2>4. ASSUME Few'
        PROVE  ~undefined' /\ info'["server"] = "held" /\ clients' \subseteq Open'
    <3>1. Few
      BY <1>1, <2>1, <2>4, FewBefore
    <3>2. ~undefined /\ info["server"] = "held" /\ clients \subseteq Open
      BY <2>3, <3>1 DEF NoFault
    <3>3. CanAccept
      BY <2>3, <3>1, <3>2, FewLeaveOne DEF Listening
    <3> QED  BY <2>2, <2>3, <3>2, <3>3
  <2> QED  BY <2>3, <2>4 DEF NoFault, Placed
<1>9. ClientHolds'
  BY DEF ClientHolds, Placed, Accounts, Held, Started, Fresh
<1>10. Started'
  BY DEF Started
<1> QED  BY <1>1, <1>2, <1>3, <1>4, <1>5, <1>6, <1>7, <1>8, <1>9, <1>10 DEF Inv

LEMMA ScanStep ==
  ASSUME Inv, NothingToAccept \/ Scan \/ ScanStuck \/ RunEnds
  PROVE  Inv'
<1> USE HandleAssumption, FailuresAssumption
    DEF Inv, TypeOK, SettingUp, Taking, OnSocket, Loop, Open, Object, resources, loopVars, mainVars,
        NothingToAccept, Scan, ScanStuck, RunEnds, Fails
<1>1. TypeOK'
  <2>1. at' \in Object \X Call
    BY DEF Call
  <2>2. failures' \in 0..MaxFailures
    OBVIOUS
  <2> QED  BY <2>1, <2>2 DEF Program
<1>2. Placed'
  BY DEF Placed, Fresh
<1>3. Fresh'
  BY DEF Fresh, Placed, Listening, ClientHolds
<1>4. Accounts'
  BY DEF Accounts, Placed, Fresh, Held, Listening
<1>5. Listening'
  BY DEF Listening, Placed, Fresh, Connection, Accounts, Held
<1>6. Connection'
  BY DEF Connection, Listening, Placed, Fresh, Accounts, Held
<1>7. Known'
  BY DEF Known, Fresh
<1>8. NoFault'
  BY DEF NoFault, Placed, Fresh, Listening, Few
<1>9. ClientHolds'
  BY DEF ClientHolds, Placed, Accounts, Held, Started, Fresh
<1>10. Started'
  BY DEF Started
<1> QED  BY <1>1, <1>2, <1>3, <1>4, <1>5, <1>6, <1>7, <1>8, <1>9, <1>10 DEF Inv

LEMMA CloseSocketStep ==
  ASSUME Inv, CloseSocket
  PROVE  Inv'
<1> USE HandleAssumption, FailuresAssumption
    DEF Inv, TypeOK, SettingUp, Taking, OnSocket, Loop, Open, Object, resources, loopVars, mainVars,
        CloseSocket, CloseAndCleanup, FreeAddrInfo
<1>1. TypeOK'
  BY DEF Started, Accounts, Placed, Fresh, Held, ClientHolds, Program, Call
<1>2. Placed'
  BY DEF Placed, Fresh
<1>3. Fresh'
  BY DEF Fresh, Placed, Listening, ClientHolds
<1>4. Accounts'
  BY DEF Accounts, Placed, Fresh, Held, Listening
<1>5. Listening'
  BY DEF Listening, Placed, Fresh, Connection, Accounts, Held
<1>6. Connection'
  BY DEF Connection, Listening, Placed, Fresh, Accounts, Held
<1>7. Known'
  BY DEF Known, Fresh
<1>8. NoFault'
  BY DEF NoFault, Placed, Fresh, Listening, Few
<1>9. ClientHolds'
  BY DEF ClientHolds, Placed, Accounts, Held, Started, Fresh
<1>10. Started'
  BY DEF Started
<1> QED  BY <1>1, <1>2, <1>3, <1>4, <1>5, <1>6, <1>7, <1>8, <1>9, <1>10 DEF Inv

LEMMA ClientStep ==
  ASSUME Inv, Menu \/ ReceiveFromServer \/ CloseConnection \/ ShutdownWinsock
  PROVE  Inv'
<1> USE HandleAssumption, FailuresAssumption
    DEF Inv, TypeOK, SettingUp, Taking, OnSocket, Loop, Open, Object, resources, loopVars, mainVars,
        Menu, ReceiveFromServer, CloseConnection, ShutdownWinsock, Fails,
             GiveBack, CloseAndCleanup, FreeAddrInfo
<1>1. TypeOK'
  <2>1. at' \in Object \X Call
    BY DEF Call
  <2>2. failures' \in 0..MaxFailures
    <3>1. failures' = failures \/ (failures < MaxFailures /\ failures' = failures + 1)
      BY Zenon
    <3> QED  BY <3>1
  <2>3. UNCHANGED <<program, loopVars, ready>> /\ cmd' \in {"none", "ask", "other"}
    <3>1. CASE Menu
      BY <3>1
    <3>2. CASE ~ Menu
      BY <3>2
    <3> QED  BY <3>1, <3>2
  <2>4. CASE UNCHANGED resources /\ ~ShutdownWinsock
    BY <2>1, <2>2, <2>3, <2>4 DEF Program
  <2>5. CASE GiveBack("client") /\ UNCHANGED handle /\ ~ShutdownWinsock
    <3> HIDE DEF GiveBack
    <3> QED  BY <2>1, <2>2, <2>3, <2>5, GiveBackType DEF Program
  <2>6. CASE ShutdownWinsock
    BY <2>1, <2>3, <2>6 DEF Program
  <2> QED  BY <2>4, <2>5, <2>6
<1>2. Placed'
  BY DEF Placed, Fresh
<1>3. Fresh'
  BY DEF Fresh, Placed, Listening, ClientHolds
<1>4. Accounts'
  BY DEF Accounts, Placed, Fresh, Held, Listening
<1>5. Listening'
  BY DEF Listening, Placed, Fresh, Connection, Accounts, Held
<1>6. Connection'
  BY DEF Connection, Listening, Placed, Fresh, Accounts, Held
<1>7. Known'
  BY DEF Known, Fresh
<1>8. NoFault'
  <2>1. SUFFICES ASSUME failures' = 0 PROVE NoFault'
    BY DEF NoFault
  <2>2. failures = 0 /\ at[1] = "client" /\ program = "ChatClient"
    BY <2>1 DEF Placed
  <2>3. UNCHANGED undefined
    <3>1. CASE CloseConnection
      BY <2>1, <2>2, <3>1 DEF ClientHolds
    <3>2. CASE ~ CloseConnection
      BY <3>2
    <3> QED  BY <3>1, <3>2
  <2> QED  BY <2>2, <2>3 DEF NoFault, Placed, Few
<1>9. ClientHolds'
  BY DEF ClientHolds, Placed, Accounts, Held, Started, Fresh
<1>10. Started'
  BY DEF Started
<1> QED  BY <1>1, <1>2, <1>3, <1>4, <1>5, <1>6, <1>7, <1>8, <1>9, <1>10 DEF Inv

LEMMA QuietStep ==
  ASSUME Inv, HeapCorrupted \/ UNCHANGED vars
  PROVE  Inv'
<1> USE HandleAssumption, FailuresAssumption
    DEF Inv, TypeOK, SettingUp, Taking, OnSocket, Loop, Open, Object, resources, loopVars, mainVars,
        HeapCorrupted, vars
<1>1. TypeOK'
  <2>1. at' \in Object \X Call
    BY DEF Call
  <2> QED  BY <2>1 DEF Program
<1>2. Placed'
  BY DEF Placed, Fresh
<1>3. Fresh'
  <2>1. CASE HeapCorrupted
    BY <2>1 DEF Fresh
  <2>2. CASE UNCHANGED vars
    BY <2>2 DEF Fresh
  <2> QED  BY <2>1, <2>2
<1>4. Accounts'
  BY DEF Accounts, Placed, Fresh, Held, Listening
<1>5. Listening'
  BY DEF Listening, Placed, Fresh, Connection, Accounts, Held
<1>6. Connection'
  BY DEF Connection, Listening, Placed, Fresh, Accounts, Held
<1>7. Known'
  BY DEF Known, Fresh
<1>8. NoFault'
  BY DEF NoFault, Placed, Fresh, Listening, Few
<1>9. ClientHolds'
  BY DEF ClientHolds, Placed, Accounts, Held, Started, Fresh
<1>10. Started'
  BY DEF Started
<1> QED  BY <1>1, <1>2, <1>3, <1>4, <1>5, <1>6, <1>7, <1>8, <1>9, <1>10 DEF Inv

LEMMA StepInv == Inv /\ [Next]_vars => Inv'
<1> SUFFICES ASSUME Inv, [Next]_vars PROVE Inv'
  OBVIOUS
<1>1. CASE SetUp
  BY <1>1, TakeStep, SocketStep, OnSocketStep DEF SetUp
<1>2. CASE SelectConnection \/ AcceptConnection
  BY <1>2, SelectStep, AcceptStep
<1>3. CASE NothingToAccept \/ Scan \/ ScanStuck \/ RunEnds \/ CloseSocket
  BY <1>3, ScanStep, CloseSocketStep
<1>4. CASE Menu \/ ReceiveFromServer \/ CloseConnection \/ ShutdownWinsock
  BY <1>4, ClientStep
<1>5. CASE HeapCorrupted \/ UNCHANGED vars
  BY <1>5, QuietStep
<1> QED  BY <1>1, <1>2, <1>3, <1>4, <1>5 DEF Next

LEMMA InitInv == Init => Inv
<1> SUFFICES ASSUME Init PROVE Inv
  OBVIOUS
<1> USE HandleAssumption, FailuresAssumption
    DEF Init, SettingUp, Taking, OnSocket, Object, Open
<1>1. TypeOK
  <2>1. at \in Object \X Call
    BY DEF Call
  <2>2. info \in [Object -> {"wild", "null", "held", "freed"}] /\ info["client"] # "wild"
    OBVIOUS
  <2>3. /\ socket \in [Handle -> {"closed", "new", "listening", "stream"}]
        /\ \A h \in Handle : socket[h] = "closed"
    OBVIOUS
  <2>4. program \in Program /\ acceptReady \in BOOLEAN /\ undefined \in BOOLEAN
    BY Zenon
  <2>7. startups \in 0..2
    OBVIOUS
  <2>5. clients \in SUBSET Handle /\ connected \in SUBSET clients /\ ready \in SUBSET Object
    OBVIOUS
  <2>6. /\ handle \in [Object -> Handle \cup {NoHandle}] /\ accepted \in Handle \cup {NoHandle}
        /\ failures \in 0..MaxFailures
    OBVIOUS
  <2> QED  BY <2>1, <2>2, <2>3, <2>4, <2>5, <2>6, <2>7 DEF TypeOK
<1>2. Placed /\ Fresh /\ Started
  BY DEF Placed, Fresh, Started, Program
<1>3. Accounts /\ Listening /\ Connection /\ Known
  BY DEF Accounts, Listening, Connection, Known, Held
<1>4. NoFault /\ ClientHolds
  BY DEF NoFault, ClientHolds, Loop
<1> QED  BY <1>1, <1>2, <1>3, <1>4 DEF Inv

LEMMA InvHolds == Spec => []Inv
<1> QED  BY InitInv, StepInv, PTL DEF Spec

-----------------------------------------------------------------------------
(* The theorems.                                                           *)

\* Every member of the two classes, and what each handle stands for, is what
\* the module says it may be, in every state.
THEOREM TypeCorrect == Spec => []TypeOK
<1>1. Inv => TypeOK
  BY DEF Inv
<1> QED  BY <1>1, InvHolds, PTL

LEMMA HeldObjects ==
  ASSUME TypeOK
  PROVE  Cardinality({o \in Object : info[o] = "held"}) = Held("server") + Held("client")
<1> DEFINE S == {o \in Object : info[o] = "held"}
<1>1. ASSUME Held("server") = 0, Held("client") = 0
      PROVE  Cardinality(S) = Held("server") + Held("client")
  <2>1. S = {}
    BY <1>1 DEF Held, Object
  <2>2. Cardinality(S) = Held("server") + Held("client")
    <3> HIDE DEF S
    <3> QED  BY <1>1, <2>1, FS_EmptySet
  <2> QED  BY <2>2
<1>2. ASSUME Held("server") = 1, Held("client") = 0
      PROVE  Cardinality(S) = Held("server") + Held("client")
  <2>0. Cardinality({"server"}) = 1
    BY FS_Singleton
  <2>1. S = {"server"}
    BY <1>2 DEF Held, Object
  <2>2. Cardinality(S) = Held("server") + Held("client")
    <3> HIDE DEF S
    <3> QED  BY <1>2, <2>0, <2>1
  <2> QED  BY <2>2
<1>3. ASSUME Held("server") = 0, Held("client") = 1
      PROVE  Cardinality(S) = Held("server") + Held("client")
  <2>0. Cardinality({"client"}) = 1
    BY FS_Singleton
  <2>1. S = {"client"}
    BY <1>3 DEF Held, Object
  <2>2. Cardinality(S) = Held("server") + Held("client")
    <3> HIDE DEF S
    <3> QED  BY <1>3, <2>0, <2>1
  <2> QED  BY <2>2
<1>4. ASSUME Held("server") = 1, Held("client") = 1
      PROVE  Cardinality(S) = Held("server") + Held("client")
  <2>1. S = {"server"} \cup {"client"}
    BY <1>4 DEF Held, Object
  <2>2. Cardinality({"server"}) = 1 /\ IsFiniteSet({"server"})
    BY FS_Singleton
  <2>3. Cardinality(S) = Cardinality({"server"}) + 1
    BY <2>1, <2>2, FS_AddElement
  <2> QED  BY <1>4, <2>2, <2>3
<1>5. Cardinality(S) = Held("server") + Held("client")
  BY <1>1, <1>2, <1>3, <1>4 DEF Held
<1> QED  BY <1>5

\* No error path leaves a start-up of Winsock behind, or ends one that the
\* other object needs, before the heap is misused.
THEOREM BalancedHolds == Spec => []Balanced
<1>1. Inv => Balanced
  <2> SUFFICES ASSUME Inv, ~undefined, info["server"] # "null",
                      at[2] \in {"select", "accept", "scan", "menu", "recv", "shutdown"}
               PROVE  startups = Cardinality({o \in Object : info[o] = "held"})
    BY DEF Balanced
  <2>1. startups = Held("server") + Held("client")
    BY DEF Inv, TypeOK, Accounts, Held
  <2> QED  BY <2>1, HeldObjects DEF Inv
<1> QED  BY <1>1, InvHolds, PTL

\* Whatever happens to its listening socket, a chat server keeps the connection
\* to the authentication server, until the heap is misused.
THEOREM AuthConnectionKeptHolds == Spec => []AuthConnectionKept
<1>1. Inv => AuthConnectionKept
  BY DEF Inv, Connection, AuthConnectionKept
<1> QED  BY <1>1, InvHolds, PTL

\* Only a call that failed, or one client too many, makes a server free its
\* address list twice or lose a socket.
THEOREM FaultNeedsCauseHolds == Spec => []FaultNeedsCause
<1>1. Inv => FaultNeedsCause
  BY HandleAssumption DEF Inv, TypeOK, NoFault, Listening, Few, Open, FaultNeedsCause
<1> QED  BY <1>1, InvHolds, PTL

\* The client frees its address list twice only where its set-up failed and its
\* user then asked for nothing, and gives back everything else whenever it ends
\* after the menu, whatever failed in between.
THEOREM ClientEndsCleanHolds == Spec => []ClientEndsClean
<1>1. Inv => ClientEndsClean
  BY DEF Inv, TypeOK, Placed, Fresh, ClientHolds, Open, Object, ClientEndsClean
<1> QED  BY <1>1, InvHolds, PTL
=============================================================================
