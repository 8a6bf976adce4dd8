------------------------------ MODULE EchoServer ------------------------------
(***************************************************************************)
(* server.c and client.c: a server that echoes messages, with a thread for *)
(* every connection, and its clients.  A thread and a client are named by  *)
(* their connection.                                                       *)
(*   listener  "select", "accept", "check", "add", "start": start_server   *)
(*   pc[t]     "none", "start", "recv", "send", "remove", "close", "over": *)
(*             handle_client                                               *)
(*   client[k] "idle", "ask", "wait", "closed": main of client.c           *)
(* Descriptor 0 is none.  A message is sent and received in one piece.     *)
(***************************************************************************)
EXTENDS Integers, FiniteSets

CONSTANTS
  Conn,        \* connections that clients make
  MAX_CLIENTS,
  MaxFd        \* descriptors the server may have for connections

ASSUME EchoAssumption ==
  /\ IsFiniteSet(Conn) /\ 0 \notin Conn
  /\ MAX_CLIENTS \in Nat \ {0}
  /\ MaxFd \in Nat

VARIABLES
  server,         \* "up" or "down": exit(1) has been called
  client,
  toServer,       \* what a client has sent: "none", "message", "exit"
  reply,          \* an echo is under way to the client
  fds,            \* the connection every descriptor is open for, 0 if closed
  readfds,        \* connections' descriptors among those select watches
  clients, client_count,
  listener, accepted, client_socket,  \* start_server
  pc, arg, socket,                    \* handle_client
  moved           \* history: an entry was moved before its thread had read it

clientVars == <<client, toServer, reply>>
arrayVars == <<clients, client_count>>
mainVars == <<listener, accepted, client_socket, readfds>>
threadVars == <<pc, arg, socket>>
vars == <<server, clientVars, fds, arrayVars, mainVars, threadVars, moved>>

Fd == 1..MaxFd
Index == 1..MAX_CLIENTS
Serving == {"start", "recv", "send", "remove"}

Init ==
  /\ server = "up"
  /\ client = [k \in Conn |-> "idle"]
  /\ toServer = [k \in Conn |-> "none"]
  /\ reply = [k \in Conn |-> FALSE]
  /\ fds = [n \in Fd |-> 0]
  /\ readfds = {}
  /\ clients = [i \in Index |-> 0]
  /\ client_count = 0
  /\ listener = "select"
  /\ accepted = 0
  /\ client_socket = 0
  /\ pc = [t \in Conn |-> "none"]
  /\ arg = [t \in Conn |-> 0]
  /\ socket = [t \in Conn |-> 0]
  /\ moved = FALSE

-----------------------------------------------------------------------------
(* client.c. *)

Becomes(k, position) == client' = [client EXCEPT ![k] = position]
ClientOnly ==
  UNCHANGED <<server, fds, arrayVars, mainVars, threadVars, moved>>

Connect(k) ==
  /\ server = "up"
  /\ client[k] = "idle"
  /\ Becomes(k, "ask")
  /\ UNCHANGED <<toServer, reply>> /\ ClientOnly

Say(k) ==
  /\ client[k] = "ask"
  /\ Becomes(k, "wait")
  /\ toServer' = [toServer EXCEPT ![k] = "message"]
  /\ UNCHANGED reply /\ ClientOnly

\* An empty line is sent as no bytes, and its echo is waited for.
SayNothing(k) ==
  /\ client[k] = "ask"
  /\ Becomes(k, "wait")
  /\ UNCHANGED <<toServer, reply>> /\ ClientOnly

SayExit(k) ==
  /\ client[k] = "ask"
  /\ Becomes(k, "closed")
  /\ toServer' = [toServer EXCEPT ![k] = "exit"]
  /\ UNCHANGED reply /\ ClientOnly

Hear(k) ==
  /\ client[k] = "wait"
  /\ reply[k]
  /\ Becomes(k, "ask")
  /\ reply' = [reply EXCEPT ![k] = FALSE]
  /\ UNCHANGED toServer /\ ClientOnly

\* A connection that is accepted and then closed, or whose server is gone.
HungUp(k) ==
  \/ server = "down"
  \/ pc[k] = "over" /\ \A n \in Fd : fds[n] # k

HearNothing(k) ==
  /\ client[k] = "wait"
  /\ ~ reply[k]
  /\ HungUp(k)
  /\ Becomes(k, "closed")
  /\ UNCHANGED <<toServer, reply>> /\ ClientOnly

\* The user stops the client.
Leave(k) ==
  /\ client[k] \in {"ask", "wait"}
  /\ Becomes(k, "closed")
  /\ UNCHANGED <<toServer, reply>> /\ ClientOnly

-----------------------------------------------------------------------------
(* start_server. *)

MainAt(position) == server = "up" /\ listener = position
MainOnly == UNCHANGED <<clientVars, moved>>

Exit ==
  /\ server' = "down"
  /\ UNCHANGED <<clientVars, fds, arrayVars, mainVars, threadVars, moved>>

Pending(k) == client[k] # "idle" /\ pc[k] = "none" /\ accepted # k

\* select has a connection to accept.  With anything else it returns for
\* nothing: the loop over the clients is empty.
Select ==
  /\ MainAt("select")
  /\ \A n \in readfds : fds[n] # 0
  /\ \E k \in Conn : Pending(k)
  /\ listener' = "accept"
  /\ UNCHANGED <<server, fds, arrayVars, accepted, client_socket, readfds,
                 threadVars>> /\ MainOnly

\* The descriptor of a client that has left is still in readfds.
SelectFails ==
  /\ MainAt("select")
  /\ \E n \in readfds : fds[n] = 0
  /\ Exit

Lowest(n) == fds[n] = 0 /\ \A m \in 1..(n - 1) : fds[m] # 0

Accept(k, n) ==
  /\ MainAt("accept")
  /\ Pending(k)
  /\ Lowest(n)
  /\ fds' = [fds EXCEPT ![n] = k]
  /\ accepted' = k
  /\ client_socket' = n
  /\ listener' = "check"
  /\ UNCHANGED <<server, arrayVars, readfds, threadVars>> /\ MainOnly

\* No descriptor, no memory.
AcceptFails == MainAt("accept") /\ Exit

\* Mutant: one client too many.
RoomLeftForOneMore ==
  /\ MainAt("check")
  /\ client_count <= MAX_CLIENTS
  /\ listener' = "add"
  /\ UNCHANGED <<server, fds, arrayVars, accepted, client_socket, readfds,
                 threadVars>> /\ MainOnly

\* client_count is read without the mutex.
RoomLeft ==
  /\ MainAt("check")
  /\ client_count < MAX_CLIENTS
  /\ listener' = "add"
  /\ UNCHANGED <<server, fds, arrayVars, accepted, client_socket, readfds,
                 threadVars>> /\ MainOnly

Reject ==
  /\ MainAt("check")
  /\ client_count >= MAX_CLIENTS
  /\ fds' = [fds EXCEPT ![client_socket] = 0]
  /\ pc' = [pc EXCEPT ![accepted] = "over"]
  /\ listener' = "select"
  /\ accepted' = 0
  /\ client_socket' = 0
  /\ UNCHANGED <<server, arrayVars, readfds, arg, socket>> /\ MainOnly

Add ==
  /\ MainAt("add")
  /\ clients' = [clients EXCEPT ![client_count + 1] = client_socket]
  /\ client_count' = client_count + 1
  /\ listener' = "start"
  /\ UNCHANGED <<server, fds, accepted, client_socket, readfds, threadVars>>
  /\ MainOnly

\* Mutant: the pointer is to the entry behind the new one.
StartPast ==
  /\ MainAt("start")
  /\ readfds' = readfds \cup {client_socket}
  /\ pc' = [pc EXCEPT ![accepted] = "start"]
  /\ arg' = [arg EXCEPT ![accepted] = 1 + (client_count % MAX_CLIENTS)]
  /\ listener' = "select"
  /\ accepted' = 0
  /\ client_socket' = 0
  /\ UNCHANGED <<server, fds, arrayVars, socket>> /\ MainOnly

\* The thread gets a pointer to the last entry, by a client_count that is read
\* without the mutex.
Start ==
  /\ MainAt("start")
  /\ readfds' = readfds \cup {client_socket}
  /\ pc' = [pc EXCEPT ![accepted] = "start"]
  /\ arg' = [arg EXCEPT ![accepted] = client_count]
  /\ listener' = "select"
  /\ accepted' = 0
  /\ client_socket' = 0
  /\ UNCHANGED <<server, fds, arrayVars, socket>> /\ MainOnly

StartFails == MainAt("start") /\ Exit

-----------------------------------------------------------------------------
(* handle_client. *)

At(t, position) == server = "up" /\ pc[t] = position
Goto(t, position) == pc' = [pc EXCEPT ![t] = position]
Peer(n) == IF n = 0 THEN 0 ELSE fds[n]

ReadArg(t) ==
  /\ At(t, "start")
  /\ socket' = [socket EXCEPT ![t] = clients[arg[t]]]
  /\ arg' = [arg EXCEPT ![t] = 0]
  /\ Goto(t, "recv")
  /\ UNCHANGED <<server, clientVars, fds, arrayVars, mainVars, moved>>

Recv(t) ==
  LET k == Peer(socket[t]) IN
  /\ At(t, "recv")
  /\ k # 0 /\ toServer[k] # "none"
  /\ toServer' = [toServer EXCEPT ![k] = "none"]
  /\ Goto(t, "send")
  /\ UNCHANGED <<server, client, reply, fds, arrayVars, mainVars, arg, socket,
                 moved>>

\* Mutant: the buffer is cleared before it is sent.
SendCleared(t) ==
  /\ At(t, "send")
  /\ Goto(t, "recv")
  /\ UNCHANGED <<server, clientVars, fds, arrayVars, mainVars, arg, socket,
                 moved>>

\* What is sent to a client that has left is lost.
Send(t) ==
  LET k == Peer(socket[t]) IN
  /\ At(t, "send")
  /\ reply' = [c \in Conn |-> reply[c] \/ (c = k /\ client[c] = "wait")]
  /\ Goto(t, "recv")
  /\ UNCHANGED <<server, client, toServer, fds, arrayVars, mainVars, arg,
                 socket, moved>>

RecvEnds(t) ==
  LET k == Peer(socket[t]) IN
  /\ At(t, "recv")
  /\ k # 0 => client[k] = "closed" /\ toServer[k] = "none"
  /\ Goto(t, "remove")
  /\ UNCHANGED <<server, clientVars, fds, arrayVars, mainVars, arg, socket,
                 moved>>

Found(t, i) ==
  /\ i <= client_count /\ clients[i] = socket[t]
  /\ \A j \in 1..(i - 1) : clients[j] # socket[t]

\* The entries behind i move down, the last one stays behind them as well.
MoveDown(i) ==
  clients' = [j \in Index |-> IF i <= j /\ j < client_count THEN clients[j + 1]
                                                            ELSE clients[j]]

\* Mutant: the count is corrected only if the entry is found.
RemoveFound(t) ==
  /\ At(t, "remove")
  /\ \/ (\A i \in Index : ~ Found(t, i)) /\ UNCHANGED <<arrayVars, moved>>
     \/ \E i \in Index :
          /\ Found(t, i)
          /\ MoveDown(i)
          /\ client_count' = client_count - 1
          /\ moved' = (moved \/ \E s \in Conn : pc[s] = "start" /\ arg[s] > i)
  /\ Goto(t, "close")
  /\ UNCHANGED <<server, clientVars, fds, mainVars, arg, socket>>

\* Mutant: the last entry is dropped.
RemoveLast(t) ==
  /\ At(t, "remove")
  /\ client_count' = client_count - 1
  /\ Goto(t, "close")
  /\ UNCHANGED <<server, clientVars, fds, clients, mainVars, arg, socket, moved>>

\* The mutex is held.
Remove(t) ==
  /\ At(t, "remove")
  /\ \/ (\A i \in Index : ~ Found(t, i)) /\ UNCHANGED <<clients, moved>>
     \/ \E i \in Index :
          /\ Found(t, i)
          /\ MoveDown(i)
          /\ moved' = (moved \/ \E s \in Conn : pc[s] = "start" /\ arg[s] > i)
  /\ client_count' = client_count - 1
  /\ Goto(t, "close")
  /\ UNCHANGED <<server, clientVars, fds, mainVars, arg, socket>>

Close(t) ==
  /\ At(t, "close")
  /\ fds' = [n \in Fd |-> IF n = socket[t] THEN 0 ELSE fds[n]]
  /\ socket' = [socket EXCEPT ![t] = 0]
  /\ Goto(t, "over")
  /\ UNCHANGED <<server, clientVars, arrayVars, mainVars, arg, moved>>

-----------------------------------------------------------------------------
(* The system. *)

Main ==
  \/ Select \/ SelectFails \/ AcceptFails \/ RoomLeft \/ Reject \/ Add
  \/ Start \/ StartFails
  \/ \E k \in Conn, n \in Fd : Accept(k, n)

Thread(t) ==
  \/ ReadArg(t) \/ Recv(t) \/ Send(t) \/ RecvEnds(t) \/ Remove(t) \/ Close(t)

Listens(k) == Hear(k) \/ HearNothing(k)
User(k) == Connect(k) \/ Say(k) \/ SayNothing(k) \/ SayExit(k) \/ Leave(k)

Next == Main \/ \E k \in Conn : Thread(k) \/ Listens(k) \/ User(k)

Spec == Init /\ [][Next]_vars

\* Threads and clients that are not blocked are scheduled.  Users are free.
FairSpec ==
  Spec /\ WF_vars(Main) /\ \A k \in Conn : WF_vars(Thread(k)) /\ WF_vars(Listens(k))

-----------------------------------------------------------------------------
(* Properties. *)

\* The type of the state.
TypeOK ==
  /\ server \in {"up", "down"}
  /\ client \in [Conn -> {"idle", "ask", "wait", "closed"}]
  /\ toServer \in [Conn -> {"none", "message", "exit"}]
  /\ reply \in [Conn -> BOOLEAN]
  /\ fds \in [Fd -> Conn \cup {0}]
  /\ readfds \subseteq Fd
  /\ clients \in [Index -> Fd \cup {0}]
  /\ client_count \in 0..MAX_CLIENTS
  /\ listener \in {"select", "accept", "check", "add", "start"}
  /\ accepted \in Conn \cup {0}
  /\ client_socket \in Fd \cup {0}
  /\ pc \in [Conn -> Serving \cup {"none", "close", "over"}]
  /\ arg \in [Conn -> Index \cup {0}]
  /\ socket \in [Conn -> Fd \cup {0}]
  /\ moved \in BOOLEAN

\* client_count, which start_server reads without the mutex to reject clients
\* and to find the entry it has added, is the number of threads that have not
\* left plus the one that is about to start.  So the pointer that a thread gets
\* is into the array, and a full array takes no client.
CountIsThreads ==
  client_count = Cardinality({t \in Conn : pc[t] \in Serving})
                   + (IF listener = "start" THEN 1 ELSE 0)

\* A thread serves its own connection to the end, unless the entry that its
\* pointer is to was moved before it was read (server.c:45, 154).
OwnSocket ==
  ~ moved => \A t \in Conn : pc[t] \in {"recv", "send", "remove", "close"} =>
               Peer(socket[t]) = t

\* The array lists every connection that is served, and only those.
ArrayIsServed ==
  ~ moved => \A n \in Fd :
    (\E i \in 1..client_count : clients[i] = n)
      <=> \E t \in Conn : /\ fds[n] = t
                          /\ \/ pc[t] \in Serving
                             \/ listener = "start" /\ accepted = t

\* A message is echoed, or the client learns that it is not.
Answered ==
  \A k \in Conn :
    client[k] = "wait" /\ toServer[k] = "message" ~> client[k] # "wait" \/ moved
=============================================================================
