------------------------------- MODULE Sessions -------------------------------
(***************************************************************************)
(* dbserver.c from accept to the end of a session: descriptors, the slots  *)
(* of clients[] and the threads of startConsThread.  What a request does   *)
(* to files is in SyncServer; here it is a packet.                         *)
(*                                                                         *)
(* A thread is named by the connection it was created for.  pc[t] is       *)
(*   "none"   the connection is not accepted yet                           *)
(*   "args"   created, has not read thread_args                            *)
(*   "login"  waits for the handshake                                      *)
(*   "loop"   at the head of the loop, about to read its slot's sock       *)
(*   "state"  about to read its slot's state                               *)
(*   "read"   waits for a packet        "body"  waits for a file's bytes   *)
(*   "unsock", "unstate"   in close_connection, to go on at resume[t]      *)
(*   "end"    left the loop             "close" at the last close          *)
(*   "over"                                                                *)
(* Descriptor 0 stands for the code's -1.  A packet is read in one piece,  *)
(* and so are the bytes of a file.  Users' names are shorter than four     *)
(* bytes: memmove copies ints, and one of them holds such a name.          *)
(***************************************************************************)
EXTENDS Integers, FiniteSets

CONSTANTS
  Conn,        \* connections that clients make
  User, Owner, \* the user of every connection
  Nobody,      \* the name of an empty slot
  Garbage,     \* the name read out of a packet that is not a handshake
  MaxClients,  \* MAXCLIENTS
  MaxFd,       \* descriptors the process may have for connections
  MaxPackets   \* bound: packets sent on every connection, with the handshake

ASSUME SessionsAssumption ==
  /\ IsFiniteSet(Conn)
  /\ Owner \in [Conn -> User]
  /\ Nobody \notin User \cup {Garbage}
  /\ MaxClients \in Nat \ {0}
  /\ MaxFd \in Nat
  /\ MaxPackets \in [Conn -> Nat]
  /\ 0 \notin Conn

VARIABLES
  server,   \* "up" or "down": exit(1) has been called
  client,   \* the client's end of a connection: "idle", "open", "closed"
  sent,     \* packets sent
  unread,   \* those the server has not read
  fds,      \* the connection every descriptor is open for, 0 if it is closed
  args,     \* thread_args.connfd
  userid,   \* of every slot
  sock,     \* of every slot
  state,    \* of every slot
  client_count,
  pc, resume, connfd, client_slot, sockfd,  \* the threads
  blame     \* history: what has gone wrong between threads

clientVars == <<client, sent, unread>>
slotVars == <<userid, sock, state, client_count>>
threadVars == <<pc, resume, connfd, client_slot, sockfd>>
vars == <<server, clientVars, fds, args, slotVars, threadVars, blame>>

Slot == 1..MaxClients
Fd == 1..MaxFd
Closing == {"unsock", "unstate"}
InLoop == {"loop", "state", "read", "body"} \cup Closing
LoggedIn == InLoop \cup {"end"}

Init ==
  /\ server = "up"
  /\ client = [k \in Conn |-> "idle"]
  /\ sent = [k \in Conn |-> 0]
  /\ unread = [k \in Conn |-> 0]
  /\ fds = [n \in Fd |-> 0]
  /\ args = 0
  /\ userid = [i \in Slot |-> Nobody]
  /\ sock = [i \in Slot |-> 0]
  /\ state = [i \in Slot |-> "DEADCLIENT"]
  /\ client_count = 0
  /\ pc = [t \in Conn |-> "none"]
  /\ resume = [t \in Conn |-> "none"]
  /\ connfd = [t \in Conn |-> 0]
  /\ client_slot = [t \in Conn |-> 0]
  /\ sockfd = [t \in Conn |-> 0]
  /\ blame = {}

-----------------------------------------------------------------------------
(* Clients. *)

Connect(k) ==
  /\ server = "up"
  /\ client[k] = "idle"
  /\ client' = [client EXCEPT ![k] = "open"]
  /\ UNCHANGED <<server, sent, unread, fds, args, slotVars, threadVars, blame>>

\* Any Writen of the client: the login message first, then the packets and the
\* files of its cycles.  Bound: one packet under way.
Send(k) ==
  /\ server = "up"
  /\ client[k] = "open"
  /\ sent[k] < MaxPackets[k]
  /\ unread[k] = 0
  /\ sent' = [sent EXCEPT ![k] = @ + 1]
  /\ unread' = [unread EXCEPT ![k] = @ + 1]
  /\ UNCHANGED <<server, client, fds, args, slotVars, threadVars, blame>>

Leave(k) ==
  /\ server = "up"
  /\ client[k] = "open"
  /\ client' = [client EXCEPT ![k] = "closed"]
  /\ UNCHANGED <<server, sent, unread, fds, args, slotVars, threadVars, blame>>

-----------------------------------------------------------------------------
(* The accept loop of main. *)

Lowest(n) == fds[n] = 0 /\ \A m \in 1..(n - 1) : fds[m] # 0

Accepts(k) ==
  /\ server = "up"
  /\ client[k] # "idle"
  /\ pc[k] = "none"

\* main has one thread_args, which every new thread reads when it starts.
Accept(k, n) ==
  /\ Accepts(k)
  /\ Lowest(n)
  /\ fds' = [fds EXCEPT ![n] = k]
  /\ args' = n
  /\ pc' = [pc EXCEPT ![k] = "args"]
  /\ UNCHANGED <<server, clientVars, slotVars, resume, connfd, client_slot,
                 sockfd, blame>>

\* pthread_create fails and the connection is closed again.
AcceptNoThread(k, n) ==
  /\ Accepts(k)
  /\ Lowest(n)
  /\ args' = n
  /\ pc' = [pc EXCEPT ![k] = "over"]
  /\ UNCHANGED <<server, clientVars, fds, slotVars, resume, connfd,
                 client_slot, sockfd, blame>>

Exit ==
  /\ server' = "down"
  /\ UNCHANGED <<clientVars, fds, args, slotVars, threadVars, blame>>

AcceptFails(k) == Accepts(k) /\ (\A n \in Fd : fds[n] # 0) /\ Exit

-----------------------------------------------------------------------------
(* startConsThread. *)

At(t, position) == server = "up" /\ pc[t] = position
Goto(t, position) == pc' = [pc EXCEPT ![t] = position]

\* Local variables are 0 before they are set and after their last use.
BackToLoop(t) == Goto(t, "loop") /\ sockfd' = [sockfd EXCEPT ![t] = 0]

\* The connection a descriptor is open for, 0 when there is none.
Peer(n) == IF n = 0 THEN 0 ELSE fds[n]

\* read has a packet, or only the end of the connection or an error.
Packet(k) == k # 0 /\ unread[k] > 0
NoPacket(k) == k # 0 => client[k] = "closed"
Consume(k) == unread' = [unread EXCEPT ![k] = @ - 1]

Accuse(what, happened) == blame' = blame \cup {w \in {what} : happened}

\* client_mutex is held across steps by a request that closes its connection.
MutexFree == \A s \in Conn : pc[s] \in Closing => resume[s] # "loop"

ReadArgs(t) ==
  /\ At(t, "args")
  /\ connfd' = [connfd EXCEPT ![t] = args]
  /\ Accuse("args", Peer(args) # t)
  /\ Goto(t, "login")
  /\ UNCHANGED <<server, clientVars, fds, args, slotVars, resume, client_slot,
                 sockfd>>

Handshake(k) == IF unread[k] = sent[k] THEN Owner[k] ELSE Garbage

\* Mutant: only the empty slots are looked at.
SlotOfEmpty(user, i) ==
  /\ userid[i] = Nobody
  /\ \A j \in 1..(i - 1) : userid[j] # Nobody

\* add_client: the first slot that has the user's name or is empty.
SlotOf(user, i) ==
  /\ userid[i] \in {user, Nobody}
  /\ \A j \in 1..(i - 1) : userid[j] \notin {user, Nobody}

\* Some thread has the slot.
Taken(i) == \E s \in Conn : pc[s] \in LoggedIn /\ client_slot[s] = i

\* Mutant: the session is not counted.
LoginUncounted(t) ==
  LET k == Peer(connfd[t]) IN
  /\ At(t, "login")
  /\ Packet(k)
  /\ MutexFree
  /\ \E i \in Slot :
       /\ SlotOf(Handshake(k), i)
       /\ userid' = [userid EXCEPT ![i] = Handshake(k)]
       /\ sock' = [sock EXCEPT ![i] = connfd[t]]
       /\ state' = [state EXCEPT ![i] = "SYNC"]
       /\ client_slot' = [client_slot EXCEPT ![t] = i]
       /\ Accuse("relogin", Taken(i))
  /\ Consume(k)
  /\ Goto(t, "loop")
  /\ connfd' = [connfd EXCEPT ![t] = 0]
  /\ UNCHANGED <<server, client, sent, fds, args, client_count, resume,
                 sockfd>>

Login(t) ==
  LET k == Peer(connfd[t]) IN
  /\ At(t, "login")
  /\ Packet(k)
  /\ MutexFree
  /\ \E i \in Slot :
       /\ SlotOf(Handshake(k), i)
       /\ userid' = [userid EXCEPT ![i] = Handshake(k)]
       /\ sock' = [sock EXCEPT ![i] = connfd[t]]
       /\ state' = [state EXCEPT ![i] = "SYNC"]
       /\ client_slot' = [client_slot EXCEPT ![t] = i]
       /\ Accuse("relogin", Taken(i))
  /\ client_count' = client_count + 1
  /\ Consume(k)
  /\ Goto(t, "loop")
  /\ connfd' = [connfd EXCEPT ![t] = 0]
  /\ UNCHANGED <<server, client, sent, fds, args, resume, sockfd>>

\* No handshake, or no slot for it.
LoginFails(t) ==
  LET k == Peer(connfd[t]) IN
  /\ At(t, "login")
  /\ \/ NoPacket(k)
     \/ Packet(k) /\ MutexFree /\ \A i \in Slot : ~ SlotOf(Handshake(k), i)
  /\ Exit

\* The head of the loop, and the branches on the state that the slot has by
\* then; the loop starts again when it is neither SYNC nor GETFILE.
Loop(t) ==
  /\ At(t, "loop")
  /\ sockfd' = [sockfd EXCEPT ![t] = sock[client_slot[t]]]
  /\ Goto(t, IF sock[client_slot[t]] = 0 THEN "end" ELSE "state")
  /\ UNCHANGED <<server, clientVars, fds, args, slotVars, resume, connfd,
                 client_slot, blame>>

Branch(t) ==
  /\ At(t, "state")
  /\ CASE state[client_slot[t]] = "SYNC" -> Goto(t, "read") /\ UNCHANGED sockfd
       [] state[client_slot[t]] = "GETFILE" -> Goto(t, "body") /\ UNCHANGED sockfd
       [] OTHER -> BackToLoop(t)
  /\ UNCHANGED <<server, clientVars, fds, args, slotVars, resume, connfd,
                 client_slot, blame>>

SetState(t, value) == state' = [state EXCEPT ![client_slot[t]] = value]

\* Mutant: the session is counted out here as well.
CloseConnectionCounts(t, position) ==
  /\ fds[sockfd[t]] # 0
  /\ fds' = [fds EXCEPT ![sockfd[t]] = 0]
  /\ client_count' = client_count - 1
  /\ Accuse("reclose", fds[sockfd[t]] # t)
  /\ Goto(t, "unsock")
  /\ resume' = [resume EXCEPT ![t] = position]
  /\ UNCHANGED <<server, args, userid, sock, state, connfd, client_slot>>

\* Mutant: only the slot is marked.
CloseConnectionKeeps(t, position) ==
  /\ fds[sockfd[t]] # 0
  /\ Accuse("reclose", fds[sockfd[t]] # t)
  /\ Goto(t, "unsock")
  /\ resume' = [resume EXCEPT ![t] = position]
  /\ UNCHANGED <<server, fds, args, slotVars, connfd, client_slot>>

\* Mutant: the slot is not marked.
CloseConnectionBare(t, position) ==
  /\ fds[sockfd[t]] # 0
  /\ fds' = [fds EXCEPT ![sockfd[t]] = 0]
  /\ Accuse("reclose", fds[sockfd[t]] # t)
  /\ Goto(t, position)
  /\ UNCHANGED <<server, args, slotVars, resume, connfd, client_slot>>

\* close_connection is called and will return to position: Close, which ends
\* the process if the descriptor is closed, and two stores into the slot.
CloseConnection(t, position) ==
  /\ fds[sockfd[t]] # 0
  /\ fds' = [fds EXCEPT ![sockfd[t]] = 0]
  /\ Accuse("reclose", fds[sockfd[t]] # t)
  /\ Goto(t, "unsock")
  /\ resume' = [resume EXCEPT ![t] = position]
  /\ UNCHANGED <<server, args, slotVars, connfd, client_slot>>

ClearSock(t) ==
  /\ At(t, "unsock")
  /\ sock' = [sock EXCEPT ![client_slot[t]] = 0]
  /\ Goto(t, "unstate")
  /\ UNCHANGED <<server, clientVars, fds, args, userid, state, client_count,
                 resume, connfd, client_slot, sockfd, blame>>

ClearState(t) ==
  /\ At(t, "unstate")
  /\ SetState(t, "DEADCLIENT")
  /\ Goto(t, resume[t])
  /\ resume' = [resume EXCEPT ![t] = "none"]
  /\ UNCHANGED <<server, clientVars, fds, args, userid, sock, client_count,
                 connfd, client_slot, sockfd, blame>>

\* A request is answered, with or without a file, or the bytes of one are
\* asked for.
Handle(t) ==
  LET k == Peer(sockfd[t]) IN
  /\ At(t, "read")
  /\ Packet(k)
  /\ MutexFree
  /\ Consume(k)
  /\ SetState(t, "SYNC") \/ SetState(t, "GETFILE") \/ UNCHANGED state
  /\ BackToLoop(t)
  /\ UNCHANGED <<server, client, sent, fds, args, userid, sock, client_count,
                 resume, connfd, client_slot, blame>>

\* The request is for more than MAXFILES files.
Refuse(t) ==
  LET k == Peer(sockfd[t]) IN
  /\ At(t, "read")
  /\ Packet(k)
  /\ MutexFree
  /\ Consume(k)
  /\ CloseConnection(t, "loop")
  /\ sockfd' = [sockfd EXCEPT ![t] = 0]
  /\ UNCHANGED <<client, sent>>

ReadEnds(t) ==
  /\ At(t, "read")
  /\ NoPacket(Peer(sockfd[t]))
  /\ CloseConnection(t, "end")
  /\ UNCHANGED <<clientVars, sockfd>>

GetData(t) ==
  LET k == Peer(sockfd[t]) IN
  /\ At(t, "body")
  /\ Packet(k)
  /\ Consume(k)
  /\ Accuse("stolen", k # t)
  /\ SetState(t, "SYNC")
  /\ BackToLoop(t)
  /\ UNCHANGED <<server, client, sent, fds, args, userid, sock, client_count,
                 resume, connfd, client_slot>>

\* There is no break: the loop reads the closed descriptor again, which may be
\* open for another connection by then.
GetEof(t) ==
  /\ At(t, "body")
  /\ NoPacket(Peer(sockfd[t]))
  /\ CloseConnection(t, "body")
  /\ UNCHANGED <<clientVars, sockfd>>

\* Close of a descriptor that is closed.
CloseFails(t) ==
  /\ At(t, "read") \/ At(t, "body")
  /\ fds[sockfd[t]] = 0
  /\ Exit

\* The search for sockfd among the first client_count slots, and the memmove:
\* it takes client_count - i - 1 integers from the next slot, its sock and the
\* start of its userid.  Beyond the array the search finds nothing.
Found(socks, n, i) ==
  /\ i <= client_count
  /\ socks[i] = n
  /\ \A j \in 1..(i - 1) : socks[j] # n

EndSession(t) ==
  LET socks == [sock EXCEPT ![client_slot[t]] = 0] IN
  /\ At(t, "end")
  /\ MutexFree
  /\ \/ /\ \A i \in Slot : ~ Found(socks, sockfd[t], i)
        /\ sock' = socks
        /\ UNCHANGED userid
     \/ \E i \in Slot :
          /\ Found(socks, sockfd[t], i)
          /\ sock' = IF client_count > i /\ i < MaxClients
                     THEN [socks EXCEPT ![i] = socks[i + 1]]
                     ELSE socks
          /\ userid' = IF client_count > i + 1 /\ i < MaxClients
                       THEN [userid EXCEPT ![i] = userid[i + 1]]
                       ELSE userid
  /\ Accuse("memmove", sock' # socks \/ userid' # userid)
  /\ client_count' = client_count - 1
  /\ Goto(t, "close")
  /\ client_slot' = [client_slot EXCEPT ![t] = 0]
  /\ UNCHANGED <<server, clientVars, fds, args, state, resume, connfd, sockfd>>

\* close(sockfd), after close_connection has closed it.
CloseAgain(t) ==
  /\ At(t, "close")
  /\ fds' = [n \in Fd |-> IF n = sockfd[t] THEN 0 ELSE fds[n]]
  /\ Accuse("reclose", fds' # fds)
  /\ Goto(t, "over")
  /\ sockfd' = [sockfd EXCEPT ![t] = 0]
  /\ UNCHANGED <<server, clientVars, args, slotVars, resume, connfd,
                 client_slot>>

Main ==
  \/ \E k \in Conn, n \in Fd : Accept(k, n) \/ AcceptNoThread(k, n)
  \/ \E k \in Conn : AcceptFails(k)

Thread(t) ==
  \/ ReadArgs(t) \/ Login(t) \/ LoginFails(t) \/ Loop(t) \/ Branch(t)
  \/ ClearSock(t) \/ ClearState(t)
  \/ Handle(t) \/ Refuse(t) \/ ReadEnds(t) \/ GetData(t) \/ GetEof(t)
  \/ CloseFails(t) \/ EndSession(t) \/ CloseAgain(t)

Client(k) == Connect(k) \/ Send(k) \/ Leave(k)

Next == Main \/ \E k \in Conn : Thread(k) \/ Client(k)

Spec == Init /\ [][Next]_vars

-----------------------------------------------------------------------------
(* Properties. *)

\* The type of the state.
TypeOK ==
  /\ server \in {"up", "down"}
  /\ client \in [Conn -> {"idle", "open", "closed"}]
  /\ sent \in [Conn -> Nat]
  /\ unread \in [Conn -> Nat]
  /\ fds \in [Fd -> Conn \cup {0}]
  /\ args \in Fd \cup {0}
  /\ userid \in [Slot -> User \cup {Nobody, Garbage}]
  /\ sock \in [Slot -> Fd \cup {0}]
  /\ state \in [Slot -> {"SYNC", "GETFILE", "DEADCLIENT"}]
  /\ client_count \in Nat
  /\ pc \in [Conn -> LoggedIn \cup {"none", "args", "login", "close", "over"}]
  /\ resume \in [Conn -> {"none", "loop", "body", "end"}]
  /\ connfd \in [Conn -> Fd \cup {0}]
  /\ client_slot \in [Conn -> Slot \cup {0}]
  /\ sockfd \in [Conn -> Fd \cup {0}]
  /\ blame \subseteq {"args", "relogin", "reclose", "stolen", "memmove"}

\* A thread serves the connection it was created for, through a slot that is
\* its user's, unless it started late ("args"), a user logged in twice
\* ("relogin"), a descriptor was closed twice ("reclose"), a session that lost
\* its client in the middle of a file went on reading ("stolen"), or the end of
\* a session hit the slot of a live one ("memmove").
Serves(t) ==
  /\ sockfd[t] \in Fd
  /\ fds[sockfd[t]] = t
  /\ sock[client_slot[t]] = sockfd[t]
  /\ userid[client_slot[t]] = Owner[t]
OwnConnection ==
  blame = {} =>
    \A t \in Conn : /\ pc[t] = "login" => Peer(connfd[t]) = t
                    /\ pc[t] = "read" => Serves(t)

\* client_count is the number of sessions that are logged in, whatever went
\* wrong between threads.
CountIsSessions ==
  client_count = Cardinality({t \in Conn : pc[t] \in LoggedIn})

\* add_client finds the slot of a user who comes back: a user has one slot
\* unless memmove copied the start of a slot over another one.
OneSlotPerUser ==
  "memmove" \notin blame =>
    \A i, j \in Slot : userid[i] = userid[j] /\ userid[i] # Nobody => i = j

\* A session that has ended has closed its descriptor: the server does not run
\* out of descriptors as long as nothing went wrong.
Freed(k) == \A n \in Fd : fds[n] # k
DescriptorsFreed ==
  blame = {} => \A t \in Conn : pc[t] \in {"close", "over"} => Freed(t)

\* "Client disconnected" (dbserver.c:150): when a session finds no socket in its
\* slot, its client is gone or the server has closed the connection; also when
\* every thread started in time, no user logged in twice and no descriptor was
\* closed twice.
Disconnected ==
  blame \subseteq {"memmove"} =>
    \A t \in Conn :
      pc[t] = "end" /\ sockfd[t] = 0 => client[t] = "closed" \/ Freed(t)
=============================================================================
