------------------------------ MODULE EchoProofs ------------------------------
(***************************************************************************)
(* Proofs about EchoServer: for any number of connections, entries and     *)
(* descriptors.                                                            *)
(***************************************************************************)
EXTENDS EchoServer, TLAPS, FiniteSetTheorems

\* The threads that client_count counts, and the one that is about to start.
Members == {t \in Conn : pc[t] \in Serving}
Coming == IF listener = "start" THEN 1 ELSE 0

\* A connection is in the hands of start_server.
InHand == listener \in {"check", "add", "start"}

TInv ==
  /\ TypeOK
  /\ InHand => accepted \in Conn /\ client_socket \in Fd /\ pc[accepted] = "none"
  /\ listener \in {"select", "accept"} => accepted = 0
  /\ listener = "add" => client_count < MAX_CLIENTS
  /\ \A t \in Conn : pc[t] = "start" => arg[t] \in Index
  /\ client_count = Cardinality(Members) + Coming

\* A connection has at most one descriptor, and none before it is accepted.
Separate ==
  /\ \A n, m \in Fd : fds[n] = fds[m] /\ fds[n] # 0 => n = m
  /\ \A n \in Fd : fds[n] # 0 => pc[fds[n]] # "none" \/ accepted = fds[n]

Listed(t) == pc[t] \in Serving \/ (listener = "start" /\ accepted = t)

\* What a thread knows of its connection.
Holding(t) ==
  /\ pc[t] = "start" => /\ arg[t] <= client_count
                        /\ clients[arg[t]] \in Fd
                        /\ fds[clients[arg[t]]] = t
  /\ pc[t] \in {"recv", "send", "remove", "close"} =>
       socket[t] \in Fd /\ fds[socket[t]] = t

\* The entries below client_count are the descriptors of the connections that
\* are served, each once.
Array ==
  /\ \A t \in Conn : Holding(t)
  /\ InHand => fds[client_socket] = accepted
  /\ listener = "start" => client_count >= 1 /\ clients[client_count] = client_socket
  /\ \A i \in 1..client_count :
       clients[i] \in Fd /\ fds[clients[i]] # 0 /\ Listed(fds[clients[i]])
  /\ \A i, j \in 1..client_count : clients[i] = clients[j] => i = j
  /\ \A n \in Fd : fds[n] # 0 /\ Listed(fds[n]) =>
                     \E i \in 1..client_count : clients[i] = n

IInv == TInv /\ Separate /\ (~ moved => Array)

-----------------------------------------------------------------------------
(* Types, and client_count. *)

LEMMA MembersFinite ==
  IsFiniteSet(Members) /\ Cardinality(Members) \in Nat
<1>1. Members \subseteq Conn
  BY DEF Members
<1> QED
  BY <1>1, EchoAssumption, FS_Subset, FS_CardinalityType

\* A step in which no thread is started and none leaves.
LEMMA MembersKept ==
  ASSUME client_count = Cardinality(Members) + Coming, UNCHANGED client_count,
         (listener' = "start") <=> (listener = "start"),
         \A t \in Conn : pc'[t] \in Serving <=> pc[t] \in Serving
  PROVE  client_count' = Cardinality(Members') + Coming'
<1>1. Members' = Members
  BY DEF Members
<1> QED
  BY <1>1 DEF Coming

LEMMA TInvInit ==
  Init => TInv
<1> SUFFICES ASSUME Init
             PROVE  TInv
  OBVIOUS
<1>1. Members = {}
  BY DEF Init, Members, Serving
<1>2. Cardinality(Members) = 0
  BY <1>1, FS_EmptySet
<1>3. client_count = Cardinality(Members) + Coming
  BY <1>2 DEF Init, Coming
<1>4. reply \in [Conn -> BOOLEAN] /\ moved \in BOOLEAN
  BY Zenon DEF Init
<1>5. client_count \in 0..MAX_CLIENTS
  BY EchoAssumption DEF Init
<1>6. TypeOK
  BY <1>4, <1>5 DEF Init, TypeOK
<1> QED
  BY <1>3, <1>6 DEF Init, TInv, InHand

LEMMA TInvClient ==
  ASSUME TInv, NEW k \in Conn, Listens(k) \/ User(k)
  PROVE  TInv'
<1> USE DEF Becomes, ClientOnly, arrayVars, mainVars, threadVars
<1>1. UNCHANGED <<server, fds, arrayVars, mainVars, threadVars, moved>>
  BY DEF Listens, User, Hear, HearNothing, Connect, Say, SayNothing, SayExit, Leave
<1>2. /\ client' \in [Conn -> {"idle", "ask", "wait", "closed"}]
      /\ toServer' \in [Conn -> {"none", "message", "exit"}]
      /\ reply' \in [Conn -> BOOLEAN]
  BY DEF TInv, TypeOK, Listens, User, Hear, HearNothing, Connect, Say, SayNothing,
     SayExit, Leave
<1>3. TypeOK'
  BY <1>1, <1>2 DEF TInv, TypeOK
<1> QED
  BY <1>1, <1>3, MembersKept DEF TInv, InHand

\* The steps of start_server that start no thread.
LEMMA TInvListener ==
  ASSUME TInv,
         \/ Select \/ SelectFails \/ AcceptFails \/ RoomLeft \/ Reject
         \/ StartFails \/ \E k \in Conn, n \in Fd : Accept(k, n)
  PROVE  TInv'
<1> USE DEF MainAt, MainOnly, clientVars, arrayVars, mainVars, threadVars, TInv,
        TypeOK, InHand
<1>1. CASE SelectFails \/ AcceptFails \/ StartFails
  BY <1>1, MembersKept DEF SelectFails, AcceptFails, StartFails, Exit
<1>2. CASE Select
  BY <1>2, MembersKept DEF Select
<1>3. CASE RoomLeft
  BY <1>3, MembersKept DEF RoomLeft
<1>4. CASE Reject
  <2>1. /\ accepted \in Conn /\ pc[accepted] = "none"
        /\ pc' = [pc EXCEPT ![accepted] = "over"]
        /\ listener = "check" /\ listener' = "select"
        /\ fds' = [fds EXCEPT ![client_socket] = 0]
    BY <1>4 DEF Reject
  <2>2. \A t \in Conn : pc'[t] \in Serving <=> pc[t] \in Serving
    BY <2>1 DEF Serving
  <2>3. TypeOK'
    BY <1>4, <2>1 DEF Reject
  <2>4. client_count' = Cardinality(Members') + Coming'
    BY <1>4, <2>1, <2>2, MembersKept DEF Reject
  <2> QED
    BY <1>4, <2>1, <2>3, <2>4 DEF Reject
<1>5. ASSUME NEW k \in Conn, NEW n \in Fd, Accept(k, n)
      PROVE  TInv'
  BY <1>5, MembersKept DEF Accept, Pending
<1> QED
  BY <1>1, <1>2, <1>3, <1>4, <1>5

LEMMA TInvAdd ==
  ASSUME TInv, Add
  PROVE  TInv'
<1> USE DEF Add, MainAt, MainOnly, clientVars, arrayVars, TInv, TypeOK, InHand,
        threadVars
<1>1. client_count + 1 \in Index /\ client_count' \in 0..MAX_CLIENTS
  BY EchoAssumption DEF Index
<1>2. clients' \in [Index -> Fd \cup {0}]
  BY <1>1
<1>3. Members' = Members
  BY DEF Members
<1>4. client_count' = Cardinality(Members') + Coming'
  BY <1>3, MembersFinite DEF Coming
<1> QED
  BY <1>1, <1>2, <1>4

LEMMA TInvStart ==
  ASSUME TInv, Start
  PROVE  TInv'
<1> USE DEF Start, MainAt, MainOnly, clientVars, arrayVars, TInv, TypeOK, InHand
<1>1. /\ accepted \in Conn /\ pc[accepted] = "none"
      /\ pc' = [pc EXCEPT ![accepted] = "start"]
  OBVIOUS
<1>2. accepted \notin Members /\ Members' = Members \cup {accepted}
  BY <1>1 DEF Members, Serving
<1>3. Cardinality(Members') = Cardinality(Members) + 1
  BY <1>2, MembersFinite, FS_AddElement
<1>4. client_count' = Cardinality(Members') + Coming'
  BY <1>3, MembersFinite DEF Coming
<1>5. client_count \in Index
  BY MembersFinite, EchoAssumption DEF Coming, Index
<1>6. arg' \in [Conn -> Index \cup {0}] /\ \A t \in Conn : pc'[t] = "start" => arg'[t] \in Index
  BY <1>1, <1>5
<1>7. pc' \in [Conn -> Serving \cup {"none", "close", "over"}] /\ readfds' \subseteq Fd
  BY <1>1 DEF Serving
<1> QED
  BY <1>4, <1>6, <1>7

LEMMA TInvRemove ==
  ASSUME TInv, NEW t \in Conn, Remove(t)
  PROVE  TInv'
<1> USE DEF Remove, At, Goto, clientVars, mainVars, TInv, TypeOK, InHand
<1>1. pc[t] = "remove" /\ pc' = [pc EXCEPT ![t] = "close"]
  OBVIOUS
<1>2. t \in Members /\ Members' = Members \ {t}
  BY <1>1 DEF Members, Serving
<1>3. Cardinality(Members') = Cardinality(Members) - 1 /\ Cardinality(Members') \in Nat
  BY <1>2, MembersFinite, FS_RemoveElement, FS_Subset, FS_CardinalityType
<1>4. client_count' = Cardinality(Members') + Coming'
  BY <1>3, MembersFinite DEF Coming
<1>5. client_count' \in 0..MAX_CLIENTS /\ client_count' < client_count
  BY <1>3, <1>4, EchoAssumption DEF Coming
<1>6. clients' \in [Index -> Fd \cup {0}]
  <2>1. \A j \in Index : j < client_count => j + 1 \in Index
    BY EchoAssumption DEF Index
  <2>2. ASSUME NEW i, MoveDown(i)
        PROVE  clients' \in [Index -> Fd \cup {0}]
    BY <2>1, <2>2 DEF MoveDown
  <2> QED
    BY <2>2
<1>7. moved' \in BOOLEAN
  OBVIOUS
<1>8. \A s \in Conn : pc'[s] = "start" => pc[s] = "start"
  BY <1>1
<1>9. InHand => accepted # t
  BY <1>1
<1>10. InHand' => accepted' \in Conn /\ client_socket' \in Fd /\ pc'[accepted'] = "none"
  BY <1>1, <1>9
<1>11. TypeOK'
  BY <1>1, <1>5, <1>6, <1>7 DEF Serving
<1>12. listener' = "add" => client_count' < MAX_CLIENTS
  BY <1>5, EchoAssumption
<1> QED
  BY <1>4, <1>8, <1>10, <1>11, <1>12

\* The other steps of a thread.
LEMMA TInvThread ==
  ASSUME TInv, NEW t \in Conn,
         ReadArg(t) \/ Recv(t) \/ Send(t) \/ RecvEnds(t) \/ Close(t)
  PROVE  TInv'
<1> USE DEF At, Goto, clientVars, arrayVars, mainVars, TInv, TypeOK, Serving
<1>1. /\ pc[t] # "none" /\ pc'[t] \notin {"none", "start"}
      /\ \A s \in Conn \ {t} : pc'[s] = pc[s]
      /\ UNCHANGED <<listener, accepted, client_socket, client_count>>
  BY DEF ReadArg, Recv, Send, RecvEnds, Close
<1>2. \A s \in Conn : pc'[s] \in Serving <=> pc[s] \in Serving
  BY DEF ReadArg, Recv, Send, RecvEnds, Close
<1>3. \A s \in Conn \ {t} : arg'[s] = arg[s]
  BY DEF ReadArg, Recv, Send, RecvEnds, Close
<1>4. TypeOK'
  <2>1. CASE ReadArg(t)
    BY <2>1 DEF ReadArg
  <2>2. CASE Recv(t)
    BY <2>2 DEF Recv
  <2>3. CASE Send(t)
    BY <2>3 DEF Send
  <2>4. CASE RecvEnds(t)
    BY <2>4 DEF RecvEnds
  <2>5. CASE Close(t)
    BY <2>5 DEF Close
  <2> QED
    BY <2>1, <2>2, <2>3, <2>4, <2>5
<1>5. client_count' = Cardinality(Members') + Coming'
  BY <1>1, <1>2, MembersKept
<1> QED
  BY <1>1, <1>3, <1>4, <1>5 DEF InHand

LEMMA TInvNext ==
  TInv /\ [Next]_vars => TInv'
<1>1. TInv /\ UNCHANGED vars => TInv'
  BY MembersKept DEF TInv, TypeOK, InHand, vars, clientVars, arrayVars, mainVars,
     threadVars
<1> QED
  BY <1>1, TInvClient, TInvListener, TInvAdd, TInvStart, TInvRemove, TInvThread
     DEF Next, Main, Thread

LEMMA TInvAlways ==
  Spec => []TInv
BY TInvInit, TInvNext, PTL DEF Spec

\* The state of the echo server keeps its type: client_count stays between 0
\* and MAX_CLIENTS although start_server reads it without the mutex.
THEOREM EchoTypeCorrect ==
  Spec => []TypeOK
<1>1. TInv => TypeOK
  BY DEF TInv
<1> QED
  BY <1>1, TInvAlways, PTL

\* client_count is the number of threads that have not left, whatever entries
\* were moved under them.
THEOREM CountIsRight ==
  Spec => []CountIsThreads
<1>1. TInv => CountIsThreads
  BY DEF TInv, CountIsThreads, Members, Coming
<1> QED
  BY <1>1, TInvAlways, PTL
-----------------------------------------------------------------------------
(* Descriptors. *)

\* A step that opens no descriptor.
LEMMA SeparateKept ==
  ASSUME TInv, Separate,
         \A n \in Fd : fds'[n] \in {fds[n], 0},
         \A t \in Conn : pc[t] # "none" => pc'[t] # "none",
         \A t \in Conn : accepted = t => accepted' = t \/ pc'[t] # "none"
  PROVE  Separate'
<1>1. \A n \in Fd : fds[n] # 0 => fds[n] \in Conn
  BY DEF TInv, TypeOK
<1> QED
  BY <1>1 DEF Separate

LEMMA SeparateAccept ==
  ASSUME TInv, Separate, NEW k \in Conn, NEW n \in Fd, Accept(k, n)
  PROVE  Separate'
<1>1. /\ pc[k] = "none" /\ accepted # k /\ fds' = [fds EXCEPT ![n] = k]
      /\ accepted' = k /\ pc' = pc /\ accepted = 0 /\ fds[n] = 0
  BY DEF Accept, Pending, Lowest, MainAt, threadVars, TInv
<1>2. \A m \in Fd : fds[m] # k
  BY <1>1, EchoAssumption DEF Separate
<1> QED
  BY <1>1, <1>2 DEF Separate, TInv, TypeOK

LEMMA SeparateNext ==
  TInv /\ Separate /\ [Next]_vars => Separate'
<1> SUFFICES ASSUME TInv, Separate, [Next]_vars
             PROVE  Separate'
  OBVIOUS
<1> USE DEF TInv, TypeOK, clientVars, arrayVars, mainVars, threadVars
<1>1. ASSUME NEW k \in Conn, Listens(k) \/ User(k)
      PROVE  Separate'
  <2>1. UNCHANGED <<fds, pc, accepted>>
    BY <1>1 DEF Listens, User, Hear, HearNothing, Connect, Say, SayNothing, SayExit,
       Leave, ClientOnly
  <2> QED
    BY <2>1, SeparateKept
<1>2. CASE UNCHANGED vars
  BY <1>2, SeparateKept DEF vars
<1>3. CASE Select \/ SelectFails \/ AcceptFails \/ RoomLeft \/ Add \/ StartFails
  <2>1. UNCHANGED <<fds, pc, accepted>>
    BY <1>3 DEF Select, SelectFails, AcceptFails, RoomLeft, Add, StartFails, Exit
  <2> QED
    BY <2>1, SeparateKept
<1>4. CASE Reject
  <2>1. /\ fds' = [fds EXCEPT ![client_socket] = 0]
        /\ pc' = [pc EXCEPT ![accepted] = "over"]
    BY <1>4 DEF Reject
  <2> QED
    BY <2>1, SeparateKept
<1>5. CASE Start
  <2>1. UNCHANGED fds /\ pc' = [pc EXCEPT ![accepted] = "start"]
    BY <1>5 DEF Start
  <2> QED
    BY <2>1, SeparateKept
<1>6. ASSUME NEW t \in Conn, Thread(t)
      PROVE  Separate'
  <2>1. /\ \A n \in Fd : fds'[n] \in {fds[n], 0}
        /\ \A s \in Conn : pc[s] # "none" => pc'[s] # "none"
        /\ UNCHANGED accepted
    BY <1>6 DEF Thread, ReadArg, Recv, Send, RecvEnds, Remove, Close, Goto
  <2> QED
    BY <2>1, SeparateKept
<1> QED
  BY <1>1, <1>2, <1>3, <1>4, <1>5, <1>6, SeparateAccept DEF Next, Main

-----------------------------------------------------------------------------
(* The array. *)

\* A step that leaves the array, the descriptors and who is served alone.
LEMMA ArrayKept ==
  ASSUME TInv, Array,
         UNCHANGED <<fds, clients, client_count, client_socket, accepted>>,
         (listener' = "start") <=> (listener = "start"), InHand' => InHand,
         \A t \in Conn : pc'[t] \in Serving <=> pc[t] \in Serving,
         \A t \in Conn : Holding(t)'
  PROVE  Array'
<1>1. \A n \in Fd : fds[n] # 0 => fds[n] \in Conn
  BY DEF TInv, TypeOK
<1>2. \A n \in Fd : fds[n] # 0 => (Listed(fds[n])' <=> Listed(fds[n]))
  BY <1>1 DEF Listed
<1>3. \A i \in 1..client_count : clients[i] \in Fd
  BY DEF Array
<1> QED
  BY <1>2, <1>3 DEF Array

LEMMA ArrayIdle ==
  ASSUME TInv, Array,
         UNCHANGED <<fds, clients, client_count, client_socket, accepted, pc, arg, socket>>,
         (listener' = "start") <=> (listener = "start"), InHand' => InHand
  PROVE  Array'
<1>1. \A t \in Conn : Holding(t)'
  BY DEF Array, Holding
<1> QED
  BY <1>1, ArrayKept

LEMMA ArrayAccept ==
  ASSUME TInv, Array, NEW k \in Conn, NEW n \in Fd, Accept(k, n)
  PROVE  Array'
<1> USE DEF MainAt, arrayVars, threadVars, TInv, TypeOK
<1>1. /\ pc[k] = "none" /\ fds[n] = 0 /\ fds' = [fds EXCEPT ![n] = k]
      /\ accepted' = k /\ client_socket' = n
      /\ listener = "accept" /\ listener' = "check"
      /\ UNCHANGED <<clients, client_count, pc, arg, socket>>
  BY DEF Accept, Pending, Lowest
<1>2. \A m \in Fd \ {n} : fds'[m] = fds[m]
  BY <1>1
<1>3. fds'[n] = k
  BY <1>1
<1>4. \A t \in Conn : Listed(t)' <=> Listed(t)
  BY <1>1 DEF Listed
<1>5. ~ Listed(k)
  BY <1>1 DEF Listed, Serving
<1>6. \A t \in Conn : Holding(t)'
  BY <1>1, <1>2, EchoAssumption DEF Array, Holding
<1>7. \A i \in 1..client_count :
        clients[i] \in Fd /\ fds'[clients[i]] # 0 /\ Listed(fds[clients[i]])'
  BY <1>1, <1>2, <1>4 DEF Array
<1>8. \A m \in Fd : fds'[m] # 0 /\ Listed(fds[m])' =>
                      \E i \in 1..client_count : clients[i] = m
  BY <1>1, <1>2, <1>3, <1>4, <1>5 DEF Array
<1> QED
  BY <1>1, <1>3, <1>6, <1>7, <1>8 DEF Array, InHand

LEMMA ArrayReject ==
  ASSUME TInv, Array, Reject
  PROVE  Array'
<1> USE DEF MainAt, arrayVars, TInv, TypeOK
<1>1. /\ accepted \in Conn /\ pc[accepted] = "none"
      /\ client_socket \in Fd /\ fds[client_socket] = accepted
      /\ fds' = [fds EXCEPT ![client_socket] = 0]
      /\ pc' = [pc EXCEPT ![accepted] = "over"]
      /\ listener = "check" /\ listener' = "select"
      /\ UNCHANGED <<clients, client_count, arg, socket>>
  BY DEF Reject, Array, InHand
<1>2. \A m \in Fd \ {client_socket} : fds'[m] = fds[m]
  BY <1>1
<1>3. \A t \in Conn : Listed(t)' <=> Listed(t)
  BY <1>1 DEF Listed, Serving
<1>4. ~ Listed(accepted)
  BY <1>1 DEF Listed, Serving
<1>5. \A t \in Conn : Holding(t)'
  BY <1>1, <1>2 DEF Array, Holding
<1>6. \A i \in 1..client_count :
        clients[i] \in Fd /\ fds'[clients[i]] # 0 /\ Listed(fds[clients[i]])'
  BY <1>1, <1>2, <1>3, <1>4 DEF Array
<1>7. \A m \in Fd : fds'[m] # 0 /\ Listed(fds[m])' =>
                      \E i \in 1..client_count : clients[i] = m
  BY <1>1, <1>2, <1>3 DEF Array
<1> QED
  BY <1>1, <1>5, <1>6, <1>7 DEF Array, InHand

LEMMA ArrayAdd ==
  ASSUME TInv, Separate, Array, Add
  PROVE  Array'
<1> USE DEF MainAt, threadVars, TInv, TypeOK
<1>1. /\ accepted \in Conn /\ pc[accepted] = "none"
      /\ client_socket \in Fd /\ fds[client_socket] = accepted
      /\ clients' = [clients EXCEPT ![client_count + 1] = client_socket]
      /\ client_count' = client_count + 1
      /\ client_count < MAX_CLIENTS
      /\ listener = "add" /\ listener' = "start"
      /\ UNCHANGED <<fds, pc, arg, socket, accepted, client_socket>>
  BY DEF Add, Array, InHand
<1>2. client_count + 1 \in Index /\ client_count \in Nat /\ 1..client_count \subseteq Index
  BY <1>1, EchoAssumption DEF Index
<1>3. /\ \A i \in 1..client_count : clients'[i] = clients[i]
      /\ clients'[client_count + 1] = client_socket
  BY <1>1, <1>2
<1>4. \A t \in Conn : Listed(t)' <=> Listed(t) \/ t = accepted
  BY <1>1 DEF Listed
<1>5. \A i \in 1..client_count : clients[i] # client_socket
  BY <1>1 DEF Array, Listed, Serving
<1>6. \A t \in Conn : Holding(t)'
  <2>1. \A t \in Conn : pc[t] = "start" => arg[t] \in 1..client_count
    BY <1>2 DEF Array, Holding, Index
  <2> QED
    BY <1>1, <1>2, <1>3, <2>1 DEF Array, Holding
<1>7. \A i \in 1..client_count' :
        clients'[i] \in Fd /\ fds[clients'[i]] # 0 /\ Listed(fds[clients[i]])'
  <2>1. \A i \in 1..client_count' : i \in 1..client_count \/ i = client_count + 1
    BY <1>1, <1>2
  <2> QED
    BY <1>1, <1>2, <1>3, <1>4, <2>1, EchoAssumption DEF Array
<1>8. \A i, j \in 1..client_count' : clients'[i] = clients'[j] => i = j
  <2>1. \A i \in 1..client_count' : i \in 1..client_count \/ i = client_count + 1
    BY <1>1, <1>2
  <2> QED
    BY <1>3, <1>5, <2>1 DEF Array
<1>9. \A m \in Fd : fds[m] # 0 /\ Listed(fds[m])' =>
                      \E i \in 1..client_count' : clients'[i] = m
  <2>1. ASSUME NEW m \in Fd, fds[m] # 0, Listed(fds[m])
        PROVE  \E i \in 1..client_count' : clients'[i] = m
    <3>1. PICK i \in 1..client_count : clients[i] = m
      BY <2>1 DEF Array
    <3>2. i \in 1..client_count' /\ clients'[i] = m
      BY <1>1, <1>2, <1>3, <3>1
    <3> QED
      BY <3>2
  <2>2. ASSUME NEW m \in Fd, fds[m] = accepted
        PROVE  \E i \in 1..client_count' : clients'[i] = m
    <3>1. m = client_socket
      BY <1>1, <2>2, EchoAssumption DEF Separate
    <3>2. client_count + 1 \in 1..client_count'
      BY <1>1, <1>2
    <3> QED
      BY <1>3, <3>1, <3>2
  <2> QED
    BY <1>1, <1>4, <2>1, <2>2
<1>10. client_count' >= 1 /\ clients'[client_count'] = client_socket'
  BY <1>1, <1>2, <1>3
<1> QED
  BY <1>1, <1>6, <1>7, <1>8, <1>9, <1>10 DEF Array

LEMMA ArrayStart ==
  ASSUME TInv, Array, Start
  PROVE  Array'
<1> USE DEF MainAt, arrayVars, TInv, TypeOK
<1>1. /\ accepted \in Conn /\ pc[accepted] = "none"
      /\ client_socket \in Fd /\ fds[client_socket] = accepted
      /\ clients[client_count] = client_socket
      /\ pc' = [pc EXCEPT ![accepted] = "start"]
      /\ arg' = [arg EXCEPT ![accepted] = client_count]
      /\ listener = "start" /\ listener' = "select"
      /\ UNCHANGED <<fds, clients, client_count, socket>>
  BY DEF Start, Array, InHand
<1>2. \A t \in Conn : Listed(t)' <=> Listed(t)
  BY <1>1 DEF Listed, Serving
<1>3. \A t \in Conn : Holding(t)'
  BY <1>1 DEF Array, Holding
<1>4. \A n \in Fd : fds[n] # 0 => (Listed(fds[n])' <=> Listed(fds[n]))
  BY <1>1, <1>2
<1> QED
  BY <1>1, <1>3, <1>4 DEF Array, InHand

LEMMA ArrayThread ==
  ASSUME TInv, Array, NEW t \in Conn, ReadArg(t) \/ Recv(t) \/ Send(t) \/ RecvEnds(t)
  PROVE  Array'
<1> USE DEF At, Goto, arrayVars, mainVars, TInv, TypeOK
<1>1. UNCHANGED <<fds, clients, client_count, listener, client_socket, accepted>>
  BY DEF ReadArg, Recv, Send, RecvEnds
<1>2. \A s \in Conn : pc'[s] \in Serving <=> pc[s] \in Serving
  BY DEF ReadArg, Recv, Send, RecvEnds, Serving
<1>3. \A s \in Conn \ {t} : pc'[s] = pc[s] /\ arg'[s] = arg[s] /\ socket'[s] = socket[s]
  BY DEF ReadArg, Recv, Send, RecvEnds
<1>4. \A s \in Conn \ {t} : Holding(s)'
  BY <1>1, <1>3 DEF Array, Holding
<1>5. Holding(t)'
  <2>1. /\ pc'[t] \in {"recv", "send", "remove"}
        /\ \/ pc[t] = "start" /\ socket'[t] = clients[arg[t]]
           \/ pc[t] \in {"recv", "send"} /\ socket'[t] = socket[t]
    BY DEF ReadArg, Recv, Send, RecvEnds
  <2> QED
    BY <1>1, <2>1 DEF Array, Holding
<1> QED
  BY <1>1, <1>2, <1>4, <1>5, ArrayKept DEF InHand

LEMMA ArrayClose ==
  ASSUME TInv, Separate, Array, NEW t \in Conn, Close(t)
  PROVE  Array'
<1> USE DEF At, Goto, arrayVars, mainVars, TInv, TypeOK
<1>1. /\ pc[t] = "close" /\ socket[t] \in Fd /\ fds[socket[t]] = t
      /\ fds' = [n \in Fd |-> IF n = socket[t] THEN 0 ELSE fds[n]]
      /\ socket' = [socket EXCEPT ![t] = 0]
      /\ pc' = [pc EXCEPT ![t] = "over"]
      /\ UNCHANGED <<clients, client_count, listener, client_socket, accepted, arg>>
  BY DEF Close, Array, Holding
<1>2. \A m \in Fd : fds'[m] = IF fds[m] = t THEN 0 ELSE fds[m]
  BY <1>1, EchoAssumption DEF Separate
<1>3. ~ Listed(t) /\ (InHand => accepted # t)
  BY <1>1 DEF Listed, Serving, InHand
<1>4. \A s \in Conn : Listed(s)' <=> Listed(s)
  BY <1>1 DEF Listed, Serving
<1>5. \A s \in Conn : Holding(s)'
  BY <1>1, <1>2 DEF Array, Holding
<1>6. \A i \in 1..client_count :
        clients[i] \in Fd /\ fds'[clients[i]] # 0 /\ Listed(fds[clients[i]])'
  <2>1. ASSUME NEW i \in 1..client_count
        PROVE  clients[i] \in Fd /\ fds'[clients[i]] = fds[clients[i]]
    BY <1>2, <1>3, <2>1 DEF Array
  <2> QED
    BY <1>1, <1>4, <2>1 DEF Array
<1>7. \A m \in Fd : fds'[m] # 0 /\ Listed(fds[m])' =>
                      \E i \in 1..client_count : clients[i] = m
  BY <1>2, <1>4 DEF Array
<1>8. InHand' => fds'[client_socket'] = accepted'
  BY <1>1, <1>2, <1>3 DEF Array, InHand
<1>9. listener' = "start" => client_count' >= 1 /\ clients'[client_count'] = client_socket'
  BY <1>1 DEF Array
<1> QED
  BY <1>1, <1>5, <1>6, <1>7, <1>8, <1>9 DEF Array

\* The entry of the thread is found, and those behind it move down by one.
LEMMA ArrayRemove ==
  ASSUME TInv, Separate, Array, NEW t \in Conn, Remove(t), ~ moved'
  PROVE  Array'
<1> USE DEF At, Goto, mainVars, TInv, TypeOK
<1>1. /\ pc[t] = "remove" /\ socket[t] \in Fd /\ fds[socket[t]] = t
      /\ pc' = [pc EXCEPT ![t] = "close"]
      /\ client_count' = client_count - 1
      /\ UNCHANGED <<fds, listener, accepted, client_socket, arg, socket>>
  BY DEF Remove, Array, Holding
<1>2. client_count \in Nat /\ 1..client_count \subseteq Index
  BY EchoAssumption DEF Index
<1>3. PICK i \in 1..client_count : clients[i] = socket[t]
  BY <1>1, EchoAssumption DEF Array, Listed, Serving
<1>4. Found(t, i) /\ \A j \in Index : Found(t, j) => j = i
  <2>1. \A j \in 1..client_count : clients[j] = socket[t] => j = i
    BY <1>3 DEF Array
  <2>2. Found(t, i)
    BY <1>2, <1>3, <2>1 DEF Found
  <2>3. \A j \in Index : j <= client_count => j \in 1..client_count
    BY <1>2 DEF Index
  <2> QED
    BY <2>1, <2>2, <2>3 DEF Found
<1>5. /\ MoveDown(i)
      /\ \A s \in Conn : pc[s] = "start" => ~ (arg[s] > i)
  BY <1>2, <1>3, <1>4 DEF Remove
<1>6. \A j \in 1..client_count' :
        /\ j \in 1..client_count /\ j + 1 \in 1..client_count
        /\ clients'[j] = IF i <= j THEN clients[j + 1] ELSE clients[j]
  BY <1>1, <1>2, <1>5 DEF MoveDown
<1>7. \A s \in Conn \ {t} : /\ pc'[s] = pc[s]
                            /\ Listed(s)' <=> Listed(s)
  BY <1>1 DEF Listed
<1>8. \A n \in Fd : fds[n] = t => n = socket[t]
  BY <1>1, EchoAssumption DEF Separate
<1>9. \A s \in Conn : Holding(s)'
  <2>1. Holding(t)'
    BY <1>1 DEF Holding
  <2>2. ASSUME NEW s \in Conn \ {t}, pc[s] = "start"
        PROVE  /\ arg[s] <= client_count'
               /\ clients'[arg[s]] \in Fd
               /\ fds[clients'[arg[s]]] = s
    <3>1. arg[s] \in Index /\ arg[s] <= client_count /\ clients[arg[s]] \in Fd
          /\ fds[clients[arg[s]]] = s
      BY <2>2 DEF Array, Holding
    <3>2. arg[s] # i
      BY <1>1, <1>3, <3>1
    <3>3. arg[s] < i /\ arg[s] \in 1..client_count'
      BY <1>1, <1>2, <1>3, <1>5, <2>2, <3>1, <3>2 DEF Index
    <3> QED
      BY <1>2, <1>6, <3>1, <3>3
  <2> QED
    BY <1>1, <1>7, <2>1, <2>2 DEF Array, Holding
<1>10. \A j \in 1..client_count' :
         clients'[j] \in Fd /\ fds[clients'[j]] # 0 /\ Listed(fds[clients[j]])'
  <2>1. ASSUME NEW j \in 1..client_count'
        PROVE  \E k \in 1..client_count : k # i /\ clients'[j] = clients[k]
    BY <1>2, <1>6
  <2>2. ASSUME NEW k \in 1..client_count, k # i
        PROVE  clients[k] \in Fd /\ fds[clients[k]] \in Conn \ {t}
               /\ Listed(fds[clients[k]])
    <3>1. clients[k] # socket[t]
      BY <1>3, <2>2 DEF Array
    <3> QED
      BY <1>8, <2>2, <3>1 DEF Array
  <2> QED
    BY <1>1, <1>7, <2>1, <2>2, EchoAssumption
<1>11. \A j, k \in 1..client_count' : clients'[j] = clients'[k] => j = k
  <2>1. SUFFICES ASSUME NEW j \in 1..client_count', NEW k \in 1..client_count', j < k
                 PROVE  clients'[j] # clients'[k]
    BY <1>1, <1>2
  <2>2. \A a, b \in 1..client_count : a < b => clients[a] # clients[b]
    BY <1>2 DEF Array
  <2> QED
    BY <1>2, <1>6, <2>1, <2>2
<1>12. \A n \in Fd : fds[n] # 0 /\ Listed(fds[n])' =>
                       \E j \in 1..client_count' : clients'[j] = n
  <2>1. SUFFICES ASSUME NEW n \in Fd, NEW s \in Conn, fds[n] = s, Listed(s)'
                 PROVE  \E j \in 1..client_count' : clients'[j] = n
    BY <1>1 DEF Listed
  <2>2. s # t /\ Listed(s)
    <3>1. ~ Listed(t)'
      BY <1>1 DEF Listed, Serving, InHand
    <3> QED
      BY <1>7, <2>1, <3>1
  <2>3. PICK k \in 1..client_count : clients[k] = n
    BY <2>1, <2>2, EchoAssumption DEF Array
  <2>4. k # i
    BY <1>1, <1>3, <2>1, <2>2, <2>3
  <2>5. CASE k < i
    <3>1. k \in 1..client_count'
      BY <1>1, <1>2, <1>3, <2>5
    <3> QED
      BY <1>2, <1>3, <1>6, <2>3, <2>5, <3>1
  <2>6. CASE k > i
    <3>1. k - 1 \in 1..client_count' /\ i <= k - 1 /\ (k - 1) + 1 = k
      BY <1>1, <1>2, <1>3, <2>6
    <3>2. clients'[k - 1] = n
      BY <1>6, <2>3, <3>1
    <3> QED
      BY <3>1, <3>2
  <2> QED
    BY <1>2, <1>3, <2>4, <2>5, <2>6
<1>13. listener' = "start" => client_count' >= 1 /\ clients'[client_count'] = client_socket'
  <2>1. SUFFICES ASSUME listener = "start"
                 PROVE  client_count' >= 1 /\ clients'[client_count'] = client_socket
    BY <1>1
  <2>2. /\ client_count >= 1 /\ clients[client_count] = client_socket
        /\ fds[client_socket] = accepted /\ accepted \in Conn
        /\ pc[accepted] = "none"
    BY <2>1 DEF Array, InHand
  <2>3. i < client_count
    BY <1>1, <1>2, <1>3, <2>2
  <2>4. client_count' \in 1..client_count' /\ client_count' + 1 = client_count
        /\ i <= client_count' /\ client_count' >= 1
    BY <1>1, <1>2, <1>3, <2>3
  <2> QED
    BY <1>6, <2>2, <2>4
<1>14. InHand' => fds'[client_socket'] = accepted'
  BY <1>1 DEF Array, InHand
<1> QED
  BY <1>1, <1>9, <1>10, <1>11, <1>12, <1>13, <1>14 DEF Array

\* What has moved has moved.
LEMMA MovedStays ==
  ASSUME TInv, [Next]_vars
  PROVE  moved => moved'
<1>1. CASE UNCHANGED vars \/ Main
  BY <1>1 DEF vars, Main, MainOnly, Select, SelectFails, AcceptFails, RoomLeft,
     Reject, Add, Start, StartFails, Accept, Exit
<1>2. ASSUME NEW k \in Conn, Listens(k) \/ User(k)
      PROVE  moved' = moved
  BY <1>2 DEF Listens, User, Hear, HearNothing, Connect, Say, SayNothing, SayExit,
     Leave, ClientOnly
<1>3. ASSUME NEW t \in Conn, Thread(t)
      PROVE  moved => moved'
  BY <1>3 DEF Thread, ReadArg, Recv, Send, RecvEnds, Remove, Close
<1> QED
  BY <1>1, <1>2, <1>3 DEF Next

LEMMA ArrayNext ==
  ASSUME TInv, Separate, Array, [Next]_vars, ~ moved'
  PROVE  Array'
<1> USE DEF InHand, arrayVars, mainVars, threadVars, MainAt
<1>1. ASSUME NEW k \in Conn, Listens(k) \/ User(k)
      PROVE  Array'
  <2>1. UNCHANGED <<fds, arrayVars, mainVars, threadVars>>
    BY <1>1 DEF Listens, User, Hear, HearNothing, Connect, Say, SayNothing, SayExit,
       Leave, ClientOnly
  <2> QED
    BY <2>1, ArrayIdle
<1>2. CASE UNCHANGED vars
  BY <1>2, ArrayIdle DEF vars
<1>3. CASE Select \/ SelectFails \/ AcceptFails \/ RoomLeft \/ StartFails
  BY <1>3, ArrayIdle DEF Select, SelectFails, AcceptFails, RoomLeft, StartFails, Exit
<1> QED
  BY <1>1, <1>2, <1>3, ArrayAccept, ArrayReject, ArrayAdd, ArrayStart, ArrayThread,
     ArrayClose, ArrayRemove DEF Next, Main, Thread

LEMMA IInvInit ==
  Init => IInv
<1> SUFFICES ASSUME Init
             PROVE  IInv
  OBVIOUS
<1>1. Separate
  BY DEF Init, Separate
<1>2. \A t \in Conn : Holding(t)
  BY DEF Init, Holding
<1>3. Array
  BY <1>2, EchoAssumption DEF Init, Array, InHand
<1> QED
  BY <1>1, <1>3, TInvInit DEF IInv

LEMMA IInvAlways ==
  Spec => []IInv
<1>1. IInv /\ [Next]_vars => IInv'
  BY TInvNext, SeparateNext, MovedStays, ArrayNext DEF IInv
<1> QED
  BY <1>1, IInvInit, PTL DEF Spec

\* A thread serves the connection it was started for until it ends, unless an
\* entry was moved before its thread had read it.
THEOREM ThreadsServeTheirOwn ==
  Spec => []OwnSocket
<1>1. IInv => OwnSocket
  <2>1. SUFFICES ASSUME IInv, ~ moved, NEW t \in Conn,
                        pc[t] \in {"recv", "send", "remove", "close"}
                 PROVE  Peer(socket[t]) = t
    BY DEF OwnSocket
  <2>2. socket[t] \in Fd /\ fds[socket[t]] = t
    BY <2>1 DEF IInv, Array, Holding
  <2>3. socket[t] # 0
    BY <2>2, EchoAssumption DEF Fd
  <2> QED
    BY <2>2, <2>3 DEF Peer
<1> QED
  BY <1>1, IInvAlways, PTL

\* The entries below client_count are exactly the descriptors of the connections
\* that are served, with the same exception.
THEOREM ArrayIsRight ==
  Spec => []ArrayIsServed
<1>1. IInv => ArrayIsServed
  <2>1. SUFFICES ASSUME IInv, ~ moved, NEW n \in Fd
                 PROVE  (\E i \in 1..client_count : clients[i] = n)
                          <=> fds[n] # 0 /\ Listed(fds[n])
    <3>1. IInv => \A m \in Fd : fds[m] # 0 => fds[m] \in Conn
      BY DEF IInv, TInv, TypeOK
    <3> QED
      BY <2>1, <3>1, EchoAssumption DEF ArrayIsServed, Listed
  <2> QED
    BY <2>1 DEF IInv, Array
<1> QED
  BY <1>1, IInvAlways, PTL
=============================================================================
