---------------------------- MODULE SessionsProofs ----------------------------
(***************************************************************************)
(* Proofs about Sessions: for any number of connections, users, slots and  *)
(* descriptors.                                                            *)
(***************************************************************************)
EXTENDS Sessions, TLAPS, FiniteSetTheorems

\* The threads that client_count counts.
Members == {t \in Conn : pc[t] \in LoggedIn}

TInv ==
  /\ TypeOK
  /\ \A t \in Conn : pc[t] \in LoggedIn => client_slot[t] \in Slot
  /\ \A t \in Conn : pc[t] \in Closing => resume[t] # "none"
  /\ client_count = Cardinality(Members)

-----------------------------------------------------------------------------
(* Types, and client_count. *)

LEMMA MembersFinite ==
  IsFiniteSet(Members) /\ Cardinality(Members) \in Nat
<1>1. Members \subseteq Conn
  BY DEF Members
<1> QED
  BY <1>1, SessionsAssumption, FS_Subset, FS_CardinalityType

LEMMA TInvInit ==
  Init => TInv
<1> SUFFICES ASSUME Init
             PROVE  TInv
  OBVIOUS
<1>1. Members = {}
  BY DEF Init, Members, LoggedIn, InLoop, Closing
<1>2. client_count = Cardinality(Members)
  BY <1>1, FS_EmptySet DEF Init
<1>3. \A t \in Conn : pc[t] \notin LoggedIn
  BY DEF Init, LoggedIn, InLoop, Closing
<1>4. TypeOK
  BY SessionsAssumption DEF Init, TypeOK
<1> QED
  BY <1>2, <1>3, <1>4 DEF TInv, LoggedIn, InLoop

\* A step in which no thread begins or ends its session.
LEMMA MembersKept ==
  ASSUME client_count = Cardinality(Members), UNCHANGED client_count,
         \A t \in Conn : pc'[t] \in LoggedIn <=> pc[t] \in LoggedIn
  PROVE  client_count' = Cardinality(Members')
<1>1. Members' = Members
  BY DEF Members
<1> QED
  BY <1>1

LEMMA TInvClient ==
  ASSUME TInv, NEW k \in Conn, Client(k)
  PROVE  TInv'
<1> USE DEF TInv, TypeOK, slotVars, threadVars
<1>1. CASE Connect(k)
  BY <1>1, MembersKept DEF Connect
<1>2. CASE Leave(k)
  BY <1>2, MembersKept DEF Leave
<1>3. CASE Send(k)
  <2>1. sent' \in [Conn -> Nat] /\ unread' \in [Conn -> Nat]
    BY <1>3 DEF Send
  <2> QED
    BY <1>3, <2>1, MembersKept DEF Send
<1> QED
  BY <1>1, <1>2, <1>3 DEF Client

LEMMA TInvMain ==
  ASSUME TInv, Main
  PROVE  TInv'
<1> USE DEF clientVars, slotVars, threadVars
<1>1. ASSUME NEW k \in Conn, NEW n \in Fd, Accept(k, n) \/ AcceptNoThread(k, n)
      PROVE  TInv'
  <2>1. /\ pc[k] = "none"
        /\ pc' = [pc EXCEPT ![k] = "args"] \/ pc' = [pc EXCEPT ![k] = "over"]
        /\ UNCHANGED <<client_slot, client_count, resume>>
    BY <1>1 DEF Accept, AcceptNoThread, Accepts
  <2>2. TypeOK'
    <3>1. CASE Accept(k, n)
      BY <3>1 DEF Accept, TInv, TypeOK
    <3>2. CASE AcceptNoThread(k, n)
      BY <3>2 DEF AcceptNoThread, TInv, TypeOK
    <3> QED
      BY <1>1, <3>1, <3>2
  <2>3. \A t \in Conn : pc'[t] \in LoggedIn <=> pc[t] \in LoggedIn
    BY <2>1 DEF TInv, TypeOK, LoggedIn, InLoop, Closing
  <2>4. \A t \in Conn : pc'[t] \in Closing => pc[t] \in Closing
    BY <2>1 DEF TInv, TypeOK, LoggedIn, InLoop, Closing
  <2> QED
    <3>1. client_count' = Cardinality(Members')
      BY <2>1, <2>3, MembersKept DEF TInv
    <3> QED
      BY <2>1, <2>2, <2>3, <2>4, <3>1 DEF TInv
<1>2. ASSUME NEW k \in Conn, AcceptFails(k)
      PROVE  TInv'
  BY <1>2, MembersKept DEF AcceptFails, Exit, TInv, TypeOK
<1> QED
  BY <1>1, <1>2 DEF Main

\* The steps of a thread between its login and the end of its session.
LEMMA TInvLoop ==
  ASSUME TInv, NEW t \in Conn,
         \/ ReadArgs(t) \/ LoginFails(t) \/ Loop(t) \/ Branch(t)
         \/ Handle(t) \/ Refuse(t) \/ ReadEnds(t) \/ GetData(t) \/ GetEof(t)
         \/ ClearSock(t) \/ ClearState(t) \/ CloseFails(t) \/ CloseAgain(t)
  PROVE  TInv'
<1> USE DEF clientVars, slotVars, threadVars, At, Goto, BackToLoop, Accuse,
        SetState, TInv, TypeOK, LoggedIn, InLoop, Closing
<1>1. CASE ReadArgs(t)
  BY <1>1, MembersKept DEF ReadArgs
<1>2. CASE LoginFails(t) \/ CloseFails(t)
  BY <1>2, MembersKept DEF LoginFails, CloseFails, Exit
<1>3. CASE Loop(t)
  BY <1>3, MembersKept DEF Loop
<1>4. ASSUME NEW k \in Conn, Packet(k), Consume(k)
      PROVE  unread' \in [Conn -> Nat]
  BY <1>4, SessionsAssumption DEF Packet, Consume
<1>5. \A n : Packet(Peer(n)) => n # 0
  BY DEF Peer, Packet
<1>6. CASE Handle(t)
  <2>1. Peer(sockfd[t]) \in Conn
    BY <1>6, <1>5 DEF Handle, Peer, Packet
  <2> QED
    BY <1>4, <1>6, <2>1, MembersKept DEF Handle
<1>7. CASE Refuse(t)
  <2>1. Peer(sockfd[t]) \in Conn
    BY <1>7, <1>5 DEF Refuse, Peer, Packet
  <2> QED
    BY <1>4, <1>7, <2>1, MembersKept DEF Refuse, CloseConnection
<1>8. CASE ReadEnds(t)
  BY <1>8, MembersKept DEF ReadEnds, CloseConnection
<1>9. CASE GetData(t)
  <2>1. Peer(sockfd[t]) \in Conn
    BY <1>9, <1>5 DEF GetData, Peer, Packet
  <2> QED
    BY <1>4, <1>9, <2>1, MembersKept DEF GetData
<1>10. CASE GetEof(t)
  BY <1>10, MembersKept DEF GetEof, CloseConnection
<1>11. CASE CloseAgain(t)
  BY <1>11, MembersKept DEF CloseAgain
<1>12. CASE Branch(t)
  BY <1>12, MembersKept DEF Branch
<1>13. CASE ClearSock(t)
  BY <1>13, MembersKept DEF ClearSock
<1>14. CASE ClearState(t)
  BY <1>14, MembersKept DEF ClearState
<1> QED
  BY <1>1, <1>2, <1>3, <1>6, <1>7, <1>8, <1>9, <1>10, <1>11, <1>12, <1>13,
     <1>14

LEMMA TInvLogin ==
  ASSUME TInv, NEW t \in Conn, Login(t)
  PROVE  TInv'
<1> USE DEF TypeOK, LoggedIn, InLoop, Closing
<1>1. /\ pc[t] = "login" /\ pc' = [pc EXCEPT ![t] = "loop"]
      /\ client_count' = client_count + 1
  BY DEF Login, At, Goto
<1>2. PICK i \in Slot :
        /\ userid' = [userid EXCEPT ![i] = Handshake(Peer(connfd[t]))]
        /\ sock' = [sock EXCEPT ![i] = connfd[t]]
        /\ state' = [state EXCEPT ![i] = "SYNC"]
        /\ client_slot' = [client_slot EXCEPT ![t] = i]
        /\ Accuse("relogin", Taken(i))
  BY DEF Login
<1>3. Peer(connfd[t]) \in Conn
  BY DEF Login, Peer, Packet, TInv
<1>4. Handshake(Peer(connfd[t])) \in User \cup {Garbage}
  BY <1>3, SessionsAssumption DEF Handshake
<1>5. unread' \in [Conn -> Nat]
  BY <1>3, SessionsAssumption DEF Login, Packet, Consume, TInv
<1>6. t \notin Members /\ Members' = Members \cup {t}
  BY <1>1 DEF Members, TInv
<1>7. Cardinality(Members') = Cardinality(Members) + 1
  BY <1>6, MembersFinite, FS_AddElement
<1>8. TypeOK'
  <2>1. blame' \subseteq {"args", "relogin", "reclose", "stolen", "memmove"}
    BY <1>2 DEF Accuse, TInv
  <2>2. /\ userid' \in [Slot -> User \cup {Nobody, Garbage}]
        /\ sock' \in [Slot -> Fd \cup {0}]
        /\ state' \in [Slot -> {"SYNC", "GETFILE", "DEADCLIENT"}]
        /\ client_slot' \in [Conn -> Slot \cup {0}]
    BY <1>2, <1>4 DEF TInv
  <2>3. client_count' \in Nat
    BY <1>1 DEF TInv
  <2> QED
    BY <1>1, <1>5, <2>1, <2>2, <2>3 DEF Login, Goto, TInv
<1>9. /\ \A s \in Conn : pc'[s] \in LoggedIn => client_slot'[s] \in Slot
      /\ \A s \in Conn : pc'[s] \in Closing => resume'[s] # "none"
  BY <1>1, <1>2 DEF Login, TInv
<1> QED
  BY <1>1, <1>7, <1>8, <1>9 DEF TInv

LEMMA TInvEndSession ==
  ASSUME TInv, NEW t \in Conn, EndSession(t)
  PROVE  TInv'
<1> USE DEF TypeOK, LoggedIn, InLoop, Closing
<1>1. /\ pc[t] = "end" /\ pc' = [pc EXCEPT ![t] = "close"]
      /\ client_count' = client_count - 1
      /\ client_slot' = [client_slot EXCEPT ![t] = 0]
  BY DEF EndSession, At, Goto
<1>2. t \in Members /\ Members' = Members \ {t}
  BY <1>1 DEF Members, TInv
<1>3. /\ Cardinality(Members') = Cardinality(Members) - 1
      /\ Cardinality(Members') \in Nat
  <2>1. IsFiniteSet(Members')
    BY <1>2, MembersFinite, FS_Subset
  <2> QED
    BY <1>2, <2>1, MembersFinite, FS_RemoveElement, FS_CardinalityType
<1>4. sock' \in [Slot -> Fd \cup {0}] /\ userid' \in [Slot -> User \cup {Nobody, Garbage}]
  <2> DEFINE socks == [sock EXCEPT ![client_slot[t]] = 0]
  <2>1. socks \in [Slot -> Fd \cup {0}]
    BY DEF TInv
  <2>2. \A i \in Slot : i < MaxClients => i + 1 \in Slot
    BY SessionsAssumption DEF Slot
  <2> HIDE DEF socks
  <2>3. \/ sock' = socks /\ userid' = userid
        \/ \E i \in Slot :
             /\ sock' = socks \/ (i + 1 \in Slot /\ sock' = [socks EXCEPT ![i] = socks[i + 1]])
             /\ userid' = userid
                \/ (i + 1 \in Slot /\ userid' = [userid EXCEPT ![i] = userid[i + 1]])
    BY <2>2 DEF EndSession, socks
  <2> QED
    BY <2>1, <2>3 DEF TInv
<1>5. TypeOK'
  <2>1. pc' \in [Conn -> LoggedIn \cup {"none", "args", "login", "close", "over"}]
    BY <1>1 DEF TInv
  <2>2. client_count' \in Nat /\ client_slot' \in [Conn -> Slot \cup {0}]
    BY <1>1, <1>3 DEF TInv
  <2>3. blame' \subseteq {"args", "relogin", "reclose", "stolen", "memmove"}
    BY DEF EndSession, Accuse, TInv
  <2>4. UNCHANGED <<server, clientVars, fds, args, state, resume, connfd, sockfd>>
    BY DEF EndSession
  <2> QED
    BY <1>4, <2>1, <2>2, <2>3, <2>4 DEF clientVars, TInv
<1>6. \A s \in Conn : pc'[s] \in Closing => resume'[s] # "none"
  BY <1>1 DEF EndSession, TInv
<1> QED
  BY <1>1, <1>3, <1>5, <1>6 DEF TInv

LEMMA TInvNext ==
  TInv /\ [Next]_vars => TInv'
<1>1. TInv /\ UNCHANGED vars => TInv'
  BY MembersKept DEF TInv, TypeOK, vars, clientVars, slotVars, threadVars
<1> QED
  BY <1>1, TInvClient, TInvMain, TInvLoop, TInvLogin, TInvEndSession
     DEF Next, Thread

LEMMA TInvAlways ==
  Spec => []TInv
BY TInvInit, TInvNext, PTL DEF Spec

\* The state of the sessions keeps its type: client_count, above all, never
\* falls below zero.
THEOREM SessionsTypeCorrect ==
  Spec => []TypeOK
<1>1. TInv => TypeOK
  BY DEF TInv
<1> QED
  BY <1>1, TInvAlways, PTL

\* client_count is the number of sessions that are logged in, whatever goes
\* wrong between threads.
THEOREM CountIsRight ==
  Spec => []CountIsSessions
<1>1. TInv => CountIsSessions
  BY DEF TInv, CountIsSessions, Members
<1> QED
  BY <1>1, TInvAlways, PTL
-----------------------------------------------------------------------------
(* A user has one slot. *)

\* Names are distinct, and there is no name after an empty slot.
OneSlot ==
  /\ \A i, j \in Slot : userid[i] = userid[j] /\ userid[i] # Nobody => i = j
  /\ \A i, j \in Slot : userid[i] = Nobody /\ i < j => userid[j] = Nobody

LEMMA OneSlotInit ==
  Init => OneSlot
BY DEF Init, OneSlot

LEMMA OneSlotKept ==
  ASSUME OneSlot, UNCHANGED userid
  PROVE  OneSlot'
BY DEF OneSlot

LEMMA OneSlotLogin ==
  ASSUME TInv, OneSlot, NEW t \in Conn, Login(t)
  PROVE  OneSlot'
<1> DEFINE name == Handshake(Peer(connfd[t]))
<1>1. PICK i \in Slot : SlotOf(name, i) /\ userid' = [userid EXCEPT ![i] = name]
  BY DEF Login
<1>2. Peer(connfd[t]) \in Conn
  BY DEF Login, Peer, Packet, TInv, TypeOK
<1>3. name # Nobody
  BY <1>2, SessionsAssumption DEF Handshake
<1>4. userid \in [Slot -> User \cup {Nobody, Garbage}]
  BY DEF TInv, TypeOK
<1> HIDE DEF name
<1>5. \A j \in Slot \ {i} : userid[j] # name
  <2>1. ASSUME NEW j \in Slot, j < i
        PROVE  userid[j] \notin {name, Nobody}
    BY <1>1, <2>1 DEF SlotOf, Slot
  <2>2. ASSUME NEW j \in Slot, i < j
        PROVE  userid[j] # name
    BY <1>1, <1>3, <2>2 DEF SlotOf, OneSlot, Slot
  <2> QED
    BY <2>1, <2>2 DEF Slot
<1>6. \A j \in Slot : j < i => userid[j] # Nobody
  BY <1>1 DEF SlotOf, Slot
<1>7. \A j, k \in Slot : userid'[j] = userid'[k] /\ userid'[j] # Nobody => j = k
  BY <1>1, <1>4, <1>5 DEF OneSlot
<1>8. \A j, k \in Slot : userid'[j] = Nobody /\ j < k => userid'[k] = Nobody
  BY <1>1, <1>3, <1>4, <1>6 DEF OneSlot, Slot
<1> QED
  BY <1>7, <1>8 DEF OneSlot

\* What has been blamed stays blamed, and memmove is when it changes a name.
LEMMA NamesKept ==
  ASSUME TInv, [Next]_vars, "memmove" \notin blame', \A t \in Conn : ~ Login(t)
  PROVE  UNCHANGED userid
<1>1. ASSUME NEW t \in Conn, EndSession(t)
      PROVE  UNCHANGED userid
  BY <1>1 DEF EndSession, Accuse
<1>2. CASE Main \/ UNCHANGED vars \/ \E k \in Conn : Client(k)
  BY <1>2 DEF Main, Accept, AcceptNoThread, AcceptFails, Exit, Client, Connect,
     Send, Leave, vars, slotVars
<1>3. ASSUME NEW t \in Conn, Thread(t), ~ EndSession(t)
      PROVE  UNCHANGED userid
  BY <1>3 DEF Thread, ReadArgs, LoginFails, Loop, Branch, Handle, Refuse,
     ReadEnds, GetData, GetEof, ClearSock, ClearState, CloseFails, CloseAgain,
     CloseConnection, Exit, slotVars
<1> QED
  BY <1>1, <1>2, <1>3 DEF Next

LEMMA BlameStays ==
  ASSUME [Next]_vars
  PROVE  blame \subseteq blame'
<1>1. CASE Main \/ UNCHANGED vars \/ \E k \in Conn : Client(k)
  BY <1>1 DEF Main, Accept, AcceptNoThread, AcceptFails, Exit, Client, Connect,
     Send, Leave, vars
<1>2. ASSUME NEW t \in Conn, Thread(t)
      PROVE  blame \subseteq blame'
  BY <1>2 DEF Thread, ReadArgs, Login, LoginFails, Loop, Branch, Handle,
     Refuse, ReadEnds, GetData, GetEof, ClearSock, ClearState, CloseFails,
     EndSession, CloseAgain, CloseConnection, Exit, Accuse
<1> QED
  BY <1>1, <1>2 DEF Next

\* Whatever else goes wrong, a user has one slot until memmove copies the start
\* of a slot over another one.
THEOREM UsersHaveOneSlot ==
  Spec => []OneSlotPerUser
<1>1. TInv /\ ("memmove" \notin blame => OneSlot) /\ [Next]_vars
        => ("memmove" \notin blame => OneSlot)'
  BY BlameStays, NamesKept, OneSlotLogin, OneSlotKept
<1>2. ("memmove" \notin blame => OneSlot) => OneSlotPerUser
  BY DEF OneSlot, OneSlotPerUser
<1> QED
  BY <1>1, <1>2, OneSlotInit, TInvAlways, PTL DEF Spec
-----------------------------------------------------------------------------
(* Sessions are separate as long as nothing is to blame. *)

Holds(t, n) == n \in Fd /\ fds[n] = t
Lost(t) == Freed(t) /\ sock[client_slot[t]] = 0

\* Where the descriptor of a thread's connection is.
Placed(t) ==
  /\ pc[t] = "none" => Freed(t)
  /\ pc[t] \in {"none", "args", "login"} => unread[t] = sent[t]
  /\ pc[t] = "login" => Holds(t, connfd[t])
  /\ pc[t] \in LoggedIn => userid[client_slot[t]] = Owner[t]
  /\ pc[t] = "loop" => Holds(t, sock[client_slot[t]]) \/ Lost(t)
  /\ pc[t] \in {"state", "read"} => Serves(t)
  /\ pc[t] = "body" => sockfd[t] \in Fd /\ (Serves(t) \/ Lost(t))
  /\ pc[t] \in Closing => /\ Freed(t)
                          /\ resume[t] = "body" => sockfd[t] \in Fd
  /\ pc[t] = "unstate" => sock[client_slot[t]] = 0
  /\ pc[t] = "end" => Lost(t)
  /\ pc[t] \in {"close", "over"} => Freed(t)

\* A connection has one descriptor, a session a slot of its own.
Separate ==
  /\ \A n, m \in Fd : fds[n] = fds[m] /\ fds[n] # 0 => n = m
  /\ \A s, t \in Conn : s # t /\ pc[s] \in LoggedIn /\ pc[t] \in LoggedIn
                          => client_slot[s] # client_slot[t]
  /\ \A t \in Conn : Placed(t)

\* A thread stays where it is when a step leaves it, its descriptor and its
\* slot alone.
LEMMA PlacedKept ==
  ASSUME NEW s \in Conn, Placed(s),
         pc'[s] = pc[s], resume'[s] = resume[s], connfd'[s] = connfd[s],
         sockfd'[s] = sockfd[s], client_slot'[s] = client_slot[s],
         (unread[s] = sent[s]) => (unread'[s] = sent'[s]),
         \A n \in Fd : fds'[n] = s <=> fds[n] = s,
         pc[s] \in LoggedIn => /\ sock'[client_slot[s]] = sock[client_slot[s]]
                               /\ userid'[client_slot[s]] = userid[client_slot[s]]
  PROVE  Placed(s)'
<1>1. Freed(s) => Freed(s)'
  BY DEF Freed
<1>2. pc[s] \in LoggedIn => (Lost(s) => Lost(s)') /\ (Serves(s) => Serves(s)')
  BY <1>1 DEF Lost, Serves
<1>3. /\ Holds(s, connfd[s]) => Holds(s, connfd[s])'
      /\ pc[s] \in LoggedIn => (Holds(s, sock[client_slot[s]])
                                  => Holds(s, sock[client_slot[s]])')
  BY DEF Holds
<1>4. /\ pc[s] = "none" => Freed(s)'
      /\ pc[s] \in {"none", "args", "login"} => unread'[s] = sent'[s]
      /\ pc[s] = "login" => Holds(s, connfd[s])'
      /\ pc[s] \in LoggedIn => userid'[client_slot[s]] = Owner[s]
  BY <1>1, <1>3 DEF Placed
<1>5. /\ pc[s] = "loop" => Holds(s, sock[client_slot[s]])' \/ Lost(s)'
      /\ pc[s] \in {"state", "read"} => Serves(s)'
      /\ pc[s] = "body" => sockfd[s] \in Fd /\ (Serves(s)' \/ Lost(s)')
      /\ pc[s] \in Closing => /\ Freed(s)'
                              /\ resume[s] = "body" => sockfd[s] \in Fd
      /\ pc[s] = "unstate" => sock'[client_slot[s]] = 0
      /\ pc[s] = "end" => Lost(s)'
      /\ pc[s] \in {"close", "over"} => Freed(s)'
  BY <1>1, <1>2, <1>3 DEF Placed, LoggedIn, InLoop, Closing
<1> QED
  BY <1>4, <1>5 DEF Placed

LEMMA SeparateInit ==
  Init => Separate
<1> SUFFICES ASSUME Init
             PROVE  Separate
  OBVIOUS
<1>1. \A t \in Conn : pc[t] = "none" /\ Freed(t) /\ unread[t] = sent[t]
  BY SessionsAssumption DEF Init, Freed
<1>2. \A t \in Conn : pc[t] \notin LoggedIn
  BY <1>1 DEF LoggedIn, InLoop, Closing
<1>3. \A t \in Conn : Placed(t)
  BY <1>1, <1>2 DEF Placed, Closing
<1> QED
  BY <1>2, <1>3 DEF Init, Separate

LEMMA SeparateClient ==
  ASSUME TInv, Separate, NEW k \in Conn, Client(k)
  PROVE  Separate'
<1>1. UNCHANGED <<fds, slotVars, threadVars>>
  BY DEF Client, Connect, Send, Leave
<1>2. \A s \in Conn : unread[s] = sent[s] => unread'[s] = sent'[s]
  BY DEF Client, Connect, Send, Leave, TInv, TypeOK
<1>3. \A s \in Conn : Placed(s)'
  BY <1>1, <1>2, PlacedKept DEF Separate, slotVars, threadVars
<1> QED
  BY <1>1, <1>3 DEF Separate, slotVars, threadVars

LEMMA SeparateMain ==
  ASSUME TInv, Separate, Main
  PROVE  Separate'
<1> USE DEF clientVars, slotVars, threadVars
<1>1. ASSUME NEW k \in Conn, NEW n \in Fd, Accept(k, n)
      PROVE  Separate'
  <2>1. /\ pc[k] = "none" /\ fds[n] = 0
        /\ fds' = [fds EXCEPT ![n] = k]
        /\ pc' = [pc EXCEPT ![k] = "args"]
        /\ UNCHANGED <<clientVars, slotVars, resume, connfd, client_slot,
                       sockfd>>
    BY <1>1 DEF Accept, Accepts, Lowest
  <2>2. Freed(k) /\ unread[k] = sent[k]
    BY <2>1 DEF Separate, Placed
  <2>3. \A i, j \in Fd : fds'[i] = fds'[j] /\ fds'[i] # 0 => i = j
    BY <2>1, <2>2 DEF TInv, TypeOK, Freed, Separate
  <2>4. pc'[k] = "args" /\ "args" \notin LoggedIn /\ \A s \in Conn \ {k} : pc'[s] = pc[s]
    BY <2>1 DEF LoggedIn, InLoop, Closing, TInv, TypeOK
  <2>5. ASSUME NEW s \in Conn \ {k}
        PROVE  Placed(s)'
    <3>1. \A m \in Fd : fds'[m] = s <=> fds[m] = s
      BY <2>1, SessionsAssumption DEF TInv, TypeOK
    <3> QED
      BY <2>1, <2>4, <3>1, PlacedKept DEF Separate
  <2>6. Placed(k)'
    BY <2>1, <2>2, <2>4 DEF Placed, Closing
  <2> QED
    BY <2>1, <2>3, <2>4, <2>5, <2>6 DEF Separate
<1>2. ASSUME NEW k \in Conn, NEW n \in Fd, AcceptNoThread(k, n)
      PROVE  Separate'
  <2>1. /\ pc[k] = "none"
        /\ pc' = [pc EXCEPT ![k] = "over"]
        /\ UNCHANGED <<clientVars, fds, slotVars, resume, connfd,
                       client_slot, sockfd>>
    BY <1>2 DEF AcceptNoThread, Accepts
  <2>2. pc'[k] = "over" /\ "over" \notin LoggedIn /\ \A s \in Conn \ {k} : pc'[s] = pc[s]
    BY <2>1 DEF LoggedIn, InLoop, Closing, TInv, TypeOK
  <2>3. \A s \in Conn \ {k} : Placed(s)'
    BY <2>1, <2>2, PlacedKept DEF Separate
  <2>4. Freed(k)'
    BY <2>1 DEF Separate, Placed, Freed
  <2>5. Placed(k)'
    BY <2>2, <2>4 DEF Placed, Closing
  <2> QED
    BY <2>1, <2>2, <2>3, <2>5 DEF Separate
<1>3. ASSUME NEW k \in Conn, AcceptFails(k)
      PROVE  Separate'
  BY <1>3, PlacedKept DEF AcceptFails, Exit, Separate
<1> QED
  BY <1>1, <1>2, <1>3 DEF Main

\* A step of t that opens no descriptor and leaves the other threads, their
\* descriptors and their slots alone.
LEMMA SeparateKept ==
  ASSUME Separate, NEW t \in Conn, Placed(t)',
         \A s \in Conn \ {t} :
           /\ pc'[s] = pc[s] /\ resume'[s] = resume[s]
           /\ connfd'[s] = connfd[s] /\ sockfd'[s] = sockfd[s]
           /\ client_slot'[s] = client_slot[s]
           /\ unread'[s] = unread[s] /\ sent'[s] = sent[s]
           /\ pc[s] \in LoggedIn =>
                /\ sock'[client_slot[s]] = sock[client_slot[s]]
                /\ userid'[client_slot[s]] = userid[client_slot[s]]
                /\ pc'[t] \in LoggedIn => client_slot'[t] # client_slot[s],
         \A n \in Fd : fds'[n] = fds[n] \/ (fds'[n] = 0 /\ fds[n] = t)
  PROVE  Separate'
<1>1. \A n, m \in Fd : fds'[n] = fds'[m] /\ fds'[n] # 0 => n = m
  BY DEF Separate
<1>2. ASSUME NEW s \in Conn \ {t}
      PROVE  Placed(s)'
  <2>1. \A n \in Fd : fds'[n] = s <=> fds[n] = s
    BY SessionsAssumption
  <2> QED
    BY <2>1, PlacedKept DEF Separate
<1>3. \A s, r \in Conn : s # r /\ pc'[s] \in LoggedIn /\ pc'[r] \in LoggedIn
                           => client_slot'[s] # client_slot'[r]
  BY DEF Separate
<1> QED
  BY <1>1, <1>2, <1>3 DEF Separate

\* Closing the descriptor of t, and what is left to do then.
LEMMA Closes ==
  ASSUME TInv, Separate, NEW t \in Conn, NEW position, fds[sockfd[t]] = t,
         sockfd[t] \in Fd, pc[t] \in LoggedIn, userid[client_slot[t]] = Owner[t],
         CloseConnection(t, position), position = "body" => sockfd' = sockfd,
         \A s \in Conn \ {t} : /\ sockfd'[s] = sockfd[s]
                               /\ unread'[s] = unread[s] /\ sent'[s] = sent[s]
  PROVE  Separate'
<1>1. /\ fds' = [fds EXCEPT ![sockfd[t]] = 0]
      /\ pc' = [pc EXCEPT ![t] = "unsock"]
      /\ resume' = [resume EXCEPT ![t] = position]
      /\ UNCHANGED <<slotVars, connfd, client_slot>>
  BY DEF CloseConnection, Goto
<1>2. \A n \in Fd : fds[n] = t => n = sockfd[t]
  BY SessionsAssumption DEF Separate
<1>3. Freed(t)'
  BY <1>1, <1>2, SessionsAssumption DEF Freed, TInv, TypeOK
<1>4. /\ pc'[t] = "unsock" /\ resume'[t] = position
      /\ \A s \in Conn \ {t} : pc'[s] = pc[s] /\ resume'[s] = resume[s]
  BY <1>1 DEF TInv, TypeOK
<1>5. Placed(t)'
  BY <1>1, <1>3, <1>4 DEF Placed, LoggedIn, InLoop, Closing, slotVars
<1>6. \A n \in Fd : fds'[n] = fds[n] \/ (fds'[n] = 0 /\ fds[n] = t)
  BY <1>1 DEF TInv, TypeOK
<1>7. \A s \in Conn \ {t} : pc[s] \in LoggedIn => client_slot[t] # client_slot[s]
  BY DEF Separate
<1> QED
  BY <1>1, <1>4, <1>5, <1>6, <1>7, SeparateKept DEF slotVars

LEMMA SeparateStart ==
  ASSUME TInv, Separate, blame' = {}, NEW t \in Conn, ReadArgs(t)
  PROVE  Separate'
<1>1. /\ pc[t] = "args" /\ pc' = [pc EXCEPT ![t] = "login"]
      /\ connfd' = [connfd EXCEPT ![t] = args]
      /\ UNCHANGED <<clientVars, fds, slotVars, resume, client_slot, sockfd>>
  BY DEF ReadArgs, At, Goto
<1>2. Peer(args) = t
  BY DEF ReadArgs, Accuse
<1>3. Holds(t, args)
  BY <1>2, SessionsAssumption DEF Peer, Holds, TInv, TypeOK
<1>4. /\ pc'[t] = "login" /\ "login" \notin LoggedIn /\ connfd'[t] = args
      /\ \A s \in Conn \ {t} : pc'[s] = pc[s] /\ connfd'[s] = connfd[s]
  BY <1>1 DEF LoggedIn, InLoop, Closing, TInv, TypeOK
<1>5. Holds(t, connfd[t])'
  BY <1>1, <1>3, <1>4 DEF Holds
<1>6. unread'[t] = sent'[t]
  BY <1>1 DEF clientVars, Separate, Placed
<1>7. Placed(t)'
  BY <1>4, <1>5, <1>6 DEF Placed, Closing
<1> QED
  BY <1>1, <1>4, <1>7, SeparateKept DEF clientVars, slotVars

LEMMA SeparateLogin ==
  ASSUME TInv, Separate, blame' = {}, NEW t \in Conn, Login(t)
  PROVE  Separate'
<1> DEFINE n == connfd[t]
<1>1. pc[t] = "login" /\ n \in Fd /\ fds[n] = t /\ unread[t] = sent[t]
  BY DEF Login, At, Separate, Placed, Holds
<1>2. n # 0 /\ Peer(n) = t
  BY <1>1 DEF Peer, Fd
<1>3. Handshake(t) = Owner[t]
  BY <1>1 DEF Handshake
<1>4. /\ pc' = [pc EXCEPT ![t] = "loop"]
      /\ connfd' = [connfd EXCEPT ![t] = 0]
      /\ unread' = [unread EXCEPT ![t] = @ - 1]
      /\ UNCHANGED <<client, sent, fds, resume, sockfd>>
  BY <1>2 DEF Login, Goto, Consume
<1>5. PICK i \in Slot :
        /\ userid' = [userid EXCEPT ![i] = Owner[t]]
        /\ sock' = [sock EXCEPT ![i] = n]
        /\ client_slot' = [client_slot EXCEPT ![t] = i]
        /\ \A s \in Conn : pc[s] \in LoggedIn => client_slot[s] # i
  BY <1>2, <1>3 DEF Login, Accuse, Taken
<1>6. /\ pc'[t] = "loop" /\ client_slot'[t] = i
      /\ userid'[i] = Owner[t] /\ sock'[i] = n
  BY <1>4, <1>5 DEF TInv, TypeOK
<1>7. Holds(t, sock[client_slot[t]])'
  BY <1>1, <1>4, <1>6 DEF Holds
<1>8. Placed(t)'
  BY <1>6, <1>7 DEF Placed, LoggedIn, InLoop, Closing
<1>9. \A s \in Conn \ {t} :
         /\ pc'[s] = pc[s] /\ connfd'[s] = connfd[s]
         /\ client_slot'[s] = client_slot[s] /\ unread'[s] = unread[s]
  BY <1>4, <1>5 DEF TInv, TypeOK
<1>10. \A s \in Conn \ {t} : pc[s] \in LoggedIn =>
         /\ sock'[client_slot[s]] = sock[client_slot[s]]
         /\ userid'[client_slot[s]] = userid[client_slot[s]]
         /\ client_slot'[t] # client_slot[s]
  BY <1>5, <1>6 DEF TInv, TypeOK
<1> QED
  BY <1>4, <1>8, <1>9, <1>10, SeparateKept

LEMMA SeparateLoop ==
  ASSUME TInv, Separate, NEW t \in Conn, Loop(t)
  PROVE  Separate'
<1> DEFINE n == sock[client_slot[t]]
<1>1. /\ pc[t] = "loop" /\ pc' = [pc EXCEPT ![t] = IF n = 0 THEN "end" ELSE "state"]
      /\ sockfd' = [sockfd EXCEPT ![t] = n]
      /\ UNCHANGED <<clientVars, fds, slotVars, resume, connfd, client_slot>>
  BY DEF Loop, At, Goto
<1>2. /\ userid[client_slot[t]] = Owner[t]
      /\ Holds(t, n) \/ Lost(t)
  BY <1>1 DEF Separate, Placed, LoggedIn, InLoop, Closing
<1>3. /\ pc'[t] = IF n = 0 THEN "end" ELSE "state"
      /\ sockfd'[t] = n
      /\ \A s \in Conn \ {t} : pc'[s] = pc[s] /\ sockfd'[s] = sockfd[s]
  BY <1>1 DEF TInv, TypeOK
<1>4. Placed(t)'
  <2>1. CASE n = 0
    <3>1. Lost(t)'
      BY <1>1, <1>2, <2>1 DEF Holds, Fd, Lost, Freed, slotVars
    <3> QED
      BY <1>1, <1>2, <1>3, <2>1, <3>1 DEF Placed, Closing, slotVars
  <2>2. CASE n # 0
    <3>1. Serves(t)'
      BY <1>1, <1>2, <1>3, <2>2 DEF Holds, Lost, Serves, slotVars
    <3> QED
      BY <1>1, <1>2, <1>3, <2>2, <3>1 DEF Placed, Closing, slotVars
  <2> QED
    BY <2>1, <2>2
<1>5. pc[t] \in LoggedIn
  BY <1>1 DEF LoggedIn, InLoop, Closing
<1> QED
  BY <1>1, <1>3, <1>4, <1>5, SeparateKept DEF clientVars, slotVars, Separate

\* The steps of t that only move it on.
LEMMA SeparateMoves ==
  ASSUME TInv, Separate, NEW t \in Conn,
         Branch(t) \/ ClearSock(t) \/ ClearState(t)
  PROVE  Separate'
<1>1. /\ pc[t] \in LoggedIn /\ client_slot[t] \in Slot
      /\ UNCHANGED <<clientVars, fds, userid, connfd, client_slot>>
      /\ userid[client_slot[t]] = Owner[t]
  BY DEF Branch, ClearSock, ClearState, At, LoggedIn, InLoop, Closing, TInv,
     slotVars, Separate, Placed
<1>2. \A s \in Conn \ {t} : pc[s] \in LoggedIn => client_slot[s] # client_slot[t]
  BY <1>1 DEF Separate
<1>3. CASE Branch(t)
  <2>1. /\ pc[t] = "state" /\ UNCHANGED <<sock, resume>>
        /\ \/ pc' = [pc EXCEPT ![t] = "read"] /\ UNCHANGED sockfd
           \/ pc' = [pc EXCEPT ![t] = "body"] /\ UNCHANGED sockfd
           \/ /\ pc' = [pc EXCEPT ![t] = "loop"]
              /\ sockfd' = [sockfd EXCEPT ![t] = 0]
    BY <1>3 DEF Branch, At, Goto, BackToLoop, slotVars
  <2>2. Serves(t)
    BY <2>1 DEF Separate, Placed
  <2>3. \A s \in Conn \ {t} : pc'[s] = pc[s] /\ sockfd'[s] = sockfd[s]
    BY <2>1 DEF TInv, TypeOK
  <2>4. \/ pc'[t] \in {"read", "body"} /\ Serves(t)' /\ sockfd'[t] \in Fd
        \/ pc'[t] = "loop" /\ Holds(t, sock[client_slot[t]])'
    BY <1>1, <2>1, <2>2 DEF Serves, Holds, TInv, TypeOK
  <2>5. Placed(t)'
    BY <1>1, <2>4 DEF Placed, LoggedIn, InLoop, Closing
  <2> QED
    BY <1>1, <1>2, <2>1, <2>3, <2>5, SeparateKept DEF clientVars
<1>4. CASE ClearSock(t)
  <2>1. /\ pc[t] = "unsock" /\ pc' = [pc EXCEPT ![t] = "unstate"]
        /\ sock' = [sock EXCEPT ![client_slot[t]] = 0]
        /\ UNCHANGED <<resume, sockfd>>
    BY <1>4 DEF ClearSock, At, Goto
  <2>2. /\ pc'[t] = "unstate" /\ sock'[client_slot[t]] = 0
        /\ \A s \in Conn \ {t} : pc'[s] = pc[s]
        /\ \A s \in Conn \ {t} : pc[s] \in LoggedIn =>
             sock'[client_slot[s]] = sock[client_slot[s]]
    BY <1>1, <1>2, <2>1 DEF TInv, TypeOK
  <2>3. Freed(t) /\ (resume[t] = "body" => sockfd[t] \in Fd)
    BY <2>1 DEF Separate, Placed, Closing
  <2>4. Placed(t)'
    BY <1>1, <2>1, <2>2, <2>3 DEF Placed, Freed, LoggedIn, InLoop, Closing
  <2> QED
    BY <1>1, <1>2, <2>1, <2>2, <2>4, SeparateKept DEF clientVars
<1>5. CASE ClearState(t)
  <2>1. /\ pc[t] = "unstate" /\ pc' = [pc EXCEPT ![t] = resume[t]]
        /\ resume' = [resume EXCEPT ![t] = "none"]
        /\ UNCHANGED <<sock, sockfd>>
    BY <1>5 DEF ClearState, At, Goto
  <2>2. resume[t] \in {"loop", "body", "end"}
    BY <2>1 DEF TInv, TypeOK, Closing
  <2>3. /\ pc'[t] = resume[t]
        /\ \A s \in Conn \ {t} : pc'[s] = pc[s] /\ resume'[s] = resume[s]
    BY <2>1 DEF TInv, TypeOK
  <2>4. Lost(t) /\ (resume[t] = "body" => sockfd[t] \in Fd)
    BY <2>1 DEF Separate, Placed, Closing, Lost
  <2>5. Lost(t)'
    BY <1>1, <2>1, <2>4 DEF Lost, Freed
  <2>6. Placed(t)'
    BY <1>1, <2>1, <2>2, <2>3, <2>4, <2>5
       DEF Placed, LoggedIn, InLoop, Closing
  <2> QED
    BY <1>1, <1>2, <2>1, <2>3, <2>6, SeparateKept DEF clientVars
<1> QED
  BY <1>3, <1>4, <1>5

\* A packet is read from the connection of t.
LEMMA SeparatePacket ==
  ASSUME TInv, Separate, blame' = {}, NEW t \in Conn,
         Handle(t) \/ Refuse(t) \/ GetData(t)
  PROVE  Separate'
<1>1. pc[t] \in {"read", "body"} /\ Packet(Peer(sockfd[t]))
  BY DEF Handle, Refuse, GetData, At
<1>2. Peer(sockfd[t]) = t /\ Serves(t)
  <2>1. CASE pc[t] = "read"
    BY <2>1, SessionsAssumption DEF Separate, Placed, Serves, Peer, Fd
  <2>2. CASE pc[t] = "body"
    <3>1. GetData(t)
      BY <2>2 DEF Handle, Refuse, GetData, At
    <3>2. Peer(sockfd[t]) = t
      BY <3>1 DEF GetData, Accuse
    <3>3. sockfd[t] \in Fd /\ fds[sockfd[t]] = t
      BY <2>2, <3>2, SessionsAssumption DEF Peer, Separate, Placed
    <3> QED
      BY <2>2, <3>2, <3>3 DEF Separate, Placed, Lost, Freed
  <2> QED
    BY <1>1, <2>1, <2>2
<1>3. /\ pc[t] \in LoggedIn
      /\ sockfd[t] \in Fd /\ fds[sockfd[t]] = t
      /\ sock[client_slot[t]] = sockfd[t]
      /\ userid[client_slot[t]] = Owner[t]
  BY <1>1, <1>2 DEF Serves, LoggedIn, InLoop
<1>4. /\ UNCHANGED sent
      /\ unread' = [unread EXCEPT ![t] = @ - 1]
      /\ sockfd' = [sockfd EXCEPT ![t] = 0]
  BY <1>2 DEF Handle, Refuse, GetData, Consume, BackToLoop
<1>5. \A s \in Conn \ {t} : unread'[s] = unread[s] /\ sockfd'[s] = sockfd[s]
  BY <1>4 DEF TInv, TypeOK
<1>6. CASE Handle(t) \/ GetData(t)
  <2>1. /\ UNCHANGED <<fds, userid, sock, resume, connfd, client_slot>>
        /\ pc' = [pc EXCEPT ![t] = "loop"]
    BY <1>6 DEF Handle, GetData, BackToLoop, Goto
  <2>2. pc'[t] = "loop" /\ \A s \in Conn \ {t} : pc'[s] = pc[s]
    BY <2>1 DEF TInv, TypeOK
  <2>3. Holds(t, sock[client_slot[t]])'
    BY <1>3, <2>1 DEF Holds
  <2>4. Placed(t)'
    BY <1>3, <2>1, <2>2, <2>3 DEF Placed, Closing
  <2>5. \A s \in Conn \ {t} : pc[s] \in LoggedIn =>
          client_slot[t] # client_slot[s]
    BY <1>3 DEF Separate
  <2> QED
    BY <1>4, <1>5, <2>1, <2>2, <2>4, <2>5, SeparateKept
<1>7. CASE Refuse(t)
  <2>1. CloseConnection(t, "loop")
    BY <1>7 DEF Refuse
  <2> QED
    BY <1>3, <1>4, <1>5, <2>1, Closes
<1> QED
  BY <1>6, <1>7

\* read finds the end of the connection of t.
LEMMA SeparateEof ==
  ASSUME TInv, Separate, blame' = {}, NEW t \in Conn, ReadEnds(t) \/ GetEof(t)
  PROVE  Separate'
<1>1. /\ pc[t] \in {"read", "body"}
      /\ CloseConnection(t, "end") \/ CloseConnection(t, "body")
      /\ UNCHANGED <<clientVars, sockfd>>
  BY DEF ReadEnds, GetEof, At
<1>2. pc[t] \in LoggedIn /\ sockfd[t] \in Fd /\ userid[client_slot[t]] = Owner[t]
  BY <1>1 DEF LoggedIn, InLoop, Separate, Placed, Serves
<1>3. fds[sockfd[t]] = t
  BY <1>1 DEF CloseConnection, Accuse
<1> QED
  BY <1>1, <1>2, <1>3, Closes DEF clientVars

LEMMA SeparateEnd ==
  ASSUME TInv, Separate, blame' = {}, NEW t \in Conn, EndSession(t) \/ CloseAgain(t)
  PROVE  Separate'
<1>1. CASE EndSession(t)
  <2>1. /\ pc[t] = "end" /\ pc' = [pc EXCEPT ![t] = "close"]
        /\ sock' = [sock EXCEPT ![client_slot[t]] = 0]
        /\ client_slot' = [client_slot EXCEPT ![t] = 0]
        /\ UNCHANGED <<clientVars, fds, userid, resume, connfd, sockfd>>
    BY <1>1 DEF EndSession, At, Goto, Accuse
  <2>2. Lost(t)
    BY <2>1 DEF Separate, Placed
  <2>3. sock' = sock
    BY <2>1, <2>2 DEF Lost, TInv, TypeOK
  <2>4. /\ pc'[t] = "close" /\ "close" \notin LoggedIn
        /\ \A s \in Conn \ {t} : pc'[s] = pc[s] /\ client_slot'[s] = client_slot[s]
    BY <2>1 DEF LoggedIn, InLoop, Closing, TInv, TypeOK
  <2>5. Placed(t)'
    BY <2>1, <2>2, <2>4 DEF Placed, Closing, Lost, Freed
  <2> QED
    BY <2>1, <2>3, <2>4, <2>5, SeparateKept DEF clientVars
<1>2. CASE CloseAgain(t)
  <2>1. /\ pc[t] = "close" /\ pc' = [pc EXCEPT ![t] = "over"]
        /\ fds' = fds
        /\ sockfd' = [sockfd EXCEPT ![t] = 0]
        /\ UNCHANGED <<clientVars, slotVars, resume, connfd, client_slot>>
    BY <1>2 DEF CloseAgain, At, Goto, Accuse
  <2>2. Freed(t)
    BY <2>1 DEF Separate, Placed
  <2>3. /\ pc'[t] = "over" /\ "over" \notin LoggedIn
        /\ \A s \in Conn \ {t} : pc'[s] = pc[s] /\ sockfd'[s] = sockfd[s]
    BY <2>1 DEF LoggedIn, InLoop, Closing, TInv, TypeOK
  <2>4. Placed(t)'
    BY <2>1, <2>2, <2>3 DEF Placed, Closing, Freed
  <2> QED
    BY <2>1, <2>3, <2>4, SeparateKept DEF clientVars, slotVars
<1> QED
  BY <1>1, <1>2

LEMMA SeparateStays ==
  ASSUME Separate, UNCHANGED <<clientVars, fds, slotVars, threadVars>>
  PROVE  Separate'
<1>1. \A s \in Conn : Placed(s)'
  BY PlacedKept DEF Separate, clientVars, slotVars, threadVars
<1> QED
  BY <1>1 DEF Separate, slotVars, threadVars

LEMMA SeparateNext ==
  TInv /\ (blame = {} => Separate) /\ [Next]_vars => (blame = {} => Separate)'
<1> SUFFICES ASSUME TInv, blame = {} => Separate, [Next]_vars, blame' = {}
             PROVE  Separate'
  OBVIOUS
<1>1. Separate
  BY BlameStays
<1>2. CASE UNCHANGED vars
  BY <1>1, <1>2, SeparateStays DEF vars
<1>3. ASSUME NEW t \in Conn, LoginFails(t) \/ CloseFails(t)
      PROVE  Separate'
  BY <1>1, <1>3, SeparateStays DEF LoginFails, CloseFails, Exit
<1>4. ASSUME NEW t \in Conn, Thread(t)
      PROVE  Separate'
  BY <1>1, <1>3, <1>4, SeparateStart, SeparateLogin, SeparateLoop,
     SeparateMoves, SeparatePacket, SeparateEof, SeparateEnd DEF Thread
<1> QED
  BY <1>1, <1>2, <1>4, SeparateMain, SeparateClient DEF Next

LEMMA SeparateAlways ==
  Spec => [](blame = {} => Separate)
BY SeparateInit, SeparateNext, TInvAlways, PTL DEF Spec

\* As long as nothing is to blame every thread serves the connection it was
\* created for, through the slot of its user.
THEOREM ThreadsServeTheirOwn ==
  Spec => []OwnConnection
<1>1. TInv /\ (blame = {} => Separate) => OwnConnection
  BY DEF Separate, Placed, Holds, OwnConnection, Peer, Fd
<1> QED
  BY <1>1, TInvAlways, SeparateAlways, PTL

\* As long as nothing is to blame a session that has ended keeps no descriptor.
THEOREM EndedSessionsHoldNothing ==
  Spec => []DescriptorsFreed
<1>1. (blame = {} => Separate) => DescriptorsFreed
  BY DEF Separate, Placed, DescriptorsFreed
<1> QED
  BY <1>1, SeparateAlways, PTL
=============================================================================
