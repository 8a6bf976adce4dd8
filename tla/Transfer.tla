------------------------------- MODULE Transfer -------------------------------
(***************************************************************************)
(* The content of a file on its way: send_file and get_file of both        *)
(* programs, the GETFILE branch, readn and writen, with connections that   *)
(* are full, files that change while they are sent, and client_mutex.      *)
(* What Sync takes for one message, content, is here a row of units; a     *)
(* sync_message is one unit, a unit of content is what one read or write   *)
(* moves.  Which answer a request gets is decided by SyncServer; here it   *)
(* is any.  There is one file, in server_files/ and in every client's      *)
(* folder.                                                                 *)
(*   spc[c]  "wait"  Readn of a request       "lock"  waits for the mutex  *)
(*           "reply" Writen of the response   "send"  send_file            *)
(*           "open"  fopen in GETFILE         "get"   its loop             *)
(*           "over"  the connection is closed                              *)
(*   cpc[c]  "ready"                          "answer" Readn of a response *)
(*           "send"  send_file                "get"   get_file             *)
(*           "spin"  get_file, of a server that is gone                    *)
(*           "gone"  the client has exited                                 *)
(*   "lost", of either: content was read as a sync_message, or the reverse *)
(***************************************************************************)
EXTENDS Integers, Sequences, SequencesExt

CONSTANTS
  Conn,     \* clients, and their sessions
  Editors,  \* bound: clients whose users save the file
  Mortals,  \* bound: clients that may be killed
  Nobody,   \* client_mutex is free
  MaxSize,  \* bound: units of a file
  Buffer    \* units that a connection holds in one direction

ASSUME TransferAssumption ==
  /\ Editors \subseteq Conn /\ Mortals \subseteq Conn
  /\ Nobody \notin Conn
  /\ MaxSize \in Nat
  /\ Buffer \in Nat \ {0}

VARIABLES
  server,              \* "up" or "down"
  file, local,         \* a unit of content is its place in the file as the
                       \* user saved it, 0 if nobody has written it
  toServer, toClient,
  mutex,               \* the session that holds client_mutex
  spc, answer, ssize, spos,
  cpc, csize, cpos,
  resized,             \* history: connections on which a file was sent that
                       \* had changed its size since it was announced
  steady               \* history: clients that are getting the file, which is
                       \* still what it was when it was announced to them

serverVars == <<spc, answer, ssize, spos>>
clientVars == <<cpc, csize, cpos>>
history == <<resized, steady>>
vars == <<server, file, local, toServer, toClient, mutex, serverVars,
          clientVars, history>>

Content(i) == [kind |-> "content", place |-> i]
Message(what, size) == [kind |-> "message", what |-> what, size |-> size]
Size == 0..MaxSize
Saved(n) == [i \in 1..n |-> Content(i)]
Unit == {Content(i) : i \in Size}
          \cup {Message(w, n) : w \in {"sync", "same", "ask", "newer"}, n \in Size}

Init ==
  /\ server = "up"
  /\ file = <<>>
  /\ local \in [Conn -> {Saved(n) : n \in Size}]
  /\ toServer = [c \in Conn |-> <<>>]
  /\ toClient = [c \in Conn |-> <<>>]
  /\ mutex = Nobody
  /\ spc = [c \in Conn |-> "wait"]
  /\ answer = [c \in Conn |-> "same"]
  /\ ssize = [c \in Conn |-> 0]
  /\ spos = [c \in Conn |-> 0]
  /\ cpc = [c \in Conn |-> "ready"]
  /\ csize = [c \in Conn |-> 0]
  /\ cpos = [c \in Conn |-> 0]
  /\ resized = {}
  /\ steady = {}

-----------------------------------------------------------------------------
(* readn and writen: a unit is written when there is room for it.          *)

Write(channel, c, unit) ==
  /\ Len(channel[c]) < Buffer
  /\ channel' = [channel EXCEPT ![c] = Append(@, unit)]
Read(channel, c) ==
  /\ channel[c] # <<>>
  /\ channel' = [channel EXCEPT ![c] = Tail(@)]

\* Mutant: the file is open for appending.
WriteAtEnd(f, offset, unit) == Append(f, unit)

\* A file written at an offset, behind its end if another has truncated it.
WriteAt(f, offset, unit) ==
  [i \in 1..(IF offset < Len(f) THEN Len(f) ELSE offset + 1) |->
     CASE i = offset + 1 -> unit
       [] i # offset + 1 /\ i <= Len(f) -> f[i]
       [] OTHER -> Content(0)]

-----------------------------------------------------------------------------
(* The client. *)

ClientGoes(c, position, size, pos) ==
  /\ cpc' = [cpc EXCEPT ![c] = position]
  /\ csize' = [csize EXCEPT ![c] = size]
  /\ cpos' = [cpos EXCEPT ![c] = pos]
ServerIdle == UNCHANGED <<server, file, mutex, serverVars>>

\* A packet for the file, with the size it has now.
Offer(c) ==
  /\ cpc[c] = "ready"
  /\ Write(toServer, c, Message("sync", Len(local[c])))
  /\ ClientGoes(c, "answer", Len(local[c]), 0)
  /\ UNCHANGED <<local, toClient, history>> /\ ServerIdle

\* Mutant: the file is not truncated.
AnswerKeeps(c) ==
  LET m == Head(toClient[c]) IN
  /\ cpc[c] = "answer"
  /\ Read(toClient, c)
  /\ \/ m.kind = "message" /\ m.what = "same" /\ ClientGoes(c, "ready", 0, 0)
     \/ m.kind = "message" /\ m.what = "ask" /\ ClientGoes(c, "send", csize[c], 0)
     \/ m.kind = "message" /\ m.what = "newer" /\ ClientGoes(c, "get", m.size, 0)
     \/ m.kind = "content" /\ ClientGoes(c, "lost", 0, 0)
  /\ UNCHANGED <<local, toServer, history>> /\ ServerIdle

Answer(c) ==
  LET m == Head(toClient[c]) IN
  /\ cpc[c] = "answer"
  /\ Read(toClient, c)
  /\ \/ m.kind = "message" /\ m.what = "same" /\ ClientGoes(c, "ready", 0, 0)
        /\ UNCHANGED local
     \/ m.kind = "message" /\ m.what = "ask" /\ ClientGoes(c, "send", csize[c], 0)
        /\ UNCHANGED local
     \/ /\ m.kind = "message" /\ m.what = "newer"
        /\ local' = [local EXCEPT ![c] = <<>>]
        /\ ClientGoes(c, "get", m.size, 0)
     \/ m.kind = "content" /\ ClientGoes(c, "lost", 0, 0) /\ UNCHANGED local
  /\ UNCHANGED <<toServer, history>> /\ ServerIdle

\* send_file goes to the end of the file, whatever size was announced.
SendUnit(c) ==
  /\ cpc[c] = "send"
  /\ cpos[c] < Len(local[c])
  /\ Write(toServer, c, local[c][cpos[c] + 1])
  /\ ClientGoes(c, "send", csize[c], cpos[c] + 1)
  /\ UNCHANGED <<local, toClient, history>> /\ ServerIdle

\* The next packet follows at once.
SendEnds(c) ==
  /\ cpc[c] = "send"
  /\ cpos[c] >= Len(local[c])
  /\ ClientGoes(c, "ready", 0, 0)
  /\ UNCHANGED <<local, toServer, toClient, history>> /\ ServerIdle

GetUnit(c) ==
  /\ cpc[c] = "get"
  /\ cpos[c] < csize[c]
  /\ Read(toClient, c)
  /\ \/ /\ Head(toClient[c]).kind = "content"
        /\ local' = [local EXCEPT ![c] = WriteAt(@, cpos[c], Head(toClient[c]))]
        /\ ClientGoes(c, "get", csize[c], cpos[c] + 1)
     \/ /\ Head(toClient[c]).kind = "message"
        /\ ClientGoes(c, "lost", 0, 0)
        /\ UNCHANGED local
  /\ UNCHANGED <<toServer, history>> /\ ServerIdle

GetEnds(c) ==
  /\ cpc[c] = "get"
  /\ cpos[c] >= csize[c]
  /\ ClientGoes(c, "ready", 0, 0)
  /\ steady' = steady \ {c}
  /\ UNCHANGED <<local, toServer, toClient, resized>> /\ ServerIdle

\* The server's end is closed and everything it has sent is read.
EndOfServer(c) == spc[c] = "over" /\ toClient[c] = <<>>

\* Readn returns 0, which get_file adds to readcount.
GetSpins(c) ==
  /\ cpc[c] = "get"
  /\ cpos[c] < csize[c]
  /\ EndOfServer(c)
  /\ ClientGoes(c, "spin", 0, 0)
  /\ UNCHANGED <<local, toServer, toClient, history>> /\ ServerIdle

\* No response, or nobody to write to.
ClientExits(c) ==
  /\ \/ cpc[c] = "answer" /\ EndOfServer(c)
     \/ cpc[c] \in {"ready", "send"} /\ server = "down"
  /\ ClientGoes(c, "gone", 0, 0)
  /\ UNCHANGED <<local, toServer, toClient, history>> /\ ServerIdle

ClientStep(c) ==
  \/ Offer(c) \/ Answer(c) \/ SendUnit(c) \/ SendEnds(c) \/ GetUnit(c)
  \/ GetEnds(c) \/ GetSpins(c) \/ ClientExits(c)

\* The user, at any time but during a download.  Bound: no save after a file was
\* resized while it was sent.
Save(c) ==
  /\ c \in Editors
  /\ resized = {}
  /\ cpc[c] \in {"ready", "answer", "send"}
  /\ \E n \in Size : local' = [local EXCEPT ![c] = Saved(n)]
  /\ resized' = resized \cup
       {d \in {c} : cpc[c] \in {"answer", "send"} /\ Len(local'[c]) # csize[c]}
  /\ UNCHANGED <<server, file, toServer, toClient, mutex, serverVars,
                 clientVars, steady>>

Kill(c) ==
  /\ c \in Mortals
  /\ cpc[c] # "gone"
  /\ ClientGoes(c, "gone", 0, 0)
  /\ steady' = steady \ {c}
  /\ UNCHANGED <<local, toServer, toClient, resized>> /\ ServerIdle

-----------------------------------------------------------------------------
(* The session. *)

At(c, position) == server = "up" /\ spc[c] = position
Goes(c, position, size, pos) ==
  /\ spc' = [spc EXCEPT ![c] = position]
  /\ ssize' = [ssize EXCEPT ![c] = size]
  /\ spos' = [spos EXCEPT ![c] = pos]
ClientIdle == UNCHANGED <<local, clientVars>>

Request(c) ==
  LET m == Head(toServer[c]) IN
  /\ At(c, "wait")
  /\ Read(toServer, c)
  /\ \/ m.kind = "message" /\ Goes(c, "lock", m.size, 0)
     \/ m.kind = "content" /\ Goes(c, "lost", 0, 0)
  /\ UNCHANGED <<server, file, toClient, mutex, answer, history>> /\ ClientIdle

\* process_client_request takes the size of the file with stat.
Decide(c) ==
  /\ At(c, "lock")
  /\ mutex = Nobody
  /\ mutex' = c
  /\ \/ \E a \in {"same", "ask"} :
          /\ answer' = [answer EXCEPT ![c] = a]
          /\ Goes(c, "reply", ssize[c], 0)
          /\ UNCHANGED steady
     \/ /\ answer' = [answer EXCEPT ![c] = "newer"]
        /\ Goes(c, "reply", Len(file), 0)
        /\ steady' = steady \cup {c}
  /\ UNCHANGED <<server, file, toServer, toClient, resized>> /\ ClientIdle

\* What is written to a client that has gone is lost, or ends the process.
SendTo(c, unit) ==
  IF cpc[c] = "gone" THEN UNCHANGED toClient ELSE Write(toClient, c, unit)

Reply(c) ==
  /\ At(c, "reply")
  /\ SendTo(c, Message(answer[c], ssize[c]))
  /\ CASE answer[c] = "same"  -> Goes(c, "wait", 0, 0) /\ mutex' = Nobody
       [] answer[c] = "ask"   -> Goes(c, "open", ssize[c], 0) /\ mutex' = Nobody
       [] answer[c] = "newer" -> Goes(c, "send", ssize[c], 0) /\ UNCHANGED mutex
  /\ answer' = [answer EXCEPT ![c] = "same"]
  /\ UNCHANGED <<server, file, toServer, history>> /\ ClientIdle

ReplyUnit(c) ==
  /\ At(c, "send")
  /\ spos[c] < Len(file)
  /\ SendTo(c, file[spos[c] + 1])
  /\ Goes(c, "send", ssize[c], spos[c] + 1)
  /\ UNCHANGED <<server, file, toServer, mutex, answer, history>> /\ ClientIdle

\* Mutant: the mutex is not released.
ReplyEndsLocked(c) ==
  /\ At(c, "send")
  /\ spos[c] >= Len(file)
  /\ Goes(c, "wait", 0, 0)
  /\ UNCHANGED <<server, file, toServer, toClient, mutex, answer, history>>
  /\ ClientIdle

ReplyEnds(c) ==
  /\ At(c, "send")
  /\ spos[c] >= Len(file)
  /\ Goes(c, "wait", 0, 0)
  /\ mutex' = Nobody
  /\ UNCHANGED <<server, file, toServer, toClient, answer, history>>
  /\ ClientIdle

\* Downloads that are announced and for which the file is not read to the end.
Reading == {d \in Conn : spc[d] = "send" \/ (spc[d] = "reply" /\ answer[d] = "newer")}

\* An upload, which does not hold the mutex, gives the file new content.
Puts(content) ==
  /\ file' = content
  /\ steady' = {d \in steady : content = file}
  /\ resized' = resized \cup {d \in Reading : Len(content) # ssize[d]}

Open(c) ==
  /\ At(c, "open")
  /\ Puts(<<>>)
  /\ Goes(c, "get", ssize[c], 0)
  /\ UNCHANGED <<server, toServer, toClient, mutex, answer>> /\ ClientIdle

\* Mutant: one unit more than was announced.
ReceiveOneMore(c) ==
  /\ At(c, "get")
  /\ spos[c] <= ssize[c]
  /\ Read(toServer, c)
  /\ \/ /\ Head(toServer[c]).kind = "content"
        /\ Puts(WriteAt(file, spos[c], Head(toServer[c])))
        /\ Goes(c, "get", ssize[c], spos[c] + 1)
     \/ /\ Head(toServer[c]).kind = "message"
        /\ Goes(c, "lost", 0, 0)
        /\ UNCHANGED <<file, history>>
  /\ UNCHANGED <<server, toClient, mutex, answer>> /\ ClientIdle

Receive(c) ==
  /\ At(c, "get")
  /\ spos[c] < ssize[c]
  /\ Read(toServer, c)
  /\ \/ /\ Head(toServer[c]).kind = "content"
        /\ Puts(WriteAt(file, spos[c], Head(toServer[c])))
        /\ Goes(c, "get", ssize[c], spos[c] + 1)
     \/ /\ Head(toServer[c]).kind = "message"
        /\ Goes(c, "lost", 0, 0)
        /\ UNCHANGED <<file, history>>
  /\ UNCHANGED <<server, toClient, mutex, answer>> /\ ClientIdle

ReceiveEnds(c) ==
  /\ At(c, "get")
  /\ spos[c] >= ssize[c]
  /\ Goes(c, "wait", 0, 0)
  /\ UNCHANGED <<server, file, toServer, toClient, mutex, answer, history>>
  /\ ClientIdle

EndOfClient(c) == cpc[c] = "gone" /\ toServer[c] = <<>>

Disconnect(c) ==
  /\ At(c, "wait")
  /\ EndOfClient(c)
  /\ Goes(c, "over", 0, 0)
  /\ UNCHANGED <<server, file, toServer, toClient, mutex, answer, history>>
  /\ ClientIdle

\* The end of a client in the middle of an upload (the second Close), and a
\* write to a client that is gone (SIGPIPE).
ServerExits(c) ==
  /\ \/ At(c, "get") /\ spos[c] < ssize[c] /\ EndOfClient(c)
     \/ At(c, "reply") /\ cpc[c] = "gone"
     \/ At(c, "send") /\ cpc[c] = "gone"
  /\ server' = "down"
  /\ spc' = [d \in Conn |-> "over"]
  /\ answer' = [d \in Conn |-> "same"]
  /\ ssize' = [d \in Conn |-> 0]
  /\ spos' = [d \in Conn |-> 0]
  /\ mutex' = Nobody
  /\ toServer' = [d \in Conn |-> <<>>]
  /\ UNCHANGED <<file, toClient, history>>
  /\ ClientIdle

Session(c) ==
  \/ Request(c) \/ Decide(c) \/ Reply(c) \/ ReplyUnit(c) \/ ReplyEnds(c)
  \/ Open(c) \/ Receive(c) \/ ReceiveEnds(c) \/ Disconnect(c) \/ ServerExits(c)

Next == \E c \in Conn : Session(c) \/ ClientStep(c) \/ Save(c) \/ Kill(c)

Spec == Init /\ [][Next]_vars

\* A thread that is not blocked is scheduled; strong fairness matters only for
\* Decide, where others may take the mutex again and again.
FairSpec ==
  Spec /\ \A c \in Conn : SF_vars(Session(c)) /\ WF_vars(ClientStep(c))

-----------------------------------------------------------------------------
(* Properties. *)

File == UNION {[1..n -> {Content(i) : i \in Size}] : n \in Size}
Channel == {q \in Seq(Unit) : Len(q) <= Buffer}

\* The type of the state.
TypeOK ==
  /\ server \in {"up", "down"}
  /\ file \in File
  /\ local \in [Conn -> File]
  /\ toServer \in [Conn -> Channel]
  /\ toClient \in [Conn -> Channel]
  /\ mutex \in Conn \cup {Nobody}
  /\ spc \in [Conn -> {"wait", "lock", "reply", "send", "open", "get", "over",
                       "lost"}]
  /\ answer \in [Conn -> {"same", "ask", "newer"}]
  /\ ssize \in [Conn -> Size] /\ spos \in [Conn -> Size]
  /\ cpc \in [Conn -> {"ready", "answer", "send", "get", "spin", "gone", "lost"}]
  /\ csize \in [Conn -> Size] /\ cpos \in [Conn -> Size]
  /\ resized \subseteq Conn
  /\ steady \subseteq Conn

\* Content is never read as a message nor a message as content, and between two
\* exchanges nothing is under way to the client, unless a file was sent that
\* had changed its size since it was announced.
Aligned ==
  \A c \in Conn \ resized :
    /\ spc[c] # "lost" /\ cpc[c] # "lost"
    /\ cpc[c] = "ready" => toClient[c] = <<>>

\* A download is the file as it was announced, unit by unit, if nobody uploads
\* it at the same time.
DownloadIsWhole ==
  \A c \in steady : cpc[c] = "get" =>
    /\ csize[c] = Len(file)
    /\ IsPrefix(local[c] \o toClient[c], file)

\* Every exchange ends, although the session of one client waits for room on
\* its connection while it holds the mutex, as long as the clients go on reading
\* and no file has changed its size while it was sent.
ExchangeEnds ==
  \A c \in Conn :
    cpc[c] \in {"answer", "send", "get"} ~>
      cpc[c] \in {"ready", "gone"} \/ resized # {} \/ server = "down"
=============================================================================
