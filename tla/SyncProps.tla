------------------------------ MODULE SyncProps ------------------------------
(***************************************************************************)
(* What the synchronization of Sync promises: the type invariant, the      *)
(* lock step of the two ends of a connection, and the properties of the    *)
(* runs.                                                                   *)
(***************************************************************************)
EXTENDS Sync

Phase == {"dead", "sync", "getfile", "writing", "stamp", "give", "giveNew"}
Position == {"off", "scan", "ackDel", "walk", "ackSync", "recv", "ackNew",
             "recvNew"}

(***************************************************************************)
(* Every variable has its type; in particular the file_info arrays hold    *)
(* names that a client or the folder supplied, and no counter of theirs    *)
(* runs below zero (cleanFileInArray and the loops of                      *)
(* process_client_request in dbserver.c).                                  *)
(***************************************************************************)
TypeOK ==
  /\ now \in 1..MaxTime
  /\ ops \in 0..MaxOps
  /\ deleted \subseteq FileName
  /\ serverUp \in BOOLEAN
  /\ disk \in Folder
  /\ slots \subseteq Client
  /\ phase \in [Client -> Phase]
  /\ refresh \in [Client -> RefreshState]
  /\ sharing \in [Client -> BOOLEAN]
  /\ files \in [Client -> FileArray]
  /\ fileLength \in [Client -> Nat]
  /\ upload \in [Client -> Transfer]
  /\ toServer \in [Client -> Seq(Message)]
  /\ toClient \in [Client -> Seq(Message)]
  /\ pc \in [Client -> Position]
  /\ local \in [Client -> Folder]
  /\ known \in [Client -> [EntryName -> Nat]]
  /\ todo \in [Client -> SUBSET EntryName]
  /\ count \in [Client -> Nat]
  /\ cur \in [Client -> Transfer]

-----------------------------------------------------------------------------
(***************************************************************************)
(* Lock step.  The protocol has no message numbers and no message types:   *)
(* what the next bytes are is decided by the position of the reader alone. *)
(* Each connection therefore is in one of a few shapes.                    *)
(***************************************************************************)
IsHeader(m) == m.kind = "header"
IsBody(m, name) == m.kind = "body" /\ m.data.of = name

OneBody(channel, name) ==
  channel # <<>> /\ IsBody(Head(channel), name) /\ Tail(channel) = <<>>

\* At most one request, as a client that is gone may leave it.
AtMostOneRequest(channel) ==
  channel # <<>> => IsHeader(Head(channel)) /\ Tail(channel) = <<>>

\* The server has asked for the content of a file.
Uploading(c) ==
  phase[c] \in {"getfile", "writing"} /\ upload[c].name \in FileName

\* The requests that are on their way, behind the content asked for before.
Ahead(c, requests) ==
  /\ phase[c] \notin Giving
  /\ IF Uploading(c)
     THEN /\ toServer[c] # <<>>
          /\ IsBody(Head(toServer[c]), upload[c].name)
          /\ Tail(toServer[c]) = requests
     ELSE toServer[c] = requests

\* A response, and behind it the file it announces, unless that is still to be
\* sent; position is where the session is until then.
Announces(c, position, header, rest) ==
  \/ /\ phase[c] = position
     /\ upload[c].name = header.filename
     /\ rest = <<>>
  \/ /\ phase[c] = "sync"
     /\ IF header.filename \in FileName THEN OneBody(rest, header.filename)
        ELSE rest = <<>>

-----------------------------------------------------------------------------
(* Both ends open. *)

Asked(c) ==
  /\ toClient[c] = <<>>
  /\ Ahead(c, <<Header(cur[c].name, cur[c].mtime)>>)

Replied(c) ==
  LET header == Head(toClient[c])
      rest == Tail(toClient[c])
      DeletedThere == header.mtime = Deleted /\ rest = <<>> /\ phase[c] = "sync"
      WantsFile == /\ header.mtime \in 0..(cur[c].mtime - 1)
                   /\ rest = <<>>
                   /\ phase[c] \in {"getfile", "writing"}
                   /\ upload[c].name = cur[c].name
      Agrees == /\ header.mtime = cur[c].mtime
                /\ rest = <<>>
                /\ phase[c] = "sync"
      SendsFile == /\ header.mtime > cur[c].mtime
                   /\ header.filename = cur[c].name
                   /\ Announces(c, "give", header, rest)
  IN  /\ toServer[c] = <<>>
      /\ toClient[c] # <<>>
      /\ IsHeader(header)
      /\ pc[c] = "ackDel" => rest = <<>> /\ phase[c] = "sync"
      /\ pc[c] = "ackSync" =>
           DeletedThere \/ WantsFile \/ Agrees \/ SendsFile
      /\ pc[c] = "ackNew" =>
           /\ header.mtime # Deleted
           /\ Announces(c, "giveNew", header, rest)

\* get_file is reading, the content is there or is going to be sent.
Awaits(c, position) ==
  /\ toServer[c] = <<>>
  /\ \/ phase[c] = "sync" /\ OneBody(toClient[c], cur[c].name)
     \/ /\ phase[c] = position
        /\ upload[c].name = cur[c].name
        /\ toClient[c] = <<>>

Connected(c) ==
  /\ pc[c] = "scan" => /\ toServer[c] = <<>>
                       /\ toClient[c] = <<>>
                       /\ phase[c] = "sync"
  /\ pc[c] = "walk" => Ahead(c, <<>>) /\ toClient[c] = <<>>
  /\ pc[c] \in {"ackDel", "ackSync", "ackNew"} => Asked(c) \/ Replied(c)
  /\ pc[c] = "ackDel" => phase[c] = "sync"
  /\ pc[c] = "recv" => Awaits(c, "give")
  /\ pc[c] = "recvNew" => Awaits(c, "giveNew")

(* One end closed: the other one finds what was sent before, or less. *)

ClientLeft(c) ==
  /\ toClient[c] = <<>>
  /\ IF Uploading(c)
     THEN toServer[c] # <<>> => /\ IsBody(Head(toServer[c]), upload[c].name)
                               /\ AtMostOneRequest(Tail(toServer[c]))
     ELSE AtMostOneRequest(toServer[c])

Leftover(c, channel) ==
  LET header == Head(channel)
      rest == Tail(channel)
      SendsFile == /\ OneBody(rest, header.filename)
                   /\ pc[c] # "ackDel"
                   /\ pc[c] = "ackSync" => header.mtime > cur[c].mtime
  IN  /\ pc[c] \in {"scan", "walk"} => channel = <<>>
      /\ pc[c] \in {"ackDel", "ackSync", "ackNew"} /\ channel # <<>> =>
           /\ IsHeader(header)
           /\ pc[c] = "ackNew" => header.mtime # Deleted
           /\ rest = <<>> \/ SendsFile
      /\ pc[c] \in {"recv", "recvNew"} /\ channel # <<>> =>
           OneBody(channel, cur[c].name)

ServerLeft(c) == toServer[c] = <<>> /\ Leftover(c, toClient[c])

\* What the two ends remember between the messages.
Remembers(c) ==
  /\ phase[c] \in {"dead", "sync"} => upload[c] = NoTransfer
  /\ phase[c] \in {"getfile", "give"} => upload[c].name \in EntryName
  /\ phase[c] \in {"writing", "stamp", "giveNew"} => upload[c].name \in FileName
  /\ upload[c].mtime \in Nat
  /\ pc[c] \in {"off", "scan", "walk", "ackNew"} => cur[c] = NoTransfer
  /\ pc[c] = "ackDel" => /\ cur[c].name \in FileName
                         /\ cur[c].mtime = Deleted
                         /\ known[c][cur[c].name] > 0
  /\ pc[c] = "ackSync" => cur[c].name \in EntryName /\ cur[c].mtime \in Nat
  /\ pc[c] \in {"recv", "recvNew"} => /\ cur[c].name \in FileName
                                      /\ cur[c].mtime \in Nat

(***************************************************************************)
(* The two ends of every connection are in step: what is under way is what *)
(* the reader, at its position, is going to read next.                     *)
(***************************************************************************)
InStepAt(c) ==
  /\ Remembers(c)
  /\ ClientEnd(c) /\ ServerEnd(c) => Connected(c)
  /\ ClientEnd(c) /\ ~ ServerEnd(c) => ServerLeft(c)
  /\ ~ ClientEnd(c) /\ ServerEnd(c) => ClientLeft(c)
  /\ ~ ClientEnd(c) /\ ~ ServerEnd(c) =>
       toServer[c] = <<>> /\ toClient[c] = <<>>

InStep == \A c \in Client : InStepAt(c)

-----------------------------------------------------------------------------
(***************************************************************************)
(* No end ever takes file content for a sync_message or a sync_message for *)
(* file content (Readn in startConsThread, and in sync_files,              *)
(* retrieve_new_files and get_file of dbclient.c), whatever users, the     *)
(* operator, crashes and the other clients do.                             *)
(***************************************************************************)
FramingOK ==
  \A c \in Client :
    /\ phase[c] = "sync" /\ toServer[c] # <<>> => IsHeader(Head(toServer[c]))
    /\ phase[c] = "writing" /\ toServer[c] # <<>> =>
         ~ IsHeader(Head(toServer[c]))
    /\ pc[c] \in {"ackDel", "ackSync", "ackNew"} /\ toClient[c] # <<>> =>
         IsHeader(Head(toClient[c]))
    /\ pc[c] \in {"recv", "recvNew"} /\ toClient[c] # <<>> =>
         ~ IsHeader(Head(toClient[c]))

(***************************************************************************)
(* A client never waits for a response while the server waits for that     *)
(* client: the blocking Readn calls of startConsThread and sync_files      *)
(* never face each other.                                                  *)
(***************************************************************************)
NoMutualWait ==
  \A c \in Client :
    ~ /\ pc[c] \in {"ackDel", "ackSync", "ackNew", "recv", "recvNew"}
      /\ toClient[c] = <<>>
      /\ phase[c] \in {"sync", "writing"}
      /\ toServer[c] = <<>>

(***************************************************************************)
(* The content that was written under one name never ends up in a file of  *)
(* another name, on either side: send_file and get_file of both programs   *)
(* name the file twice, the bytes on the wire carry no name.               *)
(***************************************************************************)
KeepsName(folder) ==
  \A name \in FileName : folder[name] # Absent => folder[name].data.of = name

ContentKeepsName ==
  /\ KeepsName(disk)
  /\ \A c \in Client : KeepsName(local[c])

-----------------------------------------------------------------------------
(* The conversation that the two ends have, as Conversation sees it. *)

Headers(channel) ==
  {channel[i] : i \in {j \in 1..Len(channel) : IsHeader(channel[j])}}

Contents(channel) ==
  {channel[i].data.of : i \in {j \in 1..Len(channel) : ~ IsHeader(channel[j])}}

\* How the client takes an answer: by where it is and by the two mtimes.
Meaning(c, header) ==
  IF pc[c] = "ackSync" /\ header.mtime \in 0..(cur[c].mtime - 1) THEN "want"
  ELSE IF \/ pc[c] = "ackSync" /\ header.mtime > cur[c].mtime
          \/ pc[c] = "ackNew" /\ header.filename # NoName
  THEN "give" ELSE "ack"

ClientRole(c) ==
  IF pc[c] = "off" THEN "closed"
  ELSE IF pc[c] \in {"ackDel", "ackSync", "ackNew"} THEN "waiting"
  ELSE IF pc[c] \in {"recv", "recvNew"} THEN "receiving" ELSE "idle"

ServerRole(c) ==
  IF phase[c] = "dead" THEN "closed"
  ELSE IF phase[c] \in {"getfile", "writing"} THEN "receiving"
  ELSE IF phase[c] \in Giving THEN "giving" ELSE "ready"

ContentOf(c) ==
  IF ServerRole(c) \in {"receiving", "giving"} THEN upload[c].name ELSE NoName

QuestionsOf(c) == {m.filename : m \in Headers(toServer[c])}
AnswersOf(c) == {Meaning(c, m) : m \in Headers(toClient[c])}

Talk == INSTANCE Conversation
  WITH Conn <- Client, File <- FileName, Name <- EntryName \cup {NoName},
       client <- [c \in Client |-> ClientRole(c)],
       topic <- [c \in Client |-> cur[c].name],
       server <- [c \in Client |-> ServerRole(c)],
       content <- [c \in Client |-> ContentOf(c)],
       request <- [c \in Client |-> QuestionsOf(c)],
       response <- [c \in Client |-> AnswersOf(c)],
       up <- [c \in Client |-> Contents(toServer[c])],
       down <- [c \in Client |-> Contents(toClient[c])]

(***************************************************************************)
(* startConsThread and sync_files keep to the conversation: every request  *)
(* gets one answer at most, to what was asked, and no answer before the    *)
(* content that the server asked for has come; the client takes an answer  *)
(* as the server meant it, although the two compare mtimes on their own;   *)
(* and content is received by the end that waits for it, under the name it *)
(* was sent for.                                                           *)
(***************************************************************************)
ConversationKept == Talk!Spec

-----------------------------------------------------------------------------
(* What holds for a user who is alone and deletes nothing. *)

Entries(c) == {i \in Slot : files[c][i].filename # NoName}

(***************************************************************************)
(* The file_info array of the only client is true: between two requests    *)
(* every entry of a file names one in server_files/, with the mtime it has *)
(* there.  Everything process_client_request decides rests on this, and it *)
(* takes the whole of an upload (AskForFile to utime) to restore it.       *)
(***************************************************************************)
TableIsTrue ==
  \A c \in Client : phase[c] = "sync" =>
    \A i \in Entries(c) : files[c][i].filename \in FileName =>
      /\ disk[files[c][i].filename] # Absent
      /\ disk[files[c][i].filename].mtime = files[c][i].mtime

(***************************************************************************)
(* The search for files that are gone from the server's folder reaches     *)
(* every entry of the array: it stops at fileLength, which is counted      *)
(* elsewhere (fileLength++ in startConsThread and send_new_file) than the  *)
(* entries are made (check_file).                                          *)
(***************************************************************************)
SearchCoversTable ==
  \A c \in Client : phase[c] = "sync" =>
    \A i \in Entries(c) : i <= fileLength[c]

(***************************************************************************)
(* A half-written file in server_files/ is being written: no upload ends,  *)
(* is given up or is overtaken with the file left incomplete (state        *)
(* GETFILE of startConsThread).                                            *)
(***************************************************************************)
TornOnlyWhileWriting ==
  \A name \in FileName :
    disk[name] # Absent /\ disk[name].data = Torn(name) =>
      \E c \in Client : phase[c] = "writing" /\ upload[c].name = name

(***************************************************************************)
(* No step of the synchronization, crashes and restarts of either side     *)
(* included, changes a file in the folder of a user who works alone:       *)
(* whatever the server has kept is older (sync_files).                     *)
(***************************************************************************)
OwnFilesUntouched ==
  [][\A c \in Client : ClientNext(c) => local'[c] = local[c]]_vars

-----------------------------------------------------------------------------
(***************************************************************************)
(* While files are only written, and there is room for them and for all    *)
(* clients, one thing stops the server: a directory that it has asked for  *)
(* and cannot open.  None of the other exit(1) calls and fatal signals of  *)
(* dbserver.c is reached: no upload is given up, nobody hangs up on a      *)
(* response, no announced file is missing.  It holds again after a restart.*)
(***************************************************************************)
OnlyDirectoriesStop ==
  [][serverUp /\ ~ serverUp' => \E c \in Client : GetDirectory(c)]_vars

(***************************************************************************)
(* Fairness.  A thread that is not blocked runs on, and TCP delivers what  *)
(* was sent while both ends live; a session that waits for client_mutex    *)
(* gets it in the end.                                                     *)
(***************************************************************************)
ThreadsRun ==
  \A c \in Client : SF_vars(ServerNext(c)) /\ WF_vars(ClientNext(c))

RunningSpec == Spec /\ ThreadsRun

\* Moreover, users start again what has ended.
UsersRestart == (\A c \in Client : WF_vars(Login(c))) /\ WF_vars(Boot)

RestartingSpec == RunningSpec /\ UsersRestart

\* The server has died while it was sending a file: get_file adds the 0 or -1
\* that Readn returns to readcount and never leaves its loop.
Spins(c) ==
  /\ pc[c] \in {"recv", "recvNew"}
  /\ toClient[c] = <<>>
  /\ ~ ServerEnd(c)

(***************************************************************************)
(* Every cycle of sync_files ends: the client comes back to its sleep, or  *)
(* it has exited; only a server that dies within a file keeps it.          *)
(***************************************************************************)
CycleEnds ==
  \A c \in Client : []<>(pc[c] \in {"scan", "off"} \/ Spins(c))

-----------------------------------------------------------------------------
(* What documentation and comments say, and the code does not keep. *)

(***************************************************************************)
(* A client removes a file only when a file of this name has been deleted  *)
(* by somebody ("deleted from server folder", process_client_request).     *)
(***************************************************************************)
RemovesOnlyDeleted ==
  [][\A c \in Client : RemoveFile(c) => Response(c).filename \in deleted]_vars

(***************************************************************************)
(* "Maintain the same state of files with the server" (main, dbclient.c):  *)
(* after an edit the folders of client and server come to hold the same    *)
(* files with the same content again.                                      *)
(***************************************************************************)
SameContent(c) ==
  \A name \in FileName :
    /\ (local[c][name] = Absent) = (disk[name] = Absent)
    /\ local[c][name] # Absent => local[c][name].data = disk[name].data

FoldersAgree == \A c \in Client : []<>SameContent(c)
=============================================================================
