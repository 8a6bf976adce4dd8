------------------------------ MODULE SyncState ------------------------------
(***************************************************************************)
(* The state that dbserver.c and dbclient.c work on together: the folders, *)
(* the server's client_info slots, the two directions of every connection, *)
(* and each client process.  SyncServer and SyncClient act on it, Sync     *)
(* composes them.                                                          *)
(*                                                                         *)
(* A file transfer is one "body" message whatever its length: cutting it   *)
(* into CHUNKSIZE pieces is left to Readn and Writen.  Files are not       *)
(* empty, and as long on the wire as their header announced.  A client     *)
(* stands for one user id with one directory, so client c owns slot c; a   *)
(* user is logged in at most once at a time.                               *)
(***************************************************************************)
EXTENDS FileTable, Sequences

CONSTANTS
  Client,      \* client processes, one user id each
  DirOf,       \* the directory ("-d") of each client
  NoClient,    \* not a client
  MaxClients,  \* MAXCLIENTS
  MaxTime,     \* bound: last second of the clock
  MaxOps,      \* bound: number of environment events (edits, crashes)
  Env          \* the kinds of environment events that may happen

ASSUME SyncAssumption ==
  /\ NoClient \notin Client
  /\ MaxTime \in Nat \ {0}
  /\ MaxOps \in Nat
  /\ MaxClients \in Nat \ {0}

VARIABLES
  \* environment
  now,         \* time in seconds, the same on all hosts
  ops,         \* environment events so far
  deleted,     \* history: names that a user or the operator has deleted
  \* server
  serverUp,    \* the dbserver process runs
  disk,        \* the folder server_files/
  slots,       \* clients that own a slot of the clients array
  phase,       \* position of the slot's thread, with client_info.state
  refresh,     \* client_info.refresh, and where refresh_file_times is
  sharing,     \* client_info.sharing
  files,       \* client_info.files
  fileLength,  \* client_info.fileLength
  upload,      \* client_info.get_filename..., or the argument of send_file
  \* connections
  toServer,    \* bytes in flight to the server
  toClient,    \* bytes in flight to the client
  \* clients
  pc,          \* position in sync_files
  local,       \* the folder that is being synchronized
  known,       \* currentFileNames, as a bag
  todo,        \* entries readdir has yet to return
  count,       \* file_count
  cur          \* sync_packet, then what get_file is receiving

envVars == <<now, ops, deleted>>
slotVars == <<slots, phase, refresh, sharing, files, fileLength, upload>>
wireVars == <<toServer, toClient>>
clientVars == <<pc, known, todo, count, cur>>
vars == <<envVars, serverUp, disk, slotVars, wireVars, clientVars, local>>

-----------------------------------------------------------------------------
(***************************************************************************)
(* Folders.  The content of a file is identified by the name it was        *)
(* written under, its author (NoClient: the server's operator) and the     *)
(* event that wrote it; id 0 stands for the part of a transfer written so  *)
(* far, or for two transfers mixed in one file.                            *)
(***************************************************************************)
Content == [of : FileName, by : Client \cup {NoClient}, id : 0..MaxOps]
File == [mtime : Nat, data : Content]
Folder == [FileName -> File \cup {Absent}]

ASSUME AbsentAssumption == Absent \notin File

Torn(name) == [of |-> name, by |-> NoClient, id |-> 0]

Present(folder) == {name \in EntryName : Exists(folder, name)}

\* What stat may return for a directory's modification time.
DirTime == IF DirName = {} THEN {now} ELSE 1..now

(***************************************************************************)
(* Messages: struct sync_message, and the bytes of a file.  The empty      *)
(* sync_message has no name; mtime -1 says that the file was deleted.      *)
(***************************************************************************)
NoData == [of |-> NoName, by |-> NoClient, id |-> 0]
Header(name, mtime) ==
  [kind |-> "header", filename |-> name, mtime |-> mtime, data |-> NoData]
Body(data) ==
  [kind |-> "body", filename |-> NoName, mtime |-> 0, data |-> data]
Deleted == -1

MTimes == Nat \cup {Deleted}

HeaderMessage == [kind : {"header"}, filename : EntryName \cup {NoName},
                  mtime : MTimes, data : {NoData}]
BodyMessage == [kind : {"body"}, filename : {NoName}, mtime : {0},
                data : Content]
Message == HeaderMessage \cup BodyMessage

(***************************************************************************)
(* A file that is being received: its name, the mtime it will be given,    *)
(* and whether the open file is still the one of that name ("own"), is     *)
(* written by another upload as well ("shared"), or was unlinked ("gone"). *)
(* Of a file that the server is going to send there is only the name.      *)
(***************************************************************************)
Transfer == [name : EntryName \cup {NoName},
             mtime : MTimes,
             link : {"own", "shared", "gone"}]
NoTransfer == [name |-> NoName, mtime |-> 0, link |-> "gone"]

(***************************************************************************)
(* The refresh that is due: the entry it is at (0: none is due), and       *)
(* whether readdir has found that entry's file, which stat is called on.   *)
(***************************************************************************)
RefreshState == [entry : 0..(MaxFiles + 1), found : BOOLEAN]
NoRefresh == [entry |-> 0, found |-> FALSE]

\* The two ends of a connection.
ServerEnd(c) == phase[c] # "dead"
ClientEnd(c) == pc[c] # "off"

\* Removing or replacing a file leaves whoever has it open an unlinked file.
Unlink(transfer, name) ==
  IF transfer.name = name THEN [transfer EXCEPT !.link = "gone"] ELSE transfer

\* What is left to read when the writer dies in the middle of a body.
Trim(channel) ==
  IF channel # <<>> /\ channel[Len(channel)].kind = "body"
  THEN SubSeq(channel, 1, Len(channel) - 1)
  ELSE channel
=============================================================================
