------------------------------ MODULE SyncServer -----------------------------
(***************************************************************************)
(* The sessions of dbserver.c: one thread per connection, running          *)
(* startConsThread.  phase[c] is the position of the thread of client c:   *)
(*   "dead"     no session (client_info.sock = -1, state DEADCLIENT)       *)
(*   "sync"     state SYNC, at the top of the loop or in Readn             *)
(*   "getfile"  state GETFILE, the file is not open yet                    *)
(*   "writing"  state GETFILE, the file is open and truncated              *)
(*   "stamp"    state SYNC again, utime has not been called yet            *)
(*   "give"     about to call send_file, in process_client_request         *)
(*   "giveNew"  about to call send_file, in send_new_file                  *)
(*                                                                         *)
(* A request runs under client_mutex and is one step up to send_file,      *)
(* which is another: uploads, refreshes and the operator do not take the   *)
(* mutex.                                                                  *)
(* The search for missing files and the stat calls of one request see one  *)
(* state of the folder.  A refresh is a step for each of its system calls. *)
(* What the end of a thread does to the descriptors and to client_count is *)
(* left out.  The definitions marked as mutants are not part of the model: *)
(* each is what a plausible slip would make of the definition below it.    *)
(***************************************************************************)
EXTENDS SyncState

-----------------------------------------------------------------------------
(* Process memory: what init() sets up, and what exit(1) loses. *)

Everywhere(value) == [c \in Client |-> value]

\* client_mutex is held by a session that is about to call send_file.
Giving == {"give", "giveNew"}
MutexFree == \A c \in Client : phase[c] \notin Giving

SlotsInit ==
  /\ slots = {}
  /\ phase = Everywhere("dead")
  /\ refresh = Everywhere(NoRefresh)
  /\ sharing = Everywhere(FALSE)
  /\ files = Everywhere(clear_files)
  /\ fileLength = Everywhere(0)
  /\ upload = Everywhere(NoTransfer)

SlotsReset ==
  /\ slots' = {}
  /\ phase' = Everywhere("dead")
  /\ refresh' = Everywhere(NoRefresh)
  /\ sharing' = Everywhere(FALSE)
  /\ files' = Everywhere(clear_files)
  /\ fileLength' = Everywhere(0)
  /\ upload' = Everywhere(NoTransfer)

(***************************************************************************)
(* The process ends: exit(1) on some error path, a signal, or a crash.     *)
(* Unread requests are lost, and a body that was being sent may be cut.    *)
(* sent is what has been written to the clients by then.                   *)
(***************************************************************************)
DiesHavingSent(sent) ==
  /\ serverUp' = FALSE
  /\ SlotsReset
  /\ toServer' = Everywhere(<<>>)
  /\ \E cut \in SUBSET {c \in Client : ServerEnd(c)} :
       toClient' = [c \in Client |-> IF c \in cut THEN Trim(sent[c])
                                     ELSE sent[c]]

ServerDies == DiesHavingSent(toClient)

\* main starts over: the slots are empty, server_files/ is what it was.
ServerBoots ==
  /\ ~ serverUp
  /\ serverUp' = TRUE
  /\ UNCHANGED <<disk, slotVars, wireVars>>

(***************************************************************************)
(* The login half of startConsThread: add_client and check_sharing.  A     *)
(* user that is known gets the old slot back, files and fileLength as they *)
(* were.                                                                   *)
(***************************************************************************)
ServerLogin(c) ==
  /\ serverUp
  /\ MutexFree
  /\ phase[c] = "dead"
  /\ c \in slots \/ Cardinality(slots) < MaxClients
  /\ slots' = slots \cup {c}
  /\ phase' = [phase EXCEPT ![c] = "sync"]
  /\ refresh' = [refresh EXCEPT ![c] = NoRefresh]
  /\ sharing' = [sharing EXCEPT
                   ![c] = \E o \in slots \ {c} : DirOf[o] = DirOf[c]]
  /\ UNCHANGED <<serverUp, disk, files, fileLength, upload>>

\* add_client finds no slot: "Too many clients", and the process exits.
LoginRefused(c) ==
  /\ serverUp
  /\ MutexFree
  /\ c \notin slots
  /\ Cardinality(slots) >= MaxClients
  /\ ServerDies
  /\ UNCHANGED disk

CloseConnection(c) ==
  /\ phase' = [phase EXCEPT ![c] = "dead"]
  /\ upload' = [upload EXCEPT ![c] = NoTransfer]
  /\ toServer' = [toServer EXCEPT ![c] = <<>>]

-----------------------------------------------------------------------------
(* State SYNC. *)

(***************************************************************************)
(* The refresh at the top of the loop, refresh_file_times.  The flag is    *)
(* set by the last response of a cycle, so this runs right after that      *)
(* response and before the thread blocks in Readn.  It walks the array up  *)
(* to the first empty entry: readdir until the name is found, then stat by *)
(* name.                                                                   *)
(***************************************************************************)
Refreshing(c, found) ==
  phase[c] = "sync" /\ refresh[c].entry > 0 /\ refresh[c].found = found

RefreshName(c) == At(files[c], refresh[c].entry).filename

AtEntry(c, found) == Refreshing(c, found) /\ RefreshName(c) # NoName

NextEntry(c) ==
  refresh' = [refresh EXCEPT
                ![c] = [entry |-> refresh[c].entry + 1, found |-> FALSE]]

RefreshFinds(c) ==
  /\ AtEntry(c, FALSE)
  /\ Exists(disk, RefreshName(c))
  /\ refresh' = [refresh EXCEPT ![c].found = TRUE]
  /\ UNCHANGED <<serverUp, disk, slots, phase, sharing, files, fileLength,
                 upload, wireVars>>

RefreshSkips(c) ==
  /\ AtEntry(c, FALSE)
  /\ ~ Exists(disk, RefreshName(c))
  /\ NextEntry(c)
  /\ UNCHANGED <<serverUp, disk, slots, phase, sharing, files, fileLength,
                 upload, wireVars>>

RefreshTakes(c) ==
  /\ AtEntry(c, TRUE)
  /\ Exists(disk, RefreshName(c))
  /\ \E t \in DirTime :
       files' = [files EXCEPT
                   ![c] = RefreshEntry(@, refresh[c].entry, disk, t)]
  /\ NextEntry(c)
  /\ UNCHANGED <<serverUp, disk, slots, phase, sharing, fileLength, upload,
                 wireVars>>

\* The file was removed since readdir: stat fails, and the process exits.
RefreshFails(c) ==
  /\ AtEntry(c, TRUE)
  /\ ~ Exists(disk, RefreshName(c))
  /\ ServerDies
  /\ UNCHANGED disk

RefreshDone(c) ==
  /\ Refreshing(c, FALSE)
  /\ RefreshName(c) = NoName
  /\ refresh' = [refresh EXCEPT ![c] = NoRefresh]
  /\ UNCHANGED <<serverUp, disk, slots, phase, sharing, files, fileLength,
                 upload, wireVars>>

\* Mutant: the socket is closed twice here as well, and the process exits.
ClientGoneExits(c) ==
  /\ phase[c] = "sync"
  /\ refresh[c] = NoRefresh
  /\ toServer[c] = <<>>
  /\ ~ ClientEnd(c)
  /\ ServerDies
  /\ UNCHANGED disk

\* Readn returns 0: the client has closed its end.
ClientGone(c) ==
  /\ phase[c] = "sync"
  /\ refresh[c] = NoRefresh
  /\ toServer[c] = <<>>
  /\ ~ ClientEnd(c)
  /\ CloseConnection(c)
  /\ UNCHANGED <<serverUp, disk, slots, refresh, sharing, files, fileLength,
                 toClient>>

(***************************************************************************)
(* A request is read and process_client_request is called.                 *)
(***************************************************************************)
Packet(c) == Head(toServer[c])

Request(c) ==
  /\ MutexFree
  /\ phase[c] = "sync"
  /\ refresh[c] = NoRefresh
  /\ toServer[c] # <<>>
  /\ Packet(c).kind = "header"

\* A request for which stat is called on a name that readdir has returned:
\* any name in send_new_file, the packet's in add_shared.
Stats(c, name) ==
  /\ Request(c)
  /\ Packet(c).filename = NoName \/ (sharing[c] /\ Packet(c).filename = name)

Consume(c) == toServer' = [toServer EXCEPT ![c] = Tail(@)]

\* Writen on the connection: what is written to a closed end is lost.
Sent(c, header) ==
  IF ClientEnd(c) THEN [toClient EXCEPT ![c] = Append(@, header)] ELSE toClient

Respond(c, header) == toClient' = Sent(c, header)

\* A response that send_file is to follow; the request is not over yet.
Announce(c, position, header) ==
  /\ Respond(c, header)
  /\ upload' = [upload EXCEPT
                  ![c] = [NoTransfer EXCEPT !.name = header.filename]]
  /\ phase' = [phase EXCEPT ![c] = position]

\* SIGPIPE: writing to a client that is gone may kill the process.
BrokenPipe(c) ==
  /\ Request(c) \/ (phase[c] \in Giving /\ upload[c].name \in FileName)
  /\ ~ ClientEnd(c)
  /\ ServerDies
  /\ UNCHANGED disk

-----------------------------------------------------------------------------
(* The empty packet: send_new_file. *)

Unknown(c, name) ==
  /\ name \in FileName
  /\ Exists(disk, name)
  /\ ~ Listed(files[c], name)

\* One file the client is not known to have is announced and recorded.
SendNewFile(c) ==
  /\ Request(c)
  /\ Packet(c).filename = NoName
  /\ \E name \in FileName, i \in Slot :
       /\ Unknown(c, name)
       /\ CheckFile(files[c], name, i)
       /\ Announce(c, "giveNew", Header(name, disk[name].mtime))
       /\ files' = [files EXCEPT ![c] = Record(@, i, name, disk[name].mtime)]
  /\ Consume(c)
  /\ UNCHANGED <<serverUp, disk, slots, refresh, sharing, fileLength>>

\* check_file finds no slot and send_new_file dereferences NULL.
NewFileOverflow(c) ==
  /\ Request(c)
  /\ Packet(c).filename = NoName
  /\ \E name \in FileName :
       /\ Unknown(c, name)
       /\ TableFull(files[c], name)
       /\ DiesHavingSent(Sent(c, Header(name, disk[name].mtime)))
  /\ UNCHANGED disk

\* No new files: the cycle of this client is complete.
NoNewFile(c) ==
  /\ Request(c)
  /\ Packet(c).filename = NoName
  /\ \A name \in FileName : ~ Unknown(c, name)
  /\ Respond(c, Header(NoName, 0))
  /\ refresh' = [refresh EXCEPT ![c].entry = 1]
  /\ Consume(c)
  /\ UNCHANGED <<serverUp, disk, slots, phase, sharing, files, fileLength,
                 upload>>

-----------------------------------------------------------------------------
(***************************************************************************)
(* A regular packet: add_shared, then check_file.  Looked(c, i, t) says    *)
(* that the name's entry is slot i and that its mtime is t by then, Table  *)
(* is the array with that entry.                                           *)
(***************************************************************************)
Named(c) == Request(c) /\ Packet(c).filename # NoName

OnDisk(c) == sharing[c] /\ Exists(disk, Packet(c).filename)

EntryTime(c, i) ==
  IF ~ OnDisk(c) THEN {files[c][i].mtime}
  ELSE IF Packet(c).filename \in DirName THEN DirTime
  ELSE {disk[Packet(c).filename].mtime}

Looked(c, i, t) ==
  /\ CheckFile(files[c], Packet(c).filename, i)
  /\ t \in EntryTime(c, i)

Table(c, i, t) == Record(files[c], i, Packet(c).filename, t)

\* add_shared dereferences the NULL that check_file returns.
AddSharedOverflow(c) ==
  /\ Named(c)
  /\ TableFull(files[c], Packet(c).filename)
  /\ OnDisk(c)
  /\ ServerDies
  /\ UNCHANGED disk

\* Mutant: the file is skipped, and the connection kept.
RefuseFileSkips(c) ==
  /\ Named(c)
  /\ TableFull(files[c], Packet(c).filename)
  /\ ~ OnDisk(c)
  /\ Consume(c)
  /\ UNCHANGED <<serverUp, disk, slots, phase, refresh, sharing, files,
                 fileLength, upload, toClient>>

\* "Maximum file limit reached ... Non-graceful kill to client".
RefuseFile(c) ==
  /\ Named(c)
  /\ TableFull(files[c], Packet(c).filename)
  /\ ~ OnDisk(c)
  /\ CloseConnection(c)
  /\ UNCHANGED <<serverUp, disk, slots, refresh, sharing, files, fileLength,
                 toClient>>

\* A file of this client is gone from server_files/: the client is told so,
\* and gets no answer to what it asked.
NotifyDeleted(c) ==
  /\ Named(c)
  /\ \E i \in Slot : \E t \in EntryTime(c, i), j \in 1..fileLength[c] :
       /\ Looked(c, i, t)
       /\ FirstMissing(Table(c, i, t), fileLength[c], disk, j)
       /\ Respond(c, Header(At(Table(c, i, t), j).filename, Deleted))
       /\ files' = [files EXCEPT
                      ![c] = Clean(Table(c, i, t), fileLength[c], j)]
  /\ fileLength' = [fileLength EXCEPT ![c] = @ - 1]
  /\ Consume(c)
  /\ UNCHANGED <<serverUp, disk, slots, phase, refresh, sharing, upload>>

\* The entry whose mtime the response carries, when no file is missing.
Answered(c, i, t) ==
  /\ Looked(c, i, t)
  /\ NoneMissing(Table(c, i, t), fileLength[c], disk)

\* The client has deleted the file: remove it here as well.
AcceptDeletion(c) ==
  /\ Named(c)
  /\ \E i \in Slot : \E t \in EntryTime(c, i) :
       /\ Answered(c, i, t)
       /\ Packet(c).mtime = Deleted
       /\ Respond(c, Header(Packet(c).filename, t))
       /\ LET clean == CleanName(Table(c, i, t), fileLength[c],
                                 Packet(c).filename)
          IN  /\ files' = [files EXCEPT ![c] = clean.files]
              /\ fileLength' = [fileLength EXCEPT ![c] = clean.len]
  /\ disk' = IF Packet(c).filename \in FileName
             THEN [disk EXCEPT ![Packet(c).filename] = Absent] ELSE disk
  /\ upload' = [d \in Client |-> Unlink(upload[d], Packet(c).filename)]
  /\ Consume(c)
  /\ UNCHANGED <<serverUp, slots, phase, refresh, sharing>>

\* Mutant: the index left by a loop, 0, selects the name.
AskForFileFirst(c) ==
  /\ Named(c)
  /\ \E i \in Slot : \E t \in EntryTime(c, i) :
       /\ Answered(c, i, t)
       /\ Packet(c).mtime > t
       /\ Respond(c, Header(Packet(c).filename, t))
       /\ files' = [files EXCEPT ![c] = Table(c, i, Packet(c).mtime)]
       /\ upload' = [upload EXCEPT ![c] = [name |-> files'[c][1].filename,
                                           mtime |-> Packet(c).mtime,
                                           link |-> "gone"]]
  /\ phase' = [phase EXCEPT ![c] = "getfile"]
  /\ Consume(c)
  /\ UNCHANGED <<serverUp, disk, slots, refresh, sharing, fileLength>>

\* "Client has a more recent file": expect its content next.
AskForFile(c) ==
  /\ Named(c)
  /\ \E i \in Slot : \E t \in EntryTime(c, i) :
       /\ Answered(c, i, t)
       /\ Packet(c).mtime > t
       /\ Respond(c, Header(Packet(c).filename, t))
       /\ files' = [files EXCEPT ![c] = Table(c, i, Packet(c).mtime)]
  /\ upload' = [upload EXCEPT ![c] = [name |-> Packet(c).filename,
                                      mtime |-> Packet(c).mtime,
                                      link |-> "gone"]]
  /\ phase' = [phase EXCEPT ![c] = "getfile"]
  /\ Consume(c)
  /\ UNCHANGED <<serverUp, disk, slots, refresh, sharing, fileLength>>

\* Mutant: <= for <.
SendNewerSameAge(c) ==
  /\ Named(c)
  /\ \E i \in Slot : \E t \in EntryTime(c, i) :
       /\ Answered(c, i, t)
       /\ Packet(c).mtime \in 0..t
       /\ Announce(c, "give", Header(Packet(c).filename, t))
       /\ files' = [files EXCEPT ![c] = Table(c, i, t)]
  /\ Consume(c)
  /\ UNCHANGED <<serverUp, disk, slots, refresh, sharing, fileLength>>

\* "Server has a more recent file, send it."
SendNewer(c) ==
  /\ Named(c)
  /\ \E i \in Slot : \E t \in EntryTime(c, i) :
       /\ Answered(c, i, t)
       /\ Packet(c).mtime \in 0..(t-1)
       /\ Announce(c, "give", Header(Packet(c).filename, t))
       /\ files' = [files EXCEPT ![c] = Table(c, i, t)]
  /\ Consume(c)
  /\ UNCHANGED <<serverUp, disk, slots, refresh, sharing, fileLength>>

AlreadyInSync(c) ==
  /\ Named(c)
  /\ \E i \in Slot : \E t \in EntryTime(c, i) :
       /\ Answered(c, i, t)
       /\ Packet(c).mtime = t
       /\ Respond(c, Header(Packet(c).filename, t))
       /\ files' = [files EXCEPT ![c] = Table(c, i, t)]
  /\ Consume(c)
  /\ UNCHANGED <<serverUp, disk, slots, phase, refresh, sharing, fileLength,
                 upload>>

-----------------------------------------------------------------------------
(* The end of a request: send_file, with the mutex held.                   *)

\* What is read is what the file holds by now; nothing of a directory.
GiveFile(c) ==
  LET name == upload[c].name
  IN  /\ phase[c] \in Giving
      /\ Exists(disk, name)
      /\ IF name \in FileName THEN Respond(c, Body(disk[name].data))
         ELSE UNCHANGED toClient
      /\ fileLength' = [fileLength EXCEPT
                          ![c] = IF phase[c] = "giveNew" THEN @ + 1 ELSE @]
      /\ phase' = [phase EXCEPT ![c] = "sync"]
      /\ upload' = [upload EXCEPT ![c] = NoTransfer]
      /\ UNCHANGED <<serverUp, disk, slots, refresh, sharing, files, toServer>>

\* fopen fails: the entry is newer than the client's file, but nothing is
\* there, or the file was removed since the stat.
GiveNothing(c) ==
  /\ phase[c] \in Giving
  /\ ~ Exists(disk, upload[c].name)
  /\ ServerDies
  /\ UNCHANGED disk

-----------------------------------------------------------------------------
(* State GETFILE; none of this holds the mutex. *)

\* fopen(fullpath, "w"): the file is created or emptied.
GetOpen(c) ==
  LET name == upload[c].name
      others == {d \in Client \ {c} : /\ phase[d] = "writing"
                                      /\ upload[d].name = name
                                      /\ upload[d].link # "gone"}
      link == IF others = {} THEN "own" ELSE "shared"
  IN  /\ phase[c] = "getfile"
      /\ name \in FileName
      /\ disk' = [disk EXCEPT ![name] = [mtime |-> now, data |-> Torn(name)]]
      /\ upload' = [d \in Client |->
                      IF d = c \/ d \in others
                      THEN [upload[d] EXCEPT !.link = link] ELSE upload[d]]
      /\ phase' = [phase EXCEPT ![c] = "writing"]
      /\ UNCHANGED <<serverUp, slots, refresh, sharing, files, fileLength,
                     wireVars>>

\* A directory cannot be opened for writing.
GetDirectory(c) ==
  /\ phase[c] = "getfile"
  /\ upload[c].name \in DirName
  /\ ServerDies
  /\ UNCHANGED disk

\* Mutant: fileLength is not counted.
GetDataUncounted(c) ==
  LET name == upload[c].name
  IN  /\ phase[c] = "writing"
      /\ toServer[c] # <<>>
      /\ Packet(c).kind = "body"
      /\ disk' = IF upload[c].link = "gone" THEN disk
                 ELSE [disk EXCEPT ![name] = [mtime |-> now,
                                              data |-> Packet(c).data]]
      /\ phase' = [phase EXCEPT ![c] = "stamp"]
      /\ Consume(c)
      /\ UNCHANGED <<serverUp, slots, refresh, sharing, files, fileLength,
                     upload, toClient>>

\* Mutant: the last chunk is received, but not written.
GetDataUnwritten(c) ==
  LET name == upload[c].name
  IN  /\ phase[c] = "writing"
      /\ toServer[c] # <<>>
      /\ Packet(c).kind = "body"
      /\ disk' = IF upload[c].link = "gone" THEN disk
                 ELSE [disk EXCEPT ![name] = [mtime |-> now,
                                              data |-> Torn(name)]]
      /\ fileLength' = [fileLength EXCEPT ![c] = @ + 1]
      /\ phase' = [phase EXCEPT ![c] = "stamp"]
      /\ Consume(c)
      /\ UNCHANGED <<serverUp, slots, refresh, sharing, files, upload,
                     toClient>>

\* Mutant: one Readn too many, which swallows the request that follows.
GetDataOneMore(c) ==
  LET name == upload[c].name
  IN  /\ phase[c] = "writing"
      /\ Len(toServer[c]) > 1
      /\ disk' = [disk EXCEPT ![name] = [mtime |-> now,
                                         data |-> Packet(c).data]]
      /\ fileLength' = [fileLength EXCEPT ![c] = @ + 1]
      /\ phase' = [phase EXCEPT ![c] = "stamp"]
      /\ toServer' = [toServer EXCEPT ![c] = Tail(Tail(@))]
      /\ UNCHANGED <<serverUp, slots, refresh, sharing, files, upload,
                     toClient>>

\* All bytes have been received: fileLength++, even for a file that is not new.
GetData(c) ==
  LET name == upload[c].name
  IN  /\ phase[c] = "writing"
      /\ toServer[c] # <<>>
      /\ Packet(c).kind = "body"
      /\ \E data \in {Packet(c).data} \cup
                     (IF upload[c].link = "shared" THEN {Torn(name)} ELSE {}) :
           disk' = IF upload[c].link = "gone" THEN disk
                   ELSE [disk EXCEPT ![name] = [mtime |-> now, data |-> data]]
      /\ fileLength' = [fileLength EXCEPT ![c] = @ + 1]
      /\ phase' = [phase EXCEPT ![c] = "stamp"]
      /\ Consume(c)
      /\ UNCHANGED <<serverUp, slots, refresh, sharing, files, upload,
                     toClient>>

\* The client went away: the second close_connection fails and exits.
GetEof(c) ==
  /\ phase[c] = "writing"
  /\ toServer[c] = <<>>
  /\ ~ ClientEnd(c)
  /\ ServerDies
  /\ UNCHANGED disk

\* Mutant: utime is not called.
GetStampNoUtime(c) ==
  /\ phase[c] = "stamp"
  /\ IF Exists(disk, upload[c].name)
     THEN /\ phase' = [phase EXCEPT ![c] = "sync"]
          /\ upload' = [upload EXCEPT ![c] = NoTransfer]
          /\ UNCHANGED <<serverUp, disk, slots, refresh, sharing, files,
                         fileLength, wireVars>>
     ELSE ServerDies /\ UNCHANGED disk

\* stat and utime, by name; stat fails when the file is gone.
GetStamp(c) ==
  LET name == upload[c].name
  IN  /\ phase[c] = "stamp"
      /\ IF Exists(disk, name)
         THEN /\ disk' = [disk EXCEPT ![name].mtime = upload[c].mtime]
              /\ phase' = [phase EXCEPT ![c] = "sync"]
              /\ upload' = [upload EXCEPT ![c] = NoTransfer]
              /\ UNCHANGED <<serverUp, slots, refresh, sharing, files,
                             fileLength, wireVars>>
         ELSE ServerDies /\ UNCHANGED disk

-----------------------------------------------------------------------------
ServerStep(c) ==
  \/ RefreshFinds(c) \/ RefreshSkips(c) \/ RefreshTakes(c) \/ RefreshFails(c)
  \/ RefreshDone(c) \/ ClientGone(c) \/ BrokenPipe(c)
  \/ SendNewFile(c) \/ NewFileOverflow(c) \/ NoNewFile(c)
  \/ AddSharedOverflow(c) \/ RefuseFile(c) \/ NotifyDeleted(c)
  \/ AcceptDeletion(c) \/ AskForFile(c) \/ SendNewer(c)
  \/ AlreadyInSync(c) \/ GiveFile(c) \/ GiveNothing(c)
  \/ GetOpen(c) \/ GetDirectory(c) \/ GetData(c) \/ GetEof(c) \/ GetStamp(c)
=============================================================================
