------------------------------ MODULE SyncClient -----------------------------
(***************************************************************************)
(* The client, dbclient.c, after it has connected: one process running     *)
(* sync_files.  pc[c] is its position:                                     *)
(*   "off"      not running                                                *)
(*   "scan"     start of a cycle (asleep before it, or looking for files   *)
(*              of currentFileNames that are gone)                         *)
(*   "ackDel"   has reported a deletion, waits for the response            *)
(*   "walk"     in the readdir loop                                        *)
(*   "ackSync"  has sent a sync packet, waits for the response             *)
(*   "recv"     in get_file, called for a newer version                    *)
(*   "ackNew"   has sent an empty packet, waits for the response           *)
(*   "recvNew"  in get_file, called from retrieve_new_files                *)
(*                                                                         *)
(* The order of currentFileNames is left out: known is a bag.  readdir     *)
(* returns the files that were there at opendir, in any order.             *)
(***************************************************************************)
EXTENDS SyncState

NothingKnown == [name \in EntryName |-> 0]

ClientInit ==
  /\ pc = [c \in Client |-> "off"]
  /\ known = [c \in Client |-> NothingKnown]
  /\ todo = [c \in Client |-> {}]
  /\ count = [c \in Client |-> 0]
  /\ cur = [c \in Client |-> NoTransfer]

(***************************************************************************)
(* main, setup and the first lines of sync_files, once the connection is   *)
(* up: the regular files of the folder become currentFileNames.            *)
(***************************************************************************)
ClientStart(c) ==
  /\ pc[c] = "off"
  /\ pc' = [pc EXCEPT ![c] = "scan"]
  /\ known' = [known EXCEPT
       ![c] = [name \in EntryName |->
                 IF name \in FileName /\ Exists(local[c], name) THEN 1 ELSE 0]]
  /\ UNCHANGED <<todo, count, cur, local>>

\* exit(1), a fatal signal, or a crash; the kernel closes the connection.
Exit(c) ==
  /\ pc' = [pc EXCEPT ![c] = "off"]
  /\ known' = [known EXCEPT ![c] = NothingKnown]
  /\ todo' = [todo EXCEPT ![c] = {}]
  /\ count' = [count EXCEPT ![c] = 0]
  /\ cur' = [cur EXCEPT ![c] = NoTransfer]
  /\ toClient' = [toClient EXCEPT ![c] = <<>>]

ExitOnly(c) == Exit(c) /\ UNCHANGED <<local, toServer>>

-----------------------------------------------------------------------------
(* Talking to the server: Writen to a closed connection has no effect, the *)
(* Readn that follows then tells.                                          *)

Send(c, message) ==
  toServer' = IF ServerEnd(c)
              THEN [toServer EXCEPT ![c] = Append(@, message)] ELSE toServer

\* The empty packet of retrieve_new_files.
AskNew(c) ==
  /\ Send(c, Header(NoName, 0))
  /\ pc' = [pc EXCEPT ![c] = "ackNew"]
  /\ cur' = [cur EXCEPT ![c] = NoTransfer]

Response(c) == Head(toClient[c])

Acked(c) == toClient[c] # <<>> /\ Response(c).kind = "header"

Receive(c) == toClient' = [toClient EXCEPT ![c] = Tail(@)]

\* "Server did not acknowledge": end of file instead of a response.
Unanswered(c) ==
  /\ pc[c] \in {"ackDel", "ackSync", "ackNew"}
  /\ toClient[c] = <<>>
  /\ ~ ServerEnd(c)
  /\ ExitOnly(c)

-----------------------------------------------------------------------------
(* The search for deleted files. *)

Gone(c, name) == known[c][name] > 0 /\ ~ Exists(local[c], name)

\* One deletion is reported; the readdir loop is skipped in this cycle.
ReportDeleted(c) ==
  /\ pc[c] = "scan"
  /\ \E name \in FileName :
       /\ Gone(c, name)
       /\ Send(c, Header(name, Deleted))
       /\ cur' = [cur EXCEPT
                    ![c] = [name |-> name, mtime |-> Deleted, link |-> "gone"]]
  /\ pc' = [pc EXCEPT ![c] = "ackDel"]
  /\ UNCHANGED <<known, todo, count, local, toClient>>

StartWalk(c) ==
  /\ pc[c] = "scan"
  /\ \A name \in FileName : ~ Gone(c, name)
  /\ pc' = [pc EXCEPT ![c] = "walk"]
  /\ todo' = [todo EXCEPT ![c] = Present(local[c])]
  /\ count' = [count EXCEPT ![c] = 0]
  /\ UNCHANGED <<known, cur, local, wireVars>>

(***************************************************************************)
(* With no known file the search loop does not run and file_exists is read *)
(* without having been set.  When it reads 0, currentFileNames[0], a null  *)
(* pointer, is taken for the name of a deleted file.                       *)
(***************************************************************************)
NullName(c) ==
  /\ pc[c] = "scan"
  /\ known[c] = NothingKnown
  /\ ExitOnly(c)

\* The response to a reported deletion is not looked at.
AckDeletion(c) ==
  /\ pc[c] = "ackDel"
  /\ Acked(c)
  /\ known' = [known EXCEPT ![c][cur[c].name] = @ - 1]
  /\ Receive(c)
  /\ AskNew(c)
  /\ UNCHANGED <<todo, count, local>>

-----------------------------------------------------------------------------
(* The readdir loop. *)

Walk(c, name) ==
  /\ pc[c] = "walk"
  /\ name \in todo[c]
  /\ count[c] < MaxFiles
  /\ Exists(local[c], name)
  /\ \E t \in DirTime :
       LET mtime == MTime(local[c], name, t)
       IN  /\ Send(c, Header(name, mtime))
           /\ cur' = [cur EXCEPT
                ![c] = [name |-> name, mtime |-> mtime, link |-> "gone"]]
  /\ known' = [known EXCEPT ![c][name] = IF @ = 0 THEN 1 ELSE @]
  /\ todo' = [todo EXCEPT ![c] = @ \ {name}]
  /\ count' = [count EXCEPT ![c] = @ + 1]
  /\ pc' = [pc EXCEPT ![c] = "ackSync"]
  /\ UNCHANGED <<local, toClient>>

\* The file went away between readdir and stat.
WalkVanished(c) ==
  /\ pc[c] = "walk"
  /\ count[c] < MaxFiles
  /\ \E name \in todo[c] : ~ Exists(local[c], name)
  /\ ExitOnly(c)

WalkDone(c) ==
  /\ pc[c] = "walk"
  /\ todo[c] = {} \/ count[c] >= MaxFiles
  /\ AskNew(c)
  /\ todo' = [todo EXCEPT ![c] = {}]
  /\ UNCHANGED <<known, count, local, toClient>>

SyncAcked(c) == pc[c] = "ackSync" /\ Acked(c)

\* The server names a file that is gone there: remove it, and start the
\* directory stream over.  Skipping past what moves into a removed place, the
\* loop over currentFileNames misses the second of two adjacent occurrences.
RemoveFile(c) ==
  /\ SyncAcked(c)
  /\ Response(c).mtime = Deleted
  /\ LET name == Response(c).filename
     IN  /\ local' = IF name \in FileName
                     THEN [local EXCEPT ![c][name] = Absent] ELSE local
         /\ \E left \in 0..(known[c][name] \div 2) :
              known' = [known EXCEPT ![c][name] = left]
  /\ todo' = [todo EXCEPT ![c] = Present(local'[c])]
  /\ cur' = [cur EXCEPT ![c] = NoTransfer]
  /\ pc' = [pc EXCEPT ![c] = "walk"]
  /\ Receive(c)
  /\ UNCHANGED <<count, toServer>>

\* "Client has a newer version": send_file, which reads a directory as empty.
SendFile(c) ==
  /\ SyncAcked(c)
  /\ Response(c).mtime # Deleted
  /\ Response(c).mtime < cur[c].mtime
  /\ Exists(local[c], cur[c].name)
  /\ IF cur[c].name \in FileName
     THEN Send(c, Body(local[c][cur[c].name].data)) ELSE UNCHANGED toServer
  /\ cur' = [cur EXCEPT ![c] = NoTransfer]
  /\ pc' = [pc EXCEPT ![c] = "walk"]
  /\ Receive(c)
  /\ UNCHANGED <<known, todo, count, local>>

\* Mutant: send_file returns and the walk goes on.
SendVanishedGoesOn(c) ==
  /\ SyncAcked(c)
  /\ Response(c).mtime # Deleted
  /\ Response(c).mtime < cur[c].mtime
  /\ ~ Exists(local[c], cur[c].name)
  /\ cur' = [cur EXCEPT ![c] = NoTransfer]
  /\ pc' = [pc EXCEPT ![c] = "walk"]
  /\ Receive(c)
  /\ UNCHANGED <<known, todo, count, local, toServer>>

\* The file went away before send_file could open it.
SendVanished(c) ==
  /\ SyncAcked(c)
  /\ Response(c).mtime # Deleted
  /\ Response(c).mtime < cur[c].mtime
  /\ ~ Exists(local[c], cur[c].name)
  /\ ExitOnly(c)

SameTime(c) ==
  /\ SyncAcked(c)
  /\ Response(c).mtime = cur[c].mtime
  /\ cur' = [cur EXCEPT ![c] = NoTransfer]
  /\ pc' = [pc EXCEPT ![c] = "walk"]
  /\ Receive(c)
  /\ UNCHANGED <<known, todo, count, local, toServer>>

-----------------------------------------------------------------------------
(***************************************************************************)
(* get_file.  The file is created or emptied, and its name appended to     *)
(* currentFileNames whether or not it is there already.                    *)
(***************************************************************************)
GetOpenLocal(c, position) ==
  LET name == Response(c).filename
  IN  /\ name \in FileName
      /\ local' = [local EXCEPT
                     ![c][name] = [mtime |-> now, data |-> Torn(name)]]
      /\ known' = [known EXCEPT ![c][name] = @ + 1]
      /\ cur' = [cur EXCEPT ![c] = [name |-> name,
                                    mtime |-> Response(c).mtime,
                                    link |-> "own"]]
      /\ pc' = [pc EXCEPT ![c] = position]
      /\ Receive(c)
      /\ UNCHANGED <<todo, count, toServer>>

\* Mutant: >= for >.
GetNewerSameAge(c) ==
  /\ SyncAcked(c)
  /\ Response(c).mtime >= cur[c].mtime
  /\ GetOpenLocal(c, "recv")

\* "Server has a more recent version."
GetNewer(c) ==
  /\ SyncAcked(c)
  /\ Response(c).mtime > cur[c].mtime
  /\ GetOpenLocal(c, "recv")

\* Mutant: get_file does not exit, and waits for the content.
GetNewerDirectoryWaits(c) ==
  /\ SyncAcked(c)
  /\ Response(c).mtime > cur[c].mtime
  /\ Response(c).filename \in DirName
  /\ pc' = [pc EXCEPT ![c] = "recv"]
  /\ cur' = [cur EXCEPT ![c] = [name |-> Response(c).filename,
                                mtime |-> Response(c).mtime, link |-> "gone"]]
  /\ Receive(c)
  /\ UNCHANGED <<known, todo, count, local, toServer>>

\* A directory cannot be opened for writing.
GetNewerDirectory(c) ==
  /\ SyncAcked(c)
  /\ Response(c).mtime > cur[c].mtime
  /\ Response(c).filename \in DirName
  /\ ExitOnly(c)

\* retrieve_new_files, one response.
GetNew(c) ==
  /\ pc[c] = "ackNew"
  /\ Acked(c)
  /\ Response(c).filename # NoName
  /\ GetOpenLocal(c, "recvNew")

CycleDone(c) ==
  /\ pc[c] = "ackNew"
  /\ Acked(c)
  /\ Response(c).filename = NoName
  /\ pc' = [pc EXCEPT ![c] = "scan"]
  /\ count' = [count EXCEPT ![c] = 0]
  /\ Receive(c)
  /\ UNCHANGED <<known, todo, cur, local, toServer>>

(***************************************************************************)
(* The bytes are there: write them, close, then stat and utime by name.    *)
(* When the server dies before they are, this never happens: get_file adds *)
(* the 0 or -1 of Readn to readcount and loops.                            *)
(***************************************************************************)
Received(c) ==
  LET name == cur[c].name
      file == [mtime |-> cur[c].mtime,
               data |-> IF cur[c].link = "gone" THEN local[c][name].data
                        ELSE Response(c).data]
  IN  /\ toClient[c] # <<>>
      /\ Response(c).kind = "body"
      /\ Exists(local[c], name)
      /\ local' = [local EXCEPT ![c][name] = file]
      /\ Receive(c)

GetDone(c) ==
  /\ pc[c] = "recv"
  /\ Received(c)
  /\ pc' = [pc EXCEPT ![c] = "walk"]
  /\ cur' = [cur EXCEPT ![c] = NoTransfer]
  /\ UNCHANGED <<known, todo, count, toServer>>

GetNewDone(c) ==
  /\ pc[c] = "recvNew"
  /\ Received(c)
  /\ AskNew(c)
  /\ UNCHANGED <<known, todo, count>>

\* stat fails: the user has deleted the file that was being received.
GetVanished(c) ==
  /\ pc[c] \in {"recv", "recvNew"}
  /\ toClient[c] # <<>>
  /\ ~ Exists(local[c], cur[c].name)
  /\ ExitOnly(c)

-----------------------------------------------------------------------------
ClientStep(c) ==
  \/ Unanswered(c)
  \/ ReportDeleted(c) \/ StartWalk(c) \/ NullName(c) \/ AckDeletion(c)
  \/ \E name \in EntryName : Walk(c, name)
  \/ WalkVanished(c) \/ WalkDone(c)
  \/ RemoveFile(c) \/ SendFile(c) \/ SendVanished(c) \/ SameTime(c)
  \/ GetNewer(c) \/ GetNewerDirectory(c) \/ GetNew(c) \/ CycleDone(c)
  \/ GetDone(c) \/ GetNewDone(c) \/ GetVanished(c)
=============================================================================
