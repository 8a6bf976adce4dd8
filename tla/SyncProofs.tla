------------------------------ MODULE SyncProofs ------------------------------
(***************************************************************************)
(* The theorems about Sync, for any number of clients, files, events and   *)
(* seconds, whatever users, the operator and crashes do.                   *)
(*                                                                         *)
(* The inductive invariant is IInv.  Its three parts need each other: the  *)
(* types need the lock step (the mtime that utime sets is a time), the     *)
(* lock step needs the names (a body that is sent belongs to the file that *)
(* was announced), and the names need the lock step (a body that is read   *)
(* belongs to the file that is open).  A step is shown to keep the types   *)
(* first, then the lock step, then the names.  The theorems follow, and    *)
(* after them the refinement: every step of Sync is one of Conversation,   *)
(* on every connection.                                                    *)
(***************************************************************************)
EXTENDS SyncProps, FileTableProofs, SequenceTheorems, TLAPS

\* The inductive invariant.
IInv == TypeOK /\ InStep /\ ContentKeepsName

-----------------------------------------------------------------------------
(***************************************************************************)
(* Every step of Sync keeps the types of the variables.  That rests on the *)
(* lock step of the connections: the mtime of an upload or a download is a *)
(* time, and the count of a name in currentFileNames is above zero when it *)
(* is decremented, because of what the client remembers while it waits.    *)
(***************************************************************************)

(* Messages and channels: what a header or a body carries, and what        *)
(* writing, reading and cutting does to the channels that occur.           *)

\* The empty sync_message and every other header is a message.
LEMMA HeaderIsMessage ==
  ASSUME NEW name \in EntryName \cup {NoName}, NEW mtime \in MTimes
  PROVE  /\ Header(name, mtime) \in Message
         /\ IsHeader(Header(name, mtime))
         /\ Header(name, mtime).filename = name
         /\ Header(name, mtime).mtime = mtime
  BY DEF Header, Message, HeaderMessage, IsHeader

\* So is the content of a file.
LEMMA BodyIsMessage ==
  ASSUME NEW data \in Content
  PROVE  /\ Body(data) \in Message
         /\ IsBody(Body(data), data.of)
         /\ ~ IsHeader(Body(data))
         /\ Body(data).data = data
  BY DEF Body, Message, BodyMessage, IsHeader, IsBody

\* What a message of either kind carries.
LEMMA MessageFields ==
  ASSUME NEW m \in Message
  PROVE  /\ m.filename \in EntryName \cup {NoName}
         /\ m.mtime \in MTimes
         /\ m.kind = "header" \/ m.kind = "body"
         /\ m.kind = "body" => m.data \in Content
  BY DEF Message, HeaderMessage, BodyMessage, MTimes

\* A channel with one message.
LEMMA OneMessage ==
  ASSUME NEW m \in Message
  PROVE  /\ <<m>> \in Seq(Message)
         /\ <<m>> # <<>>
         /\ Head(<<m>>) = m
         /\ Tail(<<m>>) = <<>>
         /\ Append(<<>>, m) = <<m>>
  BY SMT

\* Writing to a channel.
LEMMA Appended ==
  ASSUME NEW s \in Seq(Message), NEW m \in Message
  PROVE  /\ Append(s, m) \in Seq(Message)
         /\ Append(s, m) # <<>>
         /\ s # <<>> => /\ Head(Append(s, m)) = Head(s)
                        /\ Tail(Append(s, m)) = Append(Tail(s), m)
  BY SMT

\* Reading from one.
LEMMA Consumed ==
  ASSUME NEW s \in Seq(Message), s # <<>>
  PROVE  Head(s) \in Message /\ Tail(s) \in Seq(Message)
  BY SMT

\* A channel with two messages.
LEMMA TwoMessages ==
  ASSUME NEW M, NEW s \in Seq(M), Len(s) = 2
  PROVE  /\ SubSeq(s, 1, 1) = <<Head(s)>>
         /\ s[2] = Head(Tail(s))
<1>1. Head(s) = s[1] /\ s[1] \in M /\ s[2] \in M
  BY SMT
<1>2. /\ SubSeq(s, 1, 1) \in Seq(M)
      /\ Len(SubSeq(s, 1, 1)) = 1
      /\ SubSeq(s, 1, 1)[1] = s[1]
  BY SubSeqProperties, SMT
<1>3. /\ <<s[1]>> \in Seq(M)
      /\ Len(<<s[1]>>) = 1
      /\ <<s[1]>>[1] = s[1]
  BY <1>1, SMT
<1>4. s[2] = Head(Tail(s))
  BY HeadTailProperties, SMT
<1>5. \A i \in 1..Len(SubSeq(s, 1, 1)) : SubSeq(s, 1, 1)[i] = <<s[1]>>[i]
  BY <1>2, <1>3
<1>6. SubSeq(s, 1, 1) = <<s[1]>>
  BY <1>2, <1>3, <1>5, SeqEqual, Zenon
<1> QED
  BY <1>1, <1>4, <1>6

\* What Trim leaves of the channels that occur.
LEMMA TrimShapes ==
  ASSUME NEW s \in Seq(Message)
  PROVE  /\ Trim(s) \in Seq(Message)
         /\ s = <<>> => Trim(s) = <<>>
         /\ s # <<>> /\ Tail(s) = <<>> => Trim(s) \in {s, <<>>}
         /\ s # <<>> /\ Tail(s) # <<>> /\ Tail(Tail(s)) = <<>> =>
              /\ Trim(s) \in {s, <<Head(s)>>}
              /\ IsHeader(Head(Tail(s))) => Trim(s) = s
<1>1. Len(<<>>) = 0 /\ (s # <<>> => Len(s) \in Nat \ {0})
  BY SMT
<1>2. CASE s = <<>>
  BY <1>2 DEF Trim
<1>3. CASE s # <<>> /\ Tail(s) = <<>>
  <2>1. Len(s) = 1
    <3>1. Len(Tail(s)) = Len(s) - 1
      BY <1>3, HeadTailProperties
    <3> QED
      BY <1>1, <1>3, <3>1
  <2>2. SubSeq(s, 1, Len(s) - 1) = <<>>
    BY <2>1
  <2> QED
    BY <1>3, <2>2 DEF Trim
<1>4. CASE s # <<>> /\ Tail(s) # <<>> /\ Tail(Tail(s)) = <<>>
  <2>1. Len(s) = 2
    <3>1. /\ Tail(s) \in Seq(Message)
          /\ Len(Tail(s)) = Len(s) - 1
          /\ Len(Tail(Tail(s))) = Len(Tail(s)) - 1
      BY <1>4, HeadTailProperties
    <3>2. Len(s) \in Nat /\ Len(Tail(s)) \in Nat
      BY <3>1, LenProperties
    <3>3. Len(Tail(Tail(s))) = 0
      BY <1>1, <1>4
    <3> QED
      BY <3>1, <3>2, <3>3
  <2> QED
    BY <1>4, <2>1, TwoMessages, Consumed, OneMessage DEF Trim, IsHeader
<1>5. CASE s # <<>> /\ Tail(s) # <<>> /\ Tail(Tail(s)) # <<>>
  BY <1>5 DEF Trim
<1> QED
  BY <1>2, <1>3, <1>4, <1>5

-----------------------------------------------------------------------------
(* Folders and times. *)

\* What stat returns for a directory is a time.
LEMMA DirTimeIsTime ==
  ASSUME TypeOK
  PROVE  DirTime \subseteq Nat
  BY SyncAssumption DEF DirTime, TypeOK

\* Every file in a folder has an mtime and a content.
LEMMA FileInFolder ==
  ASSUME NEW folder \in Folder, NEW name \in FileName, Exists(folder, name)
  PROVE  /\ folder[name] \in File
         /\ folder[name].mtime \in Nat
         /\ folder[name].data \in Content
  BY DEF Folder, File, Exists

\* The time in an entry that a request is about.
LEMMA EntryTimeIsTime ==
  ASSUME TypeOK, NEW c \in Client, NEW i \in Slot, NEW t \in EntryTime(c, i),
         Packet(c).filename \in EntryName
  PROVE  t \in Nat
<1>1. CASE ~ OnDisk(c)
  BY <1>1 DEF EntryTime, TypeOK, FileArray, FileInfo
<1>2. CASE OnDisk(c) /\ Packet(c).filename \in DirName
  BY <1>2, DirTimeIsTime DEF EntryTime
<1>3. CASE OnDisk(c) /\ Packet(c).filename \in FileName
  <2>1. disk[Packet(c).filename].mtime \in Nat
    BY <1>3, FileInFolder DEF OnDisk, TypeOK
  <2> QED
    BY <1>3, <2>1, FileTableAssumption DEF EntryTime
<1> QED
  BY <1>1, <1>2, <1>3 DEF EntryName

\* No transfer, and one whose file was unlinked, is a transfer.
LEMMA TransferIsTransfer ==
  /\ NoTransfer \in Transfer
  /\ \A transfer \in Transfer : \A name : Unlink(transfer, name) \in Transfer
  /\ \A transfer \in Transfer, link \in {"own", "shared", "gone"} :
       [transfer EXCEPT !.link = link] \in Transfer
  BY DEF Transfer, NoTransfer, Unlink, MTimes

-----------------------------------------------------------------------------
(* What is read from a connection. *)

\* A request is a sync_message, and the rest of the channel stays a channel.
LEMMA RequestIsMessage ==
  ASSUME TypeOK, NEW c \in Client, toServer[c] # <<>>
  PROVE  /\ Packet(c) \in Message
         /\ Packet(c).filename \in EntryName \cup {NoName}
         /\ Packet(c).mtime \in MTimes
         /\ Packet(c).kind = "body" => Packet(c).data \in Content
         /\ Tail(toServer[c]) \in Seq(Message)
<1>1. toServer[c] \in Seq(Message)
  BY DEF TypeOK
<1> QED
  BY <1>1, Consumed, MessageFields DEF Packet

\* So is a response.
LEMMA ResponseIsMessage ==
  ASSUME TypeOK, NEW c \in Client, toClient[c] # <<>>
  PROVE  /\ Response(c) \in Message
         /\ Response(c).filename \in EntryName \cup {NoName}
         /\ Response(c).mtime \in MTimes
         /\ Response(c).kind = "body" => Response(c).data \in Content
         /\ Tail(toClient[c]) \in Seq(Message)
<1>1. toClient[c] \in Seq(Message)
  BY DEF TypeOK
<1> QED
  BY <1>1, Consumed, MessageFields DEF Response

\* What the server writes keeps the channels channels.
LEMMA SentIsChannel ==
  ASSUME TypeOK, NEW c \in Client, NEW name \in EntryName \cup {NoName},
         NEW mtime \in MTimes
  PROVE  Sent(c, Header(name, mtime)) \in [Client -> Seq(Message)]
<1>1. Append(toClient[c], Header(name, mtime)) \in Seq(Message)
  BY HeaderIsMessage, Appended DEF TypeOK
<1> QED
  BY <1>1 DEF Sent, TypeOK

\* So does the content of a file.
LEMMA ContentIsChannel ==
  ASSUME TypeOK, NEW c \in Client, NEW name \in FileName, Exists(disk, name)
  PROVE  Sent(c, Body(disk[name].data)) \in [Client -> Seq(Message)]
<1>1. Body(disk[name].data) \in Message
  BY FileInFolder, BodyIsMessage DEF TypeOK
<1>2. Append(toClient[c], Body(disk[name].data)) \in Seq(Message)
  BY <1>1, Appended DEF TypeOK
<1> QED
  BY <1>2 DEF Sent, TypeOK

\* An announced transfer is one, and its position is one.
LEMMA AnnounceTypes ==
  ASSUME TypeOK, NEW c \in Client, NEW name \in EntryName, NEW mtime \in MTimes,
         NEW position \in Giving, Announce(c, position, Header(name, mtime))
  PROVE  /\ toClient' \in [Client -> Seq(Message)]
         /\ upload' \in [Client -> Transfer]
         /\ phase' \in [Client -> Phase]
<1>1. Header(name, mtime).filename = name
  BY HeaderIsMessage
<1>2. toClient' \in [Client -> Seq(Message)]
  BY SentIsChannel DEF Announce, Respond
<1>3. [NoTransfer EXCEPT !.name = name] \in Transfer
  BY DEF Transfer, NoTransfer, MTimes
<1> QED
  BY <1>1, <1>2, <1>3 DEF Announce, TypeOK, Phase, Giving

\* No refresh, and the first entry of one.
LEMMA NoRefreshIsState ==
  /\ NoRefresh \in RefreshState
  /\ \A state \in RefreshState : [state EXCEPT !.entry = 1] \in RefreshState
  /\ \A state \in RefreshState : [state EXCEPT !.found = TRUE] \in RefreshState
<1>1. 0 \in 0..(MaxFiles + 1) /\ 1 \in 0..(MaxFiles + 1)
  BY FileTableAssumption
<1> QED
  BY <1>1 DEF NoRefresh, RefreshState

\* When the server dies, its memory is empty and the channels are cut.
LEMMA CrashTypes ==
  ASSUME TypeOK, NEW sent \in [Client -> Seq(Message)], DiesHavingSent(sent),
         ops' \in 0..MaxOps, deleted' \subseteq FileName, disk' \in Folder,
         UNCHANGED <<now, clientVars, local>>
  PROVE  TypeOK'
<1>1. toClient' \in [Client -> Seq(Message)]
  BY TrimShapes DEF DiesHavingSent
<1>2. toServer' \in [Client -> Seq(Message)]
  BY EmptySeq DEF DiesHavingSent, Everywhere
<1>3. /\ files' \in [Client -> FileArray]
      /\ upload' \in [Client -> Transfer]
  BY EmptyIsTable, TransferIsTransfer DEF DiesHavingSent, SlotsReset, Everywhere
<1>4. /\ serverUp' \in BOOLEAN
      /\ slots' \subseteq Client
      /\ phase' \in [Client -> Phase]
      /\ refresh' \in [Client -> RefreshState]
      /\ sharing' \in [Client -> BOOLEAN]
      /\ fileLength' \in [Client -> Nat]
  BY NoRefreshIsState DEF DiesHavingSent, SlotsReset, Everywhere, Phase
<1> QED
  BY <1>1, <1>2, <1>3, <1>4 DEF TypeOK, clientVars

\* The same for a server that has written a response before it dies.
LEMMA DeathTypes ==
  ASSUME TypeOK, NEW sent \in [Client -> Seq(Message)], DiesHavingSent(sent),
         UNCHANGED <<envVars, disk, clientVars, local>>
  PROVE  TypeOK'
<1>1. /\ ops' \in 0..MaxOps /\ deleted' \subseteq FileName /\ disk' \in Folder
      /\ now' = now
  BY DEF TypeOK, envVars
<1> QED
  BY <1>1, CrashTypes

-----------------------------------------------------------------------------
(* The steps of the server. *)

\* State SYNC: every answer to a request, and what comes before one.
LEMMA SyncTypes ==
  ASSUME TypeOK, NEW c \in Client,
         UNCHANGED <<envVars, clientVars, local>>
  PROVE  /\ RefreshFinds(c) \/ RefreshSkips(c) \/ RefreshTakes(c) => TypeOK'
         /\ RefreshDone(c) \/ RefreshFails(c) => TypeOK'
         /\ ClientGone(c) \/ RefuseFile(c) => TypeOK'
         /\ BrokenPipe(c) \/ AddSharedOverflow(c) => TypeOK'
         /\ SendNewFile(c) => TypeOK'
         /\ NewFileOverflow(c) => TypeOK'
         /\ NoNewFile(c) => TypeOK'
<1> USE DEF envVars, clientVars, wireVars
<1> DEFINE entry == refresh[c].entry
\* the refresh is at an entry of the array
<1>0. ASSUME NEW found \in BOOLEAN, AtEntry(c, found)
      PROVE  /\ entry \in Slot
             /\ RefreshName(c) = files[c][entry].filename
  <2>1. entry \in Slot
    BY <1>0 DEF AtEntry, RefreshName, At, EmptySlot
  <2> QED
    BY <2>1 DEF RefreshName, At
<1>1. ASSUME NextEntry(c), entry \in Slot
      PROVE  refresh' \in [Client -> RefreshState]
  BY <1>1, FileTableAssumption DEF NextEntry, Slot, RefreshState, TypeOK
<1>11. ASSUME RefreshFinds(c) \/ RefreshSkips(c) PROVE TypeOK'
  <2>1. refresh' \in [Client -> RefreshState]
    <3>1. CASE RefreshFinds(c)
      BY <3>1, NoRefreshIsState DEF RefreshFinds, TypeOK
    <3>2. CASE RefreshSkips(c)
      BY <1>0, <1>1, <3>2 DEF RefreshSkips
    <3> QED
      BY <1>11, <3>1, <3>2
  <2> QED
    BY <1>11, <2>1 DEF RefreshFinds, RefreshSkips, TypeOK
<1>12. ASSUME RefreshTakes(c) PROVE TypeOK'
  <2>1. PICK t \in DirTime :
          files' = [files EXCEPT ![c] = RefreshEntry(@, entry, disk, t)]
    BY <1>12 DEF RefreshTakes
  <2>2. entry \in Slot /\ RefreshName(c) = files[c][entry].filename
    BY <1>0, <1>12 DEF RefreshTakes
  <2>3. RefreshEntry(files[c], entry, disk, t) \in FileArray
    BY <1>12, <2>2, DirTimeIsTime, RefreshIsTable
       DEF RefreshTakes, AtEntry, TypeOK, Folder, File
  <2>4. refresh' \in [Client -> RefreshState]
    BY <1>1, <1>12, <2>2 DEF RefreshTakes
  <2> QED
    BY <1>12, <2>1, <2>3, <2>4 DEF RefreshTakes, TypeOK
<1>13. ASSUME RefreshDone(c) \/ RefreshFails(c) PROVE TypeOK'
  <2>1. CASE RefreshDone(c)
    BY <2>1, NoRefreshIsState DEF RefreshDone, TypeOK
  <2>2. CASE RefreshFails(c)
    BY <2>2, DeathTypes DEF RefreshFails, ServerDies, TypeOK
  <2> QED
    BY <1>13, <2>1, <2>2
<1>2. ASSUME ClientGone(c) \/ RefuseFile(c) PROVE TypeOK'
  <2>1. /\ CloseConnection(c)
        /\ UNCHANGED <<serverUp, disk, slots, refresh, sharing, files,
                       fileLength, toClient>>
    BY <1>2 DEF ClientGone, RefuseFile
  <2>2. /\ phase' \in [Client -> Phase]
        /\ upload' \in [Client -> Transfer]
        /\ toServer' \in [Client -> Seq(Message)]
    BY <2>1, TransferIsTransfer, EmptySeq DEF CloseConnection, TypeOK, Phase
  <2> QED
    BY <2>1, <2>2 DEF TypeOK
<1>3. ASSUME BrokenPipe(c) \/ AddSharedOverflow(c) PROVE TypeOK'
  BY <1>3, DeathTypes DEF BrokenPipe, AddSharedOverflow, ServerDies, TypeOK
<1>4. ASSUME SendNewFile(c) PROVE TypeOK'
  <2>1. PICK name \in FileName, i \in Slot :
          /\ Unknown(c, name)
          /\ Announce(c, "giveNew", Header(name, disk[name].mtime))
          /\ files' = [files EXCEPT ![c] = Record(@, i, name, disk[name].mtime)]
    BY <1>4 DEF SendNewFile
  <2>2. name \in EntryName /\ disk[name].mtime \in Nat
    BY <2>1, FileInFolder DEF Unknown, EntryName, TypeOK
  <2>3. /\ toClient' \in [Client -> Seq(Message)]
        /\ upload' \in [Client -> Transfer]
        /\ phase' \in [Client -> Phase]
    BY <2>1, <2>2, AnnounceTypes DEF Giving, MTimes
  <2>4. files' \in [Client -> FileArray]
    BY <2>1, <2>2, RecordIsTable DEF TypeOK
  <2>5. toServer' \in [Client -> Seq(Message)]
    BY <1>4, RequestIsMessage DEF SendNewFile, Request, Consume, TypeOK
  <2> QED
    BY <1>4, <2>3, <2>4, <2>5 DEF SendNewFile, TypeOK
<1>5. ASSUME NewFileOverflow(c) PROVE TypeOK'
  <2>1. PICK name \in FileName :
          /\ Unknown(c, name)
          /\ DiesHavingSent(Sent(c, Header(name, disk[name].mtime)))
    BY <1>5 DEF NewFileOverflow
  <2>2. name \in EntryName /\ disk[name].mtime \in MTimes
    BY <2>1, FileInFolder DEF Unknown, EntryName, TypeOK, MTimes
  <2> QED
    BY <1>5, <2>1, <2>2, SentIsChannel, DeathTypes DEF NewFileOverflow
<1>6. ASSUME NoNewFile(c) PROVE TypeOK'
  <2>1. toClient' \in [Client -> Seq(Message)]
    BY <1>6, SentIsChannel DEF NoNewFile, Respond, MTimes
  <2>2. toServer' \in [Client -> Seq(Message)]
    BY <1>6, RequestIsMessage DEF NoNewFile, Request, Consume, TypeOK
  <2>3. refresh' \in [Client -> RefreshState]
    BY <1>6, NoRefreshIsState DEF NoNewFile, TypeOK
  <2> QED
    BY <1>6, <2>1, <2>2, <2>3 DEF NoNewFile, TypeOK
<1> QED
  BY <1>2, <1>3, <1>4, <1>5, <1>6, <1>11, <1>12, <1>13

\* A regular packet.
LEMMA PacketTypes ==
  ASSUME TypeOK, NEW c \in Client,
         UNCHANGED <<envVars, clientVars, local>>
  PROVE  /\ NotifyDeleted(c) => TypeOK'
         /\ AcceptDeletion(c) => TypeOK'
         /\ AskForFile(c) => TypeOK'
         /\ SendNewer(c) => TypeOK'
         /\ AlreadyInSync(c) => TypeOK'
<1> USE DEF envVars, clientVars, wireVars
<1> DEFINE name == Packet(c).filename
<1>1. ASSUME Named(c)
      PROVE  /\ name \in EntryName
             /\ Packet(c).mtime \in MTimes
             /\ Tail(toServer[c]) \in Seq(Message)
  BY <1>1, RequestIsMessage DEF Named, Request
<1>2. ASSUME Named(c), NEW i \in Slot, NEW t \in EntryTime(c, i)
      PROVE  /\ t \in Nat /\ t \in MTimes
             /\ Table(c, i, t) \in FileArray
  <2>1. t \in Nat
    BY <1>1, <1>2, EntryTimeIsTime
  <2> QED
    BY <1>1, <1>2, <2>1, RecordIsTable DEF Table, MTimes, TypeOK
<1>3. ASSUME Named(c), Consume(c) PROVE toServer' \in [Client -> Seq(Message)]
  BY <1>1, <1>3 DEF Consume, TypeOK
<1>4. ASSUME Named(c), NEW i \in Slot, NEW t \in EntryTime(c, i),
             Respond(c, Header(name, t))
      PROVE  toClient' \in [Client -> Seq(Message)]
  BY <1>1, <1>2, <1>4, SentIsChannel DEF Respond
<1>5. ASSUME NotifyDeleted(c) PROVE TypeOK'
  <2>1. PICK i \in Slot : \E t \in EntryTime(c, i), j \in 1..fileLength[c] :
          /\ Respond(c, Header(At(Table(c, i, t), j).filename, Deleted))
          /\ files' = [files EXCEPT
                         ![c] = Clean(Table(c, i, t), fileLength[c], j)]
    BY <1>5 DEF NotifyDeleted
  <2>2. PICK t \in EntryTime(c, i), j \in 1..fileLength[c] :
          /\ Respond(c, Header(At(Table(c, i, t), j).filename, Deleted))
          /\ files' = [files EXCEPT
                         ![c] = Clean(Table(c, i, t), fileLength[c], j)]
    BY <2>1
  <2>3. Table(c, i, t) \in FileArray
    BY <1>2, <1>5 DEF NotifyDeleted
  <2>4. files' \in [Client -> FileArray]
    BY <2>2, <2>3, CleanIsTable DEF TypeOK
  <2>5. At(Table(c, i, t), j).filename \in EntryName \cup {NoName}
    BY <2>3, AtIsEntry DEF FileInfo
  <2>6. toClient' \in [Client -> Seq(Message)]
    BY <2>2, <2>5, SentIsChannel DEF Respond, MTimes
  <2>7. fileLength' \in [Client -> Nat]
    BY <1>5, <2>2 DEF NotifyDeleted, TypeOK
  <2>8. toServer' \in [Client -> Seq(Message)]
    BY <1>3, <1>5 DEF NotifyDeleted
  <2> QED
    BY <1>5, <2>4, <2>6, <2>7, <2>8 DEF NotifyDeleted, TypeOK
<1>6. ASSUME AcceptDeletion(c) PROVE TypeOK'
  <2>1. PICK i \in Slot : \E t \in EntryTime(c, i) :
          /\ Respond(c, Header(name, t))
          /\ LET clean == CleanName(Table(c, i, t), fileLength[c], name)
             IN  /\ files' = [files EXCEPT ![c] = clean.files]
                 /\ fileLength' = [fileLength EXCEPT ![c] = clean.len]
    BY <1>6 DEF AcceptDeletion
  <2>2. PICK t \in EntryTime(c, i) :
          /\ Respond(c, Header(name, t))
          /\ LET clean == CleanName(Table(c, i, t), fileLength[c], name)
             IN  /\ files' = [files EXCEPT ![c] = clean.files]
                 /\ fileLength' = [fileLength EXCEPT ![c] = clean.len]
    BY <2>1
  <2>3. /\ Table(c, i, t) \in FileArray
        /\ toClient' \in [Client -> Seq(Message)]
    BY <1>2, <1>4, <1>6, <2>2 DEF AcceptDeletion
  <2>4. /\ files' \in [Client -> FileArray]
        /\ fileLength' \in [Client -> Nat]
    BY <2>2, <2>3, CleanNameIsTable DEF TypeOK
  <2>5. disk' \in Folder
    BY <1>6 DEF AcceptDeletion, TypeOK, Folder
  <2>6. upload' \in [Client -> Transfer]
    BY <1>6, TransferIsTransfer DEF AcceptDeletion, TypeOK
  <2>7. toServer' \in [Client -> Seq(Message)]
    BY <1>3, <1>6 DEF AcceptDeletion
  <2> QED
    BY <1>6, <2>3, <2>4, <2>5, <2>6, <2>7 DEF AcceptDeletion, TypeOK
<1>7. ASSUME AskForFile(c) PROVE TypeOK'
  <2>1. PICK i \in Slot : \E t \in EntryTime(c, i) :
          /\ Packet(c).mtime > t
          /\ Respond(c, Header(name, t))
          /\ files' = [files EXCEPT ![c] = Table(c, i, Packet(c).mtime)]
    BY <1>7 DEF AskForFile
  <2>2. PICK t \in EntryTime(c, i) :
          /\ Packet(c).mtime > t
          /\ Respond(c, Header(name, t))
          /\ files' = [files EXCEPT ![c] = Table(c, i, Packet(c).mtime)]
    BY <2>1
  <2>3. Packet(c).mtime \in Nat
    BY <1>1, <1>2, <1>7, <2>2 DEF AskForFile, MTimes, Deleted
  <2>4. files' \in [Client -> FileArray]
    BY <1>1, <1>7, <2>2, <2>3, RecordIsTable DEF AskForFile, Table, TypeOK
  <2>5. toClient' \in [Client -> Seq(Message)]
    BY <1>4, <1>7, <2>2 DEF AskForFile
  <2>6. upload' \in [Client -> Transfer]
    BY <1>1, <1>7 DEF AskForFile, TypeOK, Transfer
  <2>7. toServer' \in [Client -> Seq(Message)]
    BY <1>3, <1>7 DEF AskForFile
  <2> QED
    BY <1>7, <2>4, <2>5, <2>6, <2>7 DEF AskForFile, TypeOK, Phase
<1>8. ASSUME SendNewer(c) PROVE TypeOK'
  <2>1. PICK i \in Slot : \E t \in EntryTime(c, i) :
          /\ Announce(c, "give", Header(name, t))
          /\ files' = [files EXCEPT ![c] = Table(c, i, t)]
    BY <1>8 DEF SendNewer
  <2>2. PICK t \in EntryTime(c, i) :
          /\ Announce(c, "give", Header(name, t))
          /\ files' = [files EXCEPT ![c] = Table(c, i, t)]
    BY <2>1
  <2>3. /\ Table(c, i, t) \in FileArray
        /\ name \in EntryName
        /\ t \in MTimes
    BY <1>1, <1>2, <1>8 DEF SendNewer
  <2>4. /\ toClient' \in [Client -> Seq(Message)]
        /\ upload' \in [Client -> Transfer]
        /\ phase' \in [Client -> Phase]
    BY <2>2, <2>3, AnnounceTypes DEF Giving
  <2>5. toServer' \in [Client -> Seq(Message)]
    BY <1>3, <1>8 DEF SendNewer
  <2> QED
    BY <1>8, <2>2, <2>3, <2>4, <2>5 DEF SendNewer, TypeOK
<1>10. ASSUME AlreadyInSync(c) PROVE TypeOK'
  <2>1. PICK i \in Slot : \E t \in EntryTime(c, i) :
          /\ Respond(c, Header(name, t))
          /\ files' = [files EXCEPT ![c] = Table(c, i, t)]
    BY <1>10 DEF AlreadyInSync
  <2>2. /\ files' \in [Client -> FileArray]
        /\ toClient' \in [Client -> Seq(Message)]
        /\ toServer' \in [Client -> Seq(Message)]
    BY <1>2, <1>3, <1>4, <1>10, <2>1 DEF AlreadyInSync, TypeOK
  <2> QED
    BY <1>10, <2>2 DEF AlreadyInSync, TypeOK
<1> QED
  BY <1>5, <1>6, <1>7, <1>8, <1>10

\* The end of a request.
LEMMA GiveTypes ==
  ASSUME TypeOK, NEW c \in Client, Remembers(c),
         UNCHANGED <<envVars, clientVars, local>>
  PROVE  GiveFile(c) \/ GiveNothing(c) => TypeOK'
<1>1. ASSUME GiveNothing(c) PROVE TypeOK'
  BY <1>1, DeathTypes DEF GiveNothing, ServerDies, TypeOK
<1>2. ASSUME GiveFile(c) PROVE TypeOK'
  <2>1. toClient' \in [Client -> Seq(Message)]
    BY <1>2, ContentIsChannel DEF GiveFile, Respond, TypeOK
  <2>2. /\ upload' \in [Client -> Transfer]
        /\ phase' \in [Client -> Phase]
    BY <1>2, TransferIsTransfer DEF GiveFile, TypeOK, Phase
  <2>3. fileLength' \in [Client -> Nat]
    <3> DEFINE n == IF phase[c] = "giveNew" THEN fileLength[c] + 1
                    ELSE fileLength[c]
    <3>1. n \in Nat
      BY DEF TypeOK
    <3>2. fileLength' = [fileLength EXCEPT ![c] = n]
      BY <1>2 DEF GiveFile
    <3> HIDE DEF n
    <3> QED
      BY <3>1, <3>2 DEF TypeOK
  <2> QED
    BY <1>2, <2>1, <2>2, <2>3 DEF GiveFile, TypeOK, envVars, clientVars
<1> QED
  BY <1>1, <1>2

\* State GETFILE.
LEMMA UploadTypes ==
  ASSUME TypeOK, NEW c \in Client, Remembers(c),
         UNCHANGED <<envVars, clientVars, local>>
  PROVE  /\ GetOpen(c) => TypeOK'
         /\ GetDirectory(c) \/ GetEof(c) => TypeOK'
         /\ GetData(c) => TypeOK'
         /\ GetStamp(c) => TypeOK'
<1> USE DEF envVars, clientVars, wireVars
<1> DEFINE name == upload[c].name
<1>1. ASSUME NEW n \in FileName, NEW mtime \in Nat, NEW data \in Content
      PROVE  [disk EXCEPT ![n] = [mtime |-> mtime, data |-> data]] \in Folder
  BY DEF TypeOK, Folder, File
<1>2. now \in Nat /\ \A n \in FileName : Torn(n) \in Content
  BY SyncAssumption DEF TypeOK, Torn, Content
<1>3. ASSUME GetOpen(c) PROVE TypeOK'
  <2>1. disk' \in Folder
    BY <1>1, <1>2, <1>3 DEF GetOpen
  <2>2. upload' \in [Client -> Transfer]
    BY <1>3, TransferIsTransfer DEF GetOpen, TypeOK
  <2> QED
    BY <1>3, <2>1, <2>2 DEF GetOpen, TypeOK, Phase
<1>4. ASSUME GetDirectory(c) \/ GetEof(c) PROVE TypeOK'
  BY <1>4, DeathTypes DEF GetDirectory, GetEof, ServerDies, TypeOK
<1>5. ASSUME GetData(c) PROVE TypeOK'
  <2>1. name \in FileName /\ Packet(c).data \in Content
    BY <1>5, RequestIsMessage DEF GetData, Remembers
  <2>2. PICK data \in {Packet(c).data, Torn(name)} :
          disk' = IF upload[c].link = "gone" THEN disk
                  ELSE [disk EXCEPT ![name] = [mtime |-> now, data |-> data]]
    BY <1>5 DEF GetData
  <2>3. data \in Content
    BY <1>2, <2>1
  <2>4. disk' \in Folder
    BY <1>1, <1>2, <2>1, <2>2, <2>3 DEF TypeOK
  <2>5. toServer' \in [Client -> Seq(Message)]
    BY <1>5, RequestIsMessage DEF GetData, Consume, TypeOK
  <2>6. /\ fileLength' \in [Client -> Nat]
        /\ phase' \in [Client -> Phase]
    BY <1>5 DEF GetData, TypeOK, Phase
  <2>7. UNCHANGED <<serverUp, slots, refresh, sharing, files, upload, toClient>>
    BY <1>5 DEF GetData
  <2> QED
    BY <2>4, <2>5, <2>6, <2>7 DEF TypeOK
<1>6. ASSUME GetStamp(c), Exists(disk, name) PROVE TypeOK'
  <2>1. /\ name \in FileName
        /\ upload[c].mtime \in Nat
        /\ disk[name] \in File
    BY <1>6, FileInFolder DEF GetStamp, Remembers, TypeOK
  <2>2. disk' \in Folder
    <3>1. disk' = [disk EXCEPT ![name].mtime = upload[c].mtime]
      BY <1>6 DEF GetStamp
    <3>2. [disk[name] EXCEPT !.mtime = upload[c].mtime] \in File
      BY <2>1 DEF File
    <3> QED
      BY <3>1, <3>2 DEF TypeOK, Folder
  <2>3. upload' \in [Client -> Transfer]
    BY <1>6, TransferIsTransfer DEF GetStamp, TypeOK
  <2> QED
    BY <1>6, <2>2, <2>3 DEF GetStamp, TypeOK, Phase
<1>7. ASSUME GetStamp(c), ~ Exists(disk, name) PROVE TypeOK'
  BY <1>7, DeathTypes DEF GetStamp, ServerDies, TypeOK
<1> QED
  BY <1>3, <1>4, <1>5, <1>6, <1>7

-----------------------------------------------------------------------------
(* The steps of a client. *)

\* The cycle up to the requests, and what ends it.
LEMMA CycleTypes ==
  ASSUME TypeOK, NEW c \in Client, Remembers(c),
         UNCHANGED <<envVars, serverUp, disk, slotVars>>
  PROVE  /\ ExitOnly(c) => TypeOK'
         /\ ReportDeleted(c) => TypeOK'
         /\ StartWalk(c) => TypeOK'
         /\ AckDeletion(c) => TypeOK'
         /\ \A name \in EntryName : Walk(c, name) => TypeOK'
         /\ WalkDone(c) => TypeOK'
<1> USE DEF envVars, slotVars, wireVars
<1>1. NothingKnown \in [EntryName -> Nat]
  BY DEF NothingKnown
<1>2. ASSUME NEW message \in Message, Send(c, message)
      PROVE  toServer' \in [Client -> Seq(Message)]
  <2>1. Append(toServer[c], message) \in Seq(Message)
    BY Appended DEF TypeOK
  <2> QED
    BY <1>2, <2>1 DEF Send, TypeOK
<1>3. ASSUME ExitOnly(c) PROVE TypeOK'
  <2>1. /\ pc' \in [Client -> Position]
        /\ known' \in [Client -> [EntryName -> Nat]]
        /\ cur' \in [Client -> Transfer]
        /\ toClient' \in [Client -> Seq(Message)]
    BY <1>1, <1>3, TransferIsTransfer, EmptySeq
       DEF ExitOnly, Exit, TypeOK, Position
  <2> QED
    BY <1>3, <2>1 DEF ExitOnly, Exit, TypeOK
<1>4. ASSUME ReportDeleted(c) PROVE TypeOK'
  <2>1. PICK name \in FileName :
          /\ Send(c, Header(name, Deleted))
          /\ cur' = [cur EXCEPT ![c] = [name |-> name, mtime |-> Deleted,
                                        link |-> "gone"]]
    BY <1>4 DEF ReportDeleted
  <2>2. toServer' \in [Client -> Seq(Message)]
    BY <1>2, <2>1, HeaderIsMessage DEF EntryName, MTimes
  <2>3. cur' \in [Client -> Transfer]
    BY <2>1 DEF TypeOK, Transfer, EntryName, MTimes
  <2> QED
    BY <1>4, <2>2, <2>3 DEF ReportDeleted, TypeOK, Position
<1>5. ASSUME StartWalk(c) PROVE TypeOK'
  BY <1>5 DEF StartWalk, TypeOK, Present, Position
<1>6. ASSUME AskNew(c)
      PROVE  /\ toServer' \in [Client -> Seq(Message)]
             /\ pc' \in [Client -> Position]
             /\ cur' \in [Client -> Transfer]
  <2>1. toServer' \in [Client -> Seq(Message)]
    BY <1>2, <1>6, HeaderIsMessage DEF AskNew, MTimes
  <2> QED
    BY <1>6, <2>1, TransferIsTransfer DEF AskNew, TypeOK, Position
<1>7. ASSUME AckDeletion(c) PROVE TypeOK'
  <2>1. known' \in [Client -> [EntryName -> Nat]]
    <3>1. /\ cur[c].name \in EntryName
          /\ known[c][cur[c].name] - 1 \in Nat
      BY <1>7 DEF AckDeletion, Remembers, TypeOK, EntryName
    <3> QED
      BY <1>7, <3>1 DEF AckDeletion, TypeOK
  <2>2. toClient' \in [Client -> Seq(Message)]
    BY <1>7, ResponseIsMessage DEF AckDeletion, Acked, Receive, TypeOK
  <2> QED
    BY <1>6, <1>7, <2>1, <2>2 DEF AckDeletion, TypeOK
<1>8. ASSUME NEW name \in EntryName, Walk(c, name) PROVE TypeOK'
  <2>1. PICK t \in DirTime :
          /\ Send(c, Header(name, MTime(local[c], name, t)))
          /\ cur' = [cur EXCEPT ![c] =
                       [name |-> name, mtime |-> MTime(local[c], name, t),
                        link |-> "gone"]]
    BY <1>8 DEF Walk
  <2>2. MTime(local[c], name, t) \in MTimes
    BY <1>8, DirTimeIsTime, FileInFolder DEF Walk, MTime, MTimes, EntryName,
                                              TypeOK
  <2>3. toServer' \in [Client -> Seq(Message)]
    BY <1>2, <2>1, <2>2, HeaderIsMessage
  <2>4. cur' \in [Client -> Transfer]
    BY <2>1, <2>2 DEF TypeOK, Transfer
  <2>5. known' \in [Client -> [EntryName -> Nat]]
    BY <1>8 DEF Walk, TypeOK
  <2> QED
    BY <1>8, <2>3, <2>4, <2>5 DEF Walk, TypeOK, Position
<1>9. ASSUME WalkDone(c) PROVE TypeOK'
  BY <1>6, <1>9 DEF WalkDone, TypeOK
<1> QED
  BY <1>3, <1>4, <1>5, <1>7, <1>8, <1>9

\* Reading the responses.
LEMMA ResponseTypes ==
  ASSUME TypeOK, NEW c \in Client, Remembers(c),
         UNCHANGED <<envVars, serverUp, disk, slotVars>>
  PROVE  /\ RemoveFile(c) => TypeOK'
         /\ SendFile(c) => TypeOK'
         /\ SameTime(c) => TypeOK'
         /\ GetNewer(c) \/ GetNew(c) => TypeOK'
         /\ CycleDone(c) => TypeOK'
         /\ GetDone(c) => TypeOK'
         /\ GetNewDone(c) => TypeOK'
<1> USE DEF envVars, slotVars, wireVars
<1>1. ASSUME toClient[c] # <<>>, Receive(c)
      PROVE  toClient' \in [Client -> Seq(Message)]
  BY <1>1, ResponseIsMessage DEF Receive, TypeOK
<1>2. ASSUME RemoveFile(c) PROVE TypeOK'
  <2>1. local' \in [Client -> Folder]
    BY <1>2 DEF RemoveFile, TypeOK, Folder
  <2>2. known' \in [Client -> [EntryName -> Nat]]
    <3> DEFINE name == Response(c).filename
    <3>1. PICK left \in 0..(known[c][name] \div 2) :
            known' = [known EXCEPT ![c][name] = left]
      BY <1>2 DEF RemoveFile
    <3>2. name \in EntryName => left \in Nat
      BY <3>1 DEF TypeOK
    <3> QED
      BY <3>1, <3>2 DEF TypeOK
  <2>3. toClient' \in [Client -> Seq(Message)]
    BY <1>1, <1>2 DEF RemoveFile, SyncAcked, Acked
  <2>4. cur' \in [Client -> Transfer]
    BY <1>2, TransferIsTransfer DEF RemoveFile, TypeOK
  <2>5. todo' \in [Client -> SUBSET EntryName]
    BY <1>2 DEF RemoveFile, TypeOK, Present
  <2> QED
    BY <1>2, <2>1, <2>2, <2>3, <2>4, <2>5 DEF RemoveFile, TypeOK, Position
<1>3. ASSUME SendFile(c) PROVE TypeOK'
  <2>1. toServer' \in [Client -> Seq(Message)]
    <3>1. CASE cur[c].name \in FileName
      <4>1. Body(local[c][cur[c].name].data) \in Message
        BY <1>3, <3>1, FileInFolder, BodyIsMessage DEF SendFile, TypeOK
      <4>2. Append(toServer[c], Body(local[c][cur[c].name].data))
              \in Seq(Message)
        BY <4>1, Appended DEF TypeOK
      <4> QED
        BY <1>3, <3>1, <4>2 DEF SendFile, Send, TypeOK
    <3>2. CASE cur[c].name \notin FileName
      BY <1>3, <3>2 DEF SendFile, TypeOK
    <3> QED
      BY <3>1, <3>2
  <2>2. toClient' \in [Client -> Seq(Message)]
    BY <1>1, <1>3 DEF SendFile, SyncAcked, Acked
  <2>3. cur' \in [Client -> Transfer]
    BY <1>3, TransferIsTransfer DEF SendFile, TypeOK
  <2> QED
    BY <1>3, <2>1, <2>2, <2>3 DEF SendFile, TypeOK, Position
<1>4. ASSUME SameTime(c) PROVE TypeOK'
  <2>1. toClient' \in [Client -> Seq(Message)]
    BY <1>1, <1>4 DEF SameTime, SyncAcked, Acked
  <2>2. cur' \in [Client -> Transfer]
    BY <1>4, TransferIsTransfer DEF SameTime, TypeOK
  <2> QED
    BY <1>4, <2>1, <2>2 DEF SameTime, TypeOK, Position
<1>5. ASSUME NEW position \in Position, toClient[c] # <<>>,
             GetOpenLocal(c, position)
      PROVE  TypeOK'
  <2>1. local' \in [Client -> Folder]
    <3>1. [mtime |-> now, data |-> Torn(Response(c).filename)] \in File
      BY <1>5, SyncAssumption DEF GetOpenLocal, TypeOK, File, Torn, Content
    <3> QED
      BY <1>5, <3>1 DEF GetOpenLocal, TypeOK, Folder
  <2>2. known' \in [Client -> [EntryName -> Nat]]
    <3>1. known[c][Response(c).filename] + 1 \in Nat
      BY <1>5 DEF GetOpenLocal, TypeOK, EntryName
    <3> QED
      BY <1>5, <3>1 DEF GetOpenLocal, TypeOK
  <2>3. cur' \in [Client -> Transfer]
    BY <1>5, ResponseIsMessage DEF GetOpenLocal, TypeOK, Transfer
  <2>4. toClient' \in [Client -> Seq(Message)]
    BY <1>1, <1>5 DEF GetOpenLocal
  <2> QED
    BY <1>5, <2>1, <2>2, <2>3, <2>4 DEF GetOpenLocal, TypeOK
<1>6. ASSUME GetNewer(c) \/ GetNew(c) PROVE TypeOK'
  BY <1>5, <1>6 DEF GetNewer, GetNew, SyncAcked, Acked, Position
<1>7. ASSUME CycleDone(c) PROVE TypeOK'
  <2>1. toClient' \in [Client -> Seq(Message)]
    BY <1>1, <1>7 DEF CycleDone, Acked
  <2> QED
    BY <1>7, <2>1 DEF CycleDone, TypeOK, Position
<1>8. ASSUME Received(c), pc[c] \in {"recv", "recvNew"}
      PROVE  /\ local' \in [Client -> Folder]
             /\ toClient' \in [Client -> Seq(Message)]
  <2>1. cur[c].name \in FileName /\ cur[c].mtime \in Nat
    BY <1>8 DEF Remembers
  <2>2. /\ local[c][cur[c].name].data \in Content
        /\ Response(c).data \in Content
    BY <1>8, <2>1, FileInFolder, ResponseIsMessage DEF Received, TypeOK
  <2>3. local' \in [Client -> Folder]
    BY <1>8, <2>1, <2>2 DEF Received, TypeOK, Folder, File
  <2> QED
    BY <1>1, <1>8, <2>3 DEF Received
<1>9. ASSUME GetDone(c) PROVE TypeOK'
  BY <1>8, <1>9, TransferIsTransfer DEF GetDone, TypeOK, Position
<1>10. ASSUME GetNewDone(c) PROVE TypeOK'
  <2>1. toServer' \in [Client -> Seq(Message)]
    <3>1. Append(toServer[c], Header(NoName, 0)) \in Seq(Message)
      BY HeaderIsMessage, Appended DEF TypeOK, MTimes
    <3> QED
      BY <1>10, <3>1 DEF GetNewDone, AskNew, Send, TypeOK
  <2> QED
    BY <1>8, <1>10, <2>1, TransferIsTransfer
       DEF GetNewDone, AskNew, TypeOK, Position
<1> QED
  BY <1>2, <1>3, <1>4, <1>6, <1>7, <1>9, <1>10

-----------------------------------------------------------------------------
(* Connecting and the environment. *)

\* The state in which server and clients start has the types.
LEMMA InitTypes == Init => TypeOK
<1> SUFFICES ASSUME Init PROVE TypeOK
  OBVIOUS
<1>1. /\ files \in [Client -> FileArray]
      /\ upload \in [Client -> Transfer]
      /\ cur \in [Client -> Transfer]
  BY EmptyIsTable, TransferIsTransfer DEF Init, SlotsInit, ClientInit, Everywhere
<1>2. /\ toServer \in [Client -> Seq(Message)]
      /\ toClient \in [Client -> Seq(Message)]
  BY EmptySeq DEF Init
<1>3. /\ now \in 1..MaxTime
      /\ ops \in 0..MaxOps
      /\ deleted \subseteq FileName
      /\ serverUp \in BOOLEAN
      /\ disk \in Folder
      /\ local \in [Client -> Folder]
  BY SyncAssumption DEF Init, Folder
<1>4. /\ slots \subseteq Client
      /\ phase \in [Client -> Phase]
      /\ refresh \in [Client -> RefreshState]
      /\ sharing \in [Client -> BOOLEAN]
      /\ fileLength \in [Client -> Nat]
  BY NoRefreshIsState DEF Init, SlotsInit, Everywhere, Phase
<1>5. /\ pc \in [Client -> Position]
      /\ known \in [Client -> [EntryName -> Nat]]
      /\ todo \in [Client -> SUBSET EntryName]
      /\ count \in [Client -> Nat]
  BY DEF Init, ClientInit, NothingKnown, Position
<1> QED
  BY <1>1, <1>2, <1>3, <1>4, <1>5 DEF TypeOK

\* Logging in, and being one client too many, keeps the types.
LEMMA ConnectTypes ==
  ASSUME TypeOK, NEW c \in Client
  PROVE  /\ Login(c) => TypeOK'
         /\ LoginFails(c) => TypeOK'
<1> USE DEF envVars, wireVars, slotVars
<1>1. ASSUME Login(c) PROVE TypeOK'
  <2>1. known' \in [Client -> [EntryName -> Nat]]
    BY <1>1 DEF Login, ClientStart, TypeOK
  <2>2. sharing' \in [Client -> BOOLEAN]
    BY <1>1 DEF Login, ServerLogin, TypeOK
  <2>3. UNCHANGED <<envVars, serverUp, disk, files, fileLength, upload,
                    wireVars, todo, count, cur, local>>
    BY <1>1 DEF Login, ServerLogin, ClientStart
  <2>4. /\ slots' \subseteq Client
        /\ phase' \in [Client -> Phase]
        /\ refresh' \in [Client -> RefreshState]
        /\ pc' \in [Client -> Position]
    BY <1>1, NoRefreshIsState
       DEF Login, ServerLogin, ClientStart, TypeOK, Phase, Position
  <2> QED
    BY <2>1, <2>2, <2>3, <2>4 DEF TypeOK
<1>2. ASSUME LoginFails(c) PROVE TypeOK'
  <2>1. toClient \in [Client -> Seq(Message)]
    BY DEF TypeOK
  <2>2. /\ DiesHavingSent(toClient)
        /\ UNCHANGED <<envVars, disk, clientVars, local>>
    BY <1>2 DEF LoginFails, LoginRefused, ServerDies
  <2> QED
    BY <2>1, <2>2, DeathTypes
<1> QED
  BY <1>1, <1>2

\* Starting the server again keeps them.
LEMMA BootTypes == TypeOK /\ Boot => TypeOK'
  BY DEF Boot, ServerBoots, TypeOK, envVars, wireVars, slotVars, clientVars

\* A file that a user or the operator writes is a file.
LEMMA NewFileIsFile ==
  ASSUME TypeOK, NEW name \in FileName, NEW author \in Client \cup {NoClient},
         NEW t \in NewTime(name), ops < MaxOps
  PROVE  /\ NewFile(name, author, t) \in File
         /\ NewFile(name, author, t).data.of = name
  BY SyncAssumption DEF NewFile, NewTime, File, Content, TypeOK

\* Users, the operator, crashes and the clock keep them.
LEMMA EnvTypes == TypeOK /\ EnvNext => TypeOK'
<1> SUFFICES ASSUME TypeOK, EnvNext PROVE TypeOK'
  OBVIOUS
<1> USE DEF envVars, wireVars, slotVars, clientVars
<1>1. CASE Tick
  BY <1>1, SyncAssumption DEF Tick, TypeOK
<1>2. ASSUME NEW kind, Event(kind) PROVE ops' \in 0..MaxOps /\ now' = now
  BY <1>2, SyncAssumption DEF Event, TypeOK
<1>3. ASSUME NEW c \in Client, NEW name \in FileName, UserWrite(c, name)
      PROVE  TypeOK'
  <2>1. local' \in [Client -> Folder]
    <3>1. PICK t \in NewTime(name) :
            local' = [local EXCEPT ![c][name] = NewFile(name, c, t)]
      BY <1>3 DEF UserWrite
    <3>2. NewFile(name, c, t) \in File
      BY <1>3, NewFileIsFile DEF UserWrite, Event
    <3> QED
      BY <3>1, <3>2 DEF TypeOK, Folder
  <2>2. cur' \in [Client -> Transfer]
    BY <1>3, TransferIsTransfer DEF UserWrite, TypeOK
  <2> QED
    BY <1>2, <1>3, <2>1, <2>2 DEF UserWrite, TypeOK
<1>4. ASSUME NEW c \in Client, NEW name \in FileName, UserDelete(c, name)
      PROVE  TypeOK'
  <2>1. local' \in [Client -> Folder]
    BY <1>4 DEF UserDelete, TypeOK, Folder
  <2>2. cur' \in [Client -> Transfer]
    BY <1>4, TransferIsTransfer DEF UserDelete, TypeOK
  <2> QED
    BY <1>2, <1>4, <2>1, <2>2 DEF UserDelete, TypeOK
<1>5. ASSUME NEW name \in FileName, AdminWrite(name) PROVE TypeOK'
  <2>1. disk' \in Folder
    <3>1. PICK t \in NewTime(name) :
            disk' = [disk EXCEPT ![name] = NewFile(name, NoClient, t)]
      BY <1>5 DEF AdminWrite
    <3>2. NewFile(name, NoClient, t) \in File
      BY <1>5, NewFileIsFile DEF AdminWrite, Event
    <3> QED
      BY <3>1, <3>2 DEF TypeOK, Folder
  <2>2. upload' \in [Client -> Transfer]
    BY <1>5, TransferIsTransfer DEF AdminWrite, TypeOK
  <2> QED
    BY <1>2, <1>5, <2>1, <2>2 DEF AdminWrite, TypeOK
<1>6. ASSUME NEW name \in FileName, AdminDelete(name) PROVE TypeOK'
  <2>1. disk' \in Folder
    BY <1>6 DEF AdminDelete, TypeOK, Folder
  <2>2. upload' \in [Client -> Transfer]
    BY <1>6, TransferIsTransfer DEF AdminDelete, TypeOK
  <2> QED
    BY <1>2, <1>6, <2>1, <2>2 DEF AdminDelete, TypeOK
<1>9. ASSUME NEW c \in Client, NEW name \in FileName,
             AdminDeleteFailsStat(c, name)
      PROVE  TypeOK'
  <2>1. disk' \in Folder
    BY <1>9 DEF AdminDeleteFailsStat, TypeOK, Folder
  <2>2. toClient \in [Client -> Seq(Message)]
    BY DEF TypeOK
  <2>3. /\ DiesHavingSent(toClient)
        /\ ops' \in 0..MaxOps /\ deleted' \subseteq FileName
        /\ UNCHANGED <<now, clientVars, local>>
    BY <1>2, <1>9 DEF AdminDeleteFailsStat, ServerDies, Event, TypeOK
  <2> QED
    BY <2>1, <2>2, <2>3, CrashTypes
<1>7. ASSUME NEW c \in Client, ClientCrash(c) PROVE TypeOK'
  <2>1. /\ pc' \in [Client -> Position]
        /\ known' \in [Client -> [EntryName -> Nat]]
        /\ cur' \in [Client -> Transfer]
        /\ toClient' \in [Client -> Seq(Message)]
    BY <1>7, TransferIsTransfer, EmptySeq
       DEF ClientCrash, Exit, TypeOK, Position, NothingKnown
  <2>2. toServer' \in [Client -> Seq(Message)]
    BY <1>7, TrimShapes DEF ClientCrash, TypeOK
  <2> QED
    BY <1>2, <1>7, <2>1, <2>2 DEF ClientCrash, Exit, TypeOK
<1>8. CASE ServerCrash
  <2>1. toClient \in [Client -> Seq(Message)]
    BY DEF TypeOK
  <2>2. /\ DiesHavingSent(toClient)
        /\ ops' \in 0..MaxOps /\ deleted' \subseteq FileName /\ disk' \in Folder
        /\ UNCHANGED <<now, clientVars, local>>
    BY <1>2, <1>8 DEF ServerCrash, ServerDies, Event, TypeOK
  <2> QED
    BY <2>1, <2>2, CrashTypes
<1> QED
  BY <1>1, <1>3, <1>4, <1>5, <1>6, <1>7, <1>8, <1>9 DEF EnvNext

-----------------------------------------------------------------------------
\* Every step keeps the types.
LEMMA TypesKept ==
  ASSUME TypeOK, InStep, [Next]_vars
  PROVE  TypeOK'
<1>1. ASSUME NEW c \in Client PROVE Remembers(c)
  BY DEF InStep, InStepAt
<1>2. CASE UNCHANGED vars
  BY <1>2 DEF vars, envVars, slotVars, wireVars, clientVars, TypeOK
<1>3. ASSUME NEW c \in Client, ServerNext(c) PROVE TypeOK'
  <2>1. /\ UNCHANGED <<envVars, clientVars, local>>
        /\ ServerStep(c)
    BY <1>3 DEF ServerNext
  <2> QED
    BY <1>1, <2>1, SyncTypes, PacketTypes, GiveTypes, UploadTypes DEF ServerStep
<1>4. ASSUME NEW c \in Client, ClientNext(c) PROVE TypeOK'
  <2>1. /\ UNCHANGED <<envVars, serverUp, disk, slotVars>>
        /\ ClientStep(c)
    BY <1>4 DEF ClientNext
  <2>2. CASE ExitOnly(c)
    BY <1>1, <2>1, <2>2, CycleTypes
  <2>3. CASE ~ ExitOnly(c)
    BY <1>1, <2>1, <2>3, CycleTypes, ResponseTypes
       DEF ClientStep, Unanswered, NullName, WalkVanished, SendVanished,
           GetNewerDirectory, GetVanished
  <2> QED
    BY <2>2, <2>3
<1> QED
  BY <1>2, <1>3, <1>4, ConnectTypes, BootTypes, EnvTypes DEF Next

-----------------------------------------------------------------------------
(***************************************************************************)
(* Every step of Sync keeps the two ends of every connection in step.      *)
(* The argument is per connection: a step of client c, or of its thread,   *)
(* leaves the other connections alone (Frame) and takes c from one of the  *)
(* shapes of InStepAt to another; the death of the server closes its end   *)
(* of all of them.                                                         *)
(***************************************************************************)

Waiting == {"ackDel", "ackSync", "ackNew"}

\* What InStepAt depends on, apart from how a file that is being received
\* is linked.
SameEnds(c) ==
  /\ phase'[c] = phase[c]
  /\ toServer'[c] = toServer[c]
  /\ toClient'[c] = toClient[c]
  /\ pc'[c] = pc[c]
  /\ known'[c] = known[c]
  /\ upload'[c].name = upload[c].name
  /\ upload'[c].mtime = upload[c].mtime
  /\ upload[c] = NoTransfer => upload'[c] = NoTransfer
  /\ cur'[c].name = cur[c].name
  /\ cur'[c].mtime = cur[c].mtime
  /\ cur[c] = NoTransfer => cur'[c] = NoTransfer

\* A connection that a step leaves alone stays in step.
LEMMA Frame ==
  ASSUME NEW c \in Client, InStepAt(c), SameEnds(c)
  PROVE  InStepAt(c)'
<1> USE DEF SameEnds
<1>1. Remembers(c)'
  BY DEF InStepAt, Remembers
<1>2. /\ ClientEnd(c)' = ClientEnd(c)
      /\ ServerEnd(c)' = ServerEnd(c)
      /\ Uploading(c)' = Uploading(c)
  BY DEF ClientEnd, ServerEnd, Uploading
<1>3. ASSUME Connected(c) PROVE Connected(c)'
  <2>1. ASSUME NEW requests, Ahead(c, requests)
        PROVE  Ahead(c, requests)'
    BY <1>2, <2>1 DEF Ahead, Giving
  <2>2. Asked(c) => Asked(c)'
    BY <1>2 DEF Asked, Ahead, Giving
  <2>3. Replied(c) => Replied(c)'
    BY DEF Replied, Announces
  <2> QED
    BY <1>3, <2>1, <2>2, <2>3 DEF Connected, Awaits
<1>4. ServerLeft(c) => ServerLeft(c)'
  BY DEF ServerLeft, Leftover
<1>5. ClientLeft(c) => ClientLeft(c)'
  BY <1>2 DEF ClientLeft
<1> QED
  BY <1>1, <1>2, <1>3, <1>4, <1>5 DEF InStepAt

-----------------------------------------------------------------------------
(* What a connection in step holds. *)

\* A request is the one that the client is waiting for an answer to.
LEMMA RequestIsCurrent ==
  ASSUME TypeOK, NEW c \in Client, InStepAt(c), Request(c)
  PROVE  /\ toClient[c] = <<>>
         /\ Tail(toServer[c]) = <<>>
         /\ phase[c] = "sync"
         /\ upload[c] = NoTransfer
         /\ ServerEnd(c)
         /\ ClientEnd(c) => /\ pc[c] \in Waiting
                            /\ Packet(c).filename = cur[c].name
                            /\ Packet(c).mtime = cur[c].mtime
<1>1. /\ phase[c] = "sync"
      /\ toServer[c] # <<>>
      /\ ServerEnd(c)
      /\ ~ Uploading(c)
      /\ upload[c] = NoTransfer
  BY DEF Request, ServerEnd, Uploading, InStepAt, Remembers
<1>2. CASE ~ ClientEnd(c)
  BY <1>1, <1>2 DEF InStepAt, ClientLeft, AtMostOneRequest
<1>3. CASE ClientEnd(c)
  <2>1. Connected(c)
    BY <1>1, <1>3 DEF InStepAt
  <2>2. pc[c] \in Waiting /\ Asked(c)
    BY <1>1, <1>3, <2>1 DEF Connected, Ahead, Replied, Waiting, ClientEnd,
                            TypeOK, Position, Giving, Awaits
  <2>3. /\ cur[c].name \in EntryName \cup {NoName}
        /\ cur[c].mtime \in MTimes
    BY DEF TypeOK, Transfer
  <2>4. /\ toClient[c] = <<>>
        /\ toServer[c] = <<Header(cur[c].name, cur[c].mtime)>>
    BY <1>1, <2>2 DEF Asked, Ahead, Giving
  <2>5. Header(cur[c].name, cur[c].mtime) \in Message
    BY <2>3, HeaderIsMessage
  <2> QED
    BY <1>1, <2>2, <2>3, <2>4, <2>5, HeaderIsMessage, OneMessage DEF Packet
<1> QED
  BY <1>2, <1>3

\* A response that the client of a live connection reads is the answer.
LEMMA ResponseIsReply ==
  ASSUME NEW c \in Client, InStepAt(c), Acked(c), pc[c] \in Waiting
  PROVE  /\ ServerEnd(c) => Connected(c) /\ Replied(c)
         /\ ~ ServerEnd(c) => ServerLeft(c)
  BY DEF InStepAt, Connected, Asked, Acked, Waiting, ClientEnd, Awaits

\* What has reached the client when the server dies.
LEMMA LeftoverNow ==
  ASSUME TypeOK, NEW c \in Client, InStepAt(c), ClientEnd(c)
  PROVE  Leftover(c, toClient[c])
<1>1. CASE ~ ServerEnd(c)
  BY <1>1 DEF InStepAt, ServerLeft
<1>2. CASE ServerEnd(c) /\ pc[c] \in Waiting
  <2>1. Asked(c) \/ Replied(c)
    BY <1>2 DEF InStepAt, Connected, Waiting, Awaits
  <2>2. CASE Asked(c)
    BY <1>2, <2>2 DEF Asked, Leftover, Waiting
  <2>3. CASE Replied(c)
    BY <1>2, <2>3 DEF Replied, Announces, Leftover, Waiting
  <2> QED
    BY <2>1, <2>2, <2>3
<1>3. CASE ServerEnd(c) /\ pc[c] \notin Waiting
  BY <1>3 DEF InStepAt, Connected, Leftover, Waiting, Awaits
<1> QED
  BY <1>1, <1>2, <1>3

\* What is left of it once a body was cut.
LEMMA LeftoverTrim ==
  ASSUME TypeOK, NEW c \in Client, NEW s \in Seq(Message), Leftover(c, s)
  PROVE  Leftover(c, Trim(s))
<1>1. CASE s = <<>>
  BY <1>1, TrimShapes
<1>2. CASE s # <<>> /\ Tail(s) = <<>>
  <2>1. Trim(s) \in {s, <<>>}
    BY <1>2, TrimShapes
  <2>2. Leftover(c, <<>>)
    BY DEF Leftover
  <2> QED
    BY <2>1, <2>2
<1>3. CASE s # <<>> /\ Tail(s) # <<>>
  <2>1. CASE pc[c] \in Waiting
    <3>1. /\ IsHeader(Head(s))
          /\ pc[c] = "ackNew" => Head(s).mtime # Deleted
          /\ Tail(Tail(s)) = <<>>
      BY <1>3, <2>1 DEF Leftover, OneBody, Waiting
    <3>2. Trim(s) \in {s, <<Head(s)>>}
      BY <1>3, <3>1, TrimShapes
    <3>3. Leftover(c, <<Head(s)>>)
      <4>1. Head(s) \in Message
        BY <1>3, Consumed
      <4> QED
        BY <2>1, <3>1, <4>1, OneMessage DEF Leftover, Waiting
    <3> QED
      BY <3>2, <3>3
  <2>2. CASE pc[c] = "off"
    BY <2>2 DEF Leftover
  <2>3. CASE pc[c] \notin Waiting \cup {"off"}
    BY <1>3, <2>3 DEF Leftover, OneBody, Waiting, TypeOK, Position
  <2> QED
    BY <2>1, <2>2, <2>3
<1> QED
  BY <1>1, <1>2, <1>3

\* What a client leaves behind when it exits.
LEMMA ClientLeaves ==
  ASSUME TypeOK, NEW c \in Client, InStepAt(c), ClientEnd(c), ServerEnd(c)
  PROVE  IF Uploading(c)
         THEN toServer[c] # <<>> => /\ IsBody(Head(toServer[c]), upload[c].name)
                                   /\ AtMostOneRequest(Tail(toServer[c]))
         ELSE AtMostOneRequest(toServer[c])
<1>1. Connected(c)
  BY DEF InStepAt
<1>2. AtMostOneRequest(<<>>)
  BY DEF AtMostOneRequest
<1>3. CASE pc[c] \in Waiting
  <2>1. AtMostOneRequest(<<Header(cur[c].name, cur[c].mtime)>>)
    <3>1. /\ cur[c].name \in EntryName \cup {NoName}
          /\ cur[c].mtime \in MTimes
      BY DEF TypeOK, Transfer
    <3> QED
      BY <3>1, HeaderIsMessage, OneMessage DEF AtMostOneRequest
  <2>2. Asked(c) \/ Replied(c)
    BY <1>1, <1>3 DEF Connected, Waiting, Awaits
  <2>3. CASE Asked(c)
    BY <2>1, <2>3 DEF Asked, Ahead, Giving
  <2>4. CASE Replied(c)
    BY <1>2, <2>4 DEF Replied
  <2> QED
    BY <2>2, <2>3, <2>4
<1>4. CASE pc[c] = "walk"
  BY <1>1, <1>2, <1>4 DEF Connected, Ahead, Giving, Awaits
<1>5. CASE pc[c] \in {"scan", "recv", "recvNew"}
  BY <1>1, <1>2, <1>5 DEF Connected, Awaits
<1> QED
  BY <1>3, <1>4, <1>5 DEF Waiting, ClientEnd, TypeOK, Position

-----------------------------------------------------------------------------
(* The end of the server. *)

\* Every connection is in step after the server has died: what reached a client
\* is what it was going to read, or less.
LEMMA DeathInStep ==
  ASSUME TypeOK, InStep, NEW sent \in [Client -> Seq(Message)],
         DiesHavingSent(sent), UNCHANGED clientVars,
         \A d \in Client : IF ClientEnd(d) THEN Leftover(d, sent[d])
                           ELSE sent[d] = <<>>
  PROVE  InStep'
<1> SUFFICES ASSUME NEW d \in Client PROVE InStepAt(d)'
  BY DEF InStep
<1>1. /\ phase'[d] = "dead"
      /\ upload'[d] = NoTransfer
      /\ toServer'[d] = <<>>
  BY DEF DiesHavingSent, SlotsReset, Everywhere
<1>2. toClient'[d] \in {sent[d], Trim(sent[d])}
  BY DEF DiesHavingSent
<1>3. pc' = pc /\ cur' = cur /\ known' = known
  BY DEF clientVars
<1>4. Remembers(d)'
  BY <1>1, <1>3 DEF InStep, InStepAt, Remembers, NoTransfer
<1>5. CASE ClientEnd(d)
  <2>1. Leftover(d, toClient'[d])
    BY <1>2, <1>5, LeftoverTrim
  <2>2. ServerLeft(d)'
    BY <1>1, <1>3, <2>1 DEF ServerLeft, Leftover
  <2> QED
    BY <1>1, <1>3, <1>4, <1>5, <2>2 DEF InStepAt, ServerEnd, ClientEnd
<1>6. CASE ~ ClientEnd(d)
  <2>1. toClient'[d] = <<>>
    BY <1>2, <1>6, TrimShapes
  <2> QED
    BY <1>1, <1>3, <1>4, <1>6, <2>1 DEF InStepAt, ServerEnd, ClientEnd
<1> QED
  BY <1>5, <1>6

\* It dies between two messages, or while it sends one.
LEMMA ServerDiesInStep ==
  ASSUME TypeOK, InStep, ServerDies, UNCHANGED clientVars
  PROVE  InStep'
<1>1. toClient \in [Client -> Seq(Message)]
  BY DEF TypeOK
<1>2. \A d \in Client : IF ClientEnd(d) THEN Leftover(d, toClient[d])
                        ELSE toClient[d] = <<>>
  BY LeftoverNow DEF InStep, InStepAt, ClientLeft
<1> QED
  BY <1>1, <1>2, DeathInStep DEF ServerDies

\* It dies after the header of a response was written.
LEMMA DeathOnRequest ==
  ASSUME TypeOK, InStep, NEW c \in Client, Request(c),
         NEW name \in EntryName \cup {NoName}, NEW mtime \in Nat,
         DiesHavingSent(Sent(c, Header(name, mtime))), UNCHANGED clientVars
  PROVE  InStep'
<1> DEFINE header == Header(name, mtime)
<1>1. Sent(c, header) \in [Client -> Seq(Message)]
  BY SentIsChannel DEF MTimes
<1>2. ASSUME NEW d \in Client, d # c \/ ~ ClientEnd(c)
      PROVE  IF ClientEnd(d) THEN Leftover(d, Sent(c, header)[d])
             ELSE Sent(c, header)[d] = <<>>
  <2>1. Sent(c, header)[d] = toClient[d]
    BY <1>2 DEF Sent, TypeOK
  <2> QED
    BY <2>1, LeftoverNow DEF InStep, InStepAt, ClientLeft
<1>3. ASSUME ClientEnd(c) PROVE Leftover(c, Sent(c, header)[c])
  <2>1. toClient[c] = <<>> /\ pc[c] \in Waiting
    BY <1>3, RequestIsCurrent DEF InStep
  <2>2. /\ header \in Message
        /\ IsHeader(header)
        /\ header.mtime # Deleted
    BY HeaderIsMessage DEF MTimes, Deleted
  <2>3. Sent(c, header)[c] = <<header>>
    BY <1>3, <2>1, <2>2, OneMessage DEF Sent, TypeOK
  <2> HIDE DEF header
  <2> QED
    BY <2>1, <2>2, <2>3, OneMessage DEF Leftover, Waiting
<1> QED
  BY <1>1, <1>2, <1>3, DeathInStep

-----------------------------------------------------------------------------
(* The steps of the server. *)

\* Its end of a connection is closed.
LEMMA CloseInStep ==
  ASSUME TypeOK, NEW c \in Client, InStepAt(c), CloseConnection(c),
         toClient[c] = <<>>, UNCHANGED <<toClient, clientVars>>
  PROVE  InStepAt(c)'
<1>1. /\ phase'[c] = "dead"
      /\ upload'[c] = NoTransfer
      /\ toServer'[c] = <<>>
  BY DEF CloseConnection, TypeOK
<1>2. Remembers(c)'
  BY <1>1 DEF InStepAt, Remembers, NoTransfer, clientVars
<1>3. ServerLeft(c)'
  BY <1>1 DEF ServerLeft, Leftover, clientVars
<1> QED
  BY <1>1, <1>2, <1>3 DEF InStepAt, ServerEnd, ClientEnd, clientVars

\* A request is answered.  The answer is what Replied allows, whether or not
\* the client is still there to read it.
LEMMA AnswerInStep ==
  ASSUME TypeOK, NEW c \in Client, InStepAt(c), Request(c), Consume(c),
         UNCHANGED clientVars, Remembers(c)', ServerEnd(c)',
         ClientEnd(c) => Replied(c)' /\ (pc[c] = "ackDel" => phase'[c] = "sync"),
         ~ ClientEnd(c) => toClient' = toClient
  PROVE  InStepAt(c)'
<1>1. toServer'[c] = <<>>
  BY RequestIsCurrent DEF Consume, TypeOK
<1>2. pc' = pc
  BY DEF clientVars
<1>3. CASE ClientEnd(c)
  <2>1. pc[c] \in Waiting
    BY <1>3, RequestIsCurrent
  <2>2. Connected(c)'
    BY <1>2, <1>3, <2>1 DEF Connected, Waiting, Awaits
  <2> QED
    BY <1>2, <1>3, <2>2 DEF InStepAt, ClientEnd
<1>4. CASE ~ ClientEnd(c)
  <2>1. toClient'[c] = <<>>
    BY <1>4, RequestIsCurrent
  <2>2. ClientLeft(c)'
    BY <1>1, <2>1 DEF ClientLeft, AtMostOneRequest
  <2> QED
    BY <1>2, <1>4, <2>2 DEF InStepAt, ClientEnd
<1> QED
  BY <1>3, <1>4

\* A response without content.
LEMMA HeaderReplied ==
  ASSUME TypeOK, NEW c \in Client, InStepAt(c), Request(c), Consume(c),
         UNCHANGED clientVars, NEW name \in EntryName \cup {NoName},
         NEW mtime \in MTimes, Respond(c, Header(name, mtime)), ClientEnd(c),
         pc[c] = "ackDel" => phase'[c] = "sync",
         pc[c] = "ackNew" =>
           /\ mtime # Deleted
           /\ \/ phase'[c] = "sync" /\ name \notin FileName
              \/ phase'[c] = "giveNew" /\ upload'[c].name = name,
         pc[c] = "ackSync" =>
           \/ mtime = Deleted /\ phase'[c] = "sync"
           \/ /\ mtime \in 0..(cur[c].mtime - 1)
              /\ phase'[c] \in {"getfile", "writing"}
              /\ upload'[c].name = cur[c].name
           \/ mtime = cur[c].mtime /\ phase'[c] = "sync"
           \/ /\ mtime > cur[c].mtime
              /\ name = cur[c].name
              /\ phase'[c] = "give"
              /\ upload'[c].name = name
  PROVE  Replied(c)'
<1> DEFINE header == Header(name, mtime)
<1>1. /\ header \in Message
      /\ IsHeader(header)
      /\ header.filename = name
      /\ header.mtime = mtime
  BY HeaderIsMessage
<1>2. toServer'[c] = <<>> /\ toClient[c] = <<>>
  BY RequestIsCurrent DEF Consume, TypeOK
<1> HIDE DEF header
<1>3. /\ toClient'[c] # <<>>
      /\ Head(toClient'[c]) = header
      /\ Tail(toClient'[c]) = <<>>
  BY <1>1, <1>2, OneMessage DEF Respond, Sent, TypeOK, header
<1>4. pc' = pc /\ cur' = cur
  BY DEF clientVars
<1> QED
  BY <1>1, <1>2, <1>3, <1>4 DEF Replied, Announces

\* Unlinking changes nothing but the link.
LEMMA UnlinkKeeps ==
  ASSUME NEW transfer \in Transfer, NEW name
  PROVE  /\ Unlink(transfer, name).name = transfer.name
         /\ Unlink(transfer, name).mtime = transfer.mtime
         /\ transfer = NoTransfer => Unlink(transfer, name) = NoTransfer
  BY DEF Unlink, Transfer, NoTransfer

\* Setting the link of a transfer changes nothing else of it.
LEMMA LinkKeeps ==
  ASSUME NEW transfer \in Transfer, NEW link
  PROVE  /\ [transfer EXCEPT !.link = link].name = transfer.name
         /\ [transfer EXCEPT !.link = link].mtime = transfer.mtime
  BY DEF Transfer

\* The rest of the system after a step at c.
LEMMA OneConnection ==
  ASSUME InStep, NEW c \in Client, InStepAt(c)',
         \A d \in Client \ {c} : SameEnds(d)
  PROVE  InStep'
  BY Frame DEF InStep

\* What an announcement changes.
LEMMA Announced ==
  ASSUME TypeOK, NEW c \in Client, NEW name \in EntryName, NEW mtime \in MTimes,
         NEW position \in Giving, Announce(c, position, Header(name, mtime))
  PROVE  /\ Respond(c, Header(name, mtime))
         /\ phase'[c] = position
         /\ upload'[c].name = name
         /\ upload'[c].mtime = 0
         /\ \A d \in Client \ {c} : /\ phase'[d] = phase[d]
                                    /\ upload'[d] = upload[d]
                                    /\ toClient'[d] = toClient[d]
         /\ ~ ClientEnd(c) => toClient' = toClient
<1>1. Header(name, mtime).filename = name
  BY HeaderIsMessage
<1>2. upload'[c] = [NoTransfer EXCEPT !.name = name]
  BY <1>1 DEF Announce, TypeOK
<1> QED
  BY <1>2 DEF Announce, Respond, Sent, TypeOK, NoTransfer

\* A file is announced.
LEMMA AnnounceInStep ==
  ASSUME TypeOK, InStep, NEW c \in Client, Request(c), Consume(c),
         UNCHANGED clientVars, NEW name \in EntryName, NEW mtime \in Nat,
         NEW position \in Giving, Announce(c, position, Header(name, mtime)),
         position = "giveNew" => name \in FileName,
         ClientEnd(c) =>
           \/ pc[c] = "ackNew" /\ position = "giveNew"
           \/ /\ pc[c] = "ackSync" /\ position = "give"
              /\ mtime > cur[c].mtime /\ name = cur[c].name
  PROVE  InStep'
<1>1. InStepAt(c)
  BY DEF InStep
<1>2. mtime \in MTimes /\ mtime # Deleted
  BY DEF MTimes, Deleted
<1>3. /\ Respond(c, Header(name, mtime))
      /\ phase'[c] = position
      /\ upload'[c].name = name
      /\ upload'[c].mtime = 0
      /\ \A d \in Client \ {c} : /\ phase'[d] = phase[d]
                                 /\ upload'[d] = upload[d]
                                 /\ toClient'[d] = toClient[d]
      /\ ~ ClientEnd(c) => toClient' = toClient
  BY <1>2, Announced
<1>4. Remembers(c)' /\ ServerEnd(c)'
  BY <1>1, <1>3 DEF InStepAt, Remembers, ServerEnd, Giving, clientVars
<1>5. ClientEnd(c) => Replied(c)'
  BY <1>1, <1>2, <1>3, HeaderReplied
<1>6. InStepAt(c)'
  BY <1>1, <1>3, <1>4, <1>5, AnswerInStep
<1>7. \A d \in Client \ {c} : SameEnds(d)
  BY <1>3 DEF Consume, SameEnds, TypeOK, clientVars
<1> QED
  BY <1>6, <1>7, OneConnection

\* State SYNC, without a request or with the empty one.
LEMMA IdleInStep ==
  ASSUME TypeOK, InStep, ContentKeepsName, NEW c \in Client,
         UNCHANGED <<envVars, clientVars, local>>
  PROVE  /\ RefreshFinds(c) \/ RefreshSkips(c) => InStep'
         /\ RefreshTakes(c) \/ RefreshDone(c) => InStep'
         /\ RefreshFails(c) => InStep'
         /\ ClientGone(c) => InStep'
         /\ BrokenPipe(c) \/ AddSharedOverflow(c) => InStep'
         /\ SendNewFile(c) => InStep'
         /\ NewFileOverflow(c) => InStep'
         /\ NoNewFile(c) => InStep'
<1> USE DEF wireVars, clientVars
<1>1. InStepAt(c) /\ KeepsName(disk)
  BY DEF InStep, ContentKeepsName
<1>2. ASSUME \/ RefreshFinds(c) \/ RefreshSkips(c)
             \/ RefreshTakes(c) \/ RefreshDone(c)
      PROVE  InStep'
  <2>1. \A d \in Client : SameEnds(d)
    BY <1>2 DEF RefreshFinds, RefreshSkips, RefreshTakes, RefreshDone, SameEnds
  <2> QED
    BY <2>1, Frame DEF InStep
<1>8. ASSUME RefreshFails(c) PROVE InStep'
  BY <1>8, ServerDiesInStep DEF RefreshFails
<1>3. ASSUME ClientGone(c) PROVE InStep'
  <2>1. InStepAt(c)'
    <3>1. toClient[c] = <<>>
      BY <1>1, <1>3 DEF ClientGone, InStepAt, ServerEnd, ClientLeft
    <3>2. CloseConnection(c) /\ UNCHANGED <<toClient, clientVars>>
      BY <1>3 DEF ClientGone
    <3> QED
      BY <1>1, <3>1, <3>2, CloseInStep
  <2>2. \A d \in Client \ {c} : SameEnds(d)
    BY <1>3 DEF ClientGone, CloseConnection, SameEnds, TypeOK
  <2> QED
    BY <2>1, <2>2, OneConnection
<1>4. ASSUME BrokenPipe(c) \/ AddSharedOverflow(c) PROVE InStep'
  BY <1>4, ServerDiesInStep DEF BrokenPipe, AddSharedOverflow
<1>5. ASSUME SendNewFile(c) PROVE InStep'
  <2>1. PICK name \in FileName :
          /\ Unknown(c, name)
          /\ Announce(c, "giveNew", Header(name, disk[name].mtime))
    BY <1>5 DEF SendNewFile
  <2>2. name \in EntryName /\ disk[name].mtime \in Nat
    BY <2>1, FileInFolder DEF Unknown, EntryName, TypeOK
  <2>3. /\ Request(c)
        /\ Consume(c)
        /\ Packet(c).filename = NoName
        /\ UNCHANGED clientVars
    BY <1>5 DEF SendNewFile
  <2>4. ASSUME ClientEnd(c) PROVE pc[c] = "ackNew"
    BY <1>1, <2>3, <2>4, RequestIsCurrent, FileTableAssumption
       DEF InStepAt, Remembers, Waiting, EntryName
  <2>5. "giveNew" \in Giving
    BY DEF Giving
  <2> QED
    BY <2>1, <2>2, <2>3, <2>4, <2>5, AnnounceInStep
<1>6. ASSUME NewFileOverflow(c) PROVE InStep'
  <2>1. PICK name \in FileName :
          /\ Unknown(c, name)
          /\ DiesHavingSent(Sent(c, Header(name, disk[name].mtime)))
    BY <1>6 DEF NewFileOverflow
  <2>2. name \in EntryName \cup {NoName} /\ disk[name].mtime \in Nat
    BY <2>1, FileInFolder DEF Unknown, EntryName, TypeOK
  <2> QED
    BY <1>6, <2>1, <2>2, DeathOnRequest DEF NewFileOverflow
<1>7. ASSUME NoNewFile(c) PROVE InStep'
  <2>1. /\ Request(c)
        /\ Consume(c)
        /\ Packet(c).filename = NoName
        /\ Respond(c, Header(NoName, 0))
        /\ UNCHANGED <<phase, upload, clientVars>>
    BY <1>7 DEF NoNewFile
  <2>2. phase[c] = "sync"
    BY <2>1 DEF Request
  <2>3. ASSUME ClientEnd(c) PROVE pc[c] = "ackNew"
    BY <1>1, <2>1, <2>3, RequestIsCurrent, FileTableAssumption
       DEF InStepAt, Remembers, Waiting, EntryName
  <2>4. 0 \in MTimes /\ 0 # Deleted /\ NoName \notin FileName
    BY FileTableAssumption DEF MTimes, Deleted, EntryName
  <2>5. ClientEnd(c) => Replied(c)'
    BY <1>1, <2>1, <2>2, <2>3, <2>4, HeaderReplied
  <2>6. ~ ClientEnd(c) => toClient' = toClient
    BY <2>1 DEF Respond, Sent
  <2>7. Remembers(c)' /\ ServerEnd(c)'
    BY <1>1, <2>1, <2>2 DEF InStepAt, Remembers, ServerEnd
  <2>8. InStepAt(c)'
    BY <1>1, <2>1, <2>2, <2>5, <2>6, <2>7, AnswerInStep
  <2>9. \A d \in Client \ {c} : SameEnds(d)
    BY <2>1 DEF Respond, Sent, Consume, SameEnds, TypeOK
  <2> QED
    BY <2>8, <2>9, OneConnection
<1> QED
  BY <1>2, <1>3, <1>4, <1>5, <1>6, <1>7, <1>8

\* A request with a name is the one the client waits with, about a deletion or
\* about a file it has.
LEMMA NamedIsCurrent ==
  ASSUME TypeOK, NEW c \in Client, InStepAt(c), Named(c)
  PROVE  /\ Request(c)
         /\ phase[c] = "sync"
         /\ Packet(c).filename \in EntryName
         /\ Packet(c).mtime \in MTimes
         /\ ClientEnd(c) => /\ Packet(c).filename = cur[c].name
                            /\ Packet(c).mtime = cur[c].mtime
                            /\ pc[c] \in {"ackDel", "ackSync"}
                            /\ pc[c] = "ackDel" => cur[c].mtime = Deleted
                            /\ pc[c] = "ackSync" => cur[c].mtime \in Nat
<1>1. /\ Request(c)
      /\ Packet(c).filename \in EntryName
      /\ Packet(c).mtime \in MTimes
  BY RequestIsMessage DEF Named, Request
<1> QED
  BY <1>1, RequestIsCurrent, FileTableAssumption
     DEF Named, InStepAt, Remembers, Waiting, NoTransfer

\* A regular packet.
LEMMA PacketInStep ==
  ASSUME TypeOK, InStep, ContentKeepsName, NEW c \in Client,
         UNCHANGED <<envVars, clientVars, local>>
  PROVE  /\ RefuseFile(c) => InStep'
         /\ NotifyDeleted(c) => InStep'
         /\ AcceptDeletion(c) => InStep'
         /\ AskForFile(c) => InStep'
         /\ SendNewer(c) => InStep'
         /\ AlreadyInSync(c) => InStep'
<1> USE DEF clientVars
<1> DEFINE name == Packet(c).filename
<1>1. InStepAt(c) /\ KeepsName(disk)
  BY DEF InStep, ContentKeepsName
<1>2. ASSUME Named(c)
      PROVE  /\ Request(c)
             /\ phase[c] = "sync"
             /\ name \in EntryName
             /\ Packet(c).mtime \in MTimes
             /\ ClientEnd(c) => /\ name = cur[c].name
                                /\ Packet(c).mtime = cur[c].mtime
                                /\ pc[c] \in {"ackDel", "ackSync"}
                                /\ pc[c] = "ackDel" => cur[c].mtime = Deleted
                                /\ pc[c] = "ackSync" => cur[c].mtime \in Nat
  BY <1>1, <1>2, NamedIsCurrent
<1>3. ASSUME Named(c), NEW i \in Slot, NEW t \in EntryTime(c, i)
      PROVE  t \in Nat /\ t \in MTimes /\ t # Deleted
  BY <1>2, <1>3, EntryTimeIsTime DEF MTimes, Deleted
\* an answer that keeps the server's end as it is
<1>4. ASSUME Named(c), Consume(c), UNCHANGED phase,
             \A d \in Client : upload'[d] = Unlink(upload[d], name)
                               \/ upload'[d] = upload[d],
             ClientEnd(c) => Replied(c)',
             \A d \in Client : d # c \/ ~ ClientEnd(c) => toClient'[d] = toClient[d],
             ~ ClientEnd(c) => toClient' = toClient
      PROVE  InStep'
  <2>1. \A d \in Client : upload[d] \in Transfer
    BY DEF TypeOK
  <2>2. upload[c] = NoTransfer
    BY <1>1, <1>2, <1>4, RequestIsCurrent
  <2>3. upload'[c] = NoTransfer
    BY <1>4, <2>1, <2>2, UnlinkKeeps
  <2>4. Remembers(c)' /\ ServerEnd(c)'
    BY <1>1, <1>2, <1>4, <2>2, <2>3 DEF InStepAt, Remembers, ServerEnd
  <2>5. InStepAt(c)'
    BY <1>1, <1>2, <1>4, <2>4, AnswerInStep
  <2>6. \A d \in Client \ {c} : toServer'[d] = toServer[d]
    BY <1>4 DEF Consume, TypeOK
  <2>7. \A d \in Client \ {c} : SameEnds(d)
    BY <1>4, <2>1, <2>6, UnlinkKeeps DEF SameEnds
  <2> QED
    BY <2>5, <2>7, OneConnection
<1>5. ASSUME RefuseFile(c) PROVE InStep'
  <2>1. toClient[c] = <<>>
    BY <1>1, <1>2, <1>5, RequestIsCurrent DEF RefuseFile
  <2>2. InStepAt(c)'
    BY <1>1, <1>5, <2>1, CloseInStep DEF RefuseFile
  <2>3. \A d \in Client \ {c} : SameEnds(d)
    BY <1>5 DEF RefuseFile, CloseConnection, SameEnds, TypeOK
  <2> QED
    BY <2>2, <2>3, OneConnection
<1>6. ASSUME NotifyDeleted(c) PROVE InStep'
  <2>1. PICK i \in Slot : \E t \in EntryTime(c, i), j \in 1..fileLength[c] :
          Respond(c, Header(At(Table(c, i, t), j).filename, Deleted))
    BY <1>6 DEF NotifyDeleted
  <2>2. PICK t \in EntryTime(c, i), j \in 1..fileLength[c] :
          Respond(c, Header(At(Table(c, i, t), j).filename, Deleted))
    BY <2>1
  <2>3. /\ Named(c)
        /\ Consume(c)
        /\ UNCHANGED <<phase, upload, clientVars>>
    BY <1>6 DEF NotifyDeleted
  <2>4. At(Table(c, i, t), j).filename \in EntryName \cup {NoName}
    <3>1. Table(c, i, t) \in FileArray
      BY <1>2, <1>3, <2>3, RecordIsTable DEF Table, TypeOK
    <3> QED
      BY <3>1, AtIsEntry DEF FileInfo
  <2>5. ClientEnd(c) => Replied(c)'
    BY <1>1, <1>2, <2>2, <2>3, <2>4, HeaderReplied DEF MTimes
  <2> QED
    BY <1>4, <2>2, <2>3, <2>5 DEF Respond, Sent, TypeOK
<1>7. ASSUME AcceptDeletion(c) PROVE InStep'
  <2>1. PICK i \in Slot : \E t \in EntryTime(c, i) : Respond(c, Header(name, t))
    BY <1>7 DEF AcceptDeletion
  <2>2. PICK t \in EntryTime(c, i) : Respond(c, Header(name, t))
    BY <2>1
  <2>3. /\ Named(c)
        /\ Consume(c)
        /\ Packet(c).mtime = Deleted
        /\ UNCHANGED <<phase, clientVars>>
        /\ \A d \in Client : upload'[d] = Unlink(upload[d], name)
    BY <1>7 DEF AcceptDeletion
  <2>4. ClientEnd(c) => pc[c] = "ackDel"
    BY <1>2, <2>3 DEF Deleted
  <2>5. ClientEnd(c) => Replied(c)'
    BY <1>1, <1>2, <1>3, <2>2, <2>3, <2>4, HeaderReplied
  <2> QED
    BY <1>4, <2>2, <2>3, <2>5 DEF Respond, Sent, TypeOK
<1>8. ASSUME AskForFile(c) PROVE InStep'
  <2>1. PICK i \in Slot : \E t \in EntryTime(c, i) :
          Packet(c).mtime > t /\ Respond(c, Header(name, t))
    BY <1>8 DEF AskForFile
  <2>2. PICK t \in EntryTime(c, i) :
          Packet(c).mtime > t /\ Respond(c, Header(name, t))
    BY <2>1
  <2>3. /\ Named(c)
        /\ Consume(c)
        /\ UNCHANGED clientVars
        /\ phase' = [phase EXCEPT ![c] = "getfile"]
        /\ upload' = [upload EXCEPT ![c] = [name |-> name,
                                            mtime |-> Packet(c).mtime,
                                            link |-> "gone"]]
    BY <1>8 DEF AskForFile
  <2>4. /\ phase'[c] = "getfile"
        /\ upload'[c].name = name
        /\ upload'[c].mtime = Packet(c).mtime
    BY <2>3 DEF TypeOK
  <2>5. Packet(c).mtime \in Nat
    BY <1>2, <1>3, <2>2, <2>3 DEF MTimes, Deleted
  <2>6. ClientEnd(c) => /\ pc[c] = "ackSync"
                        /\ t \in 0..(cur[c].mtime - 1)
    BY <1>2, <1>3, <2>2, <2>3, <2>5 DEF Deleted
  <2>7. ClientEnd(c) => Replied(c)'
    BY <1>1, <1>2, <1>3, <2>2, <2>3, <2>4, <2>6, HeaderReplied
  <2>8. Remembers(c)' /\ ServerEnd(c)'
    BY <1>1, <1>2, <2>3, <2>4, <2>5 DEF InStepAt, Remembers, ServerEnd
  <2>9. InStepAt(c)'
    BY <1>1, <1>2, <2>2, <2>3, <2>6, <2>7, <2>8, AnswerInStep
       DEF Respond, Sent
  <2>10. \A d \in Client \ {c} : SameEnds(d)
    BY <2>2, <2>3 DEF Respond, Sent, Consume, SameEnds, TypeOK
  <2> QED
    BY <2>9, <2>10, OneConnection
<1>9. ASSUME SendNewer(c) PROVE InStep'
  <2>1. PICK i \in Slot : \E t \in EntryTime(c, i) :
          Packet(c).mtime \in 0..(t-1) /\ Announce(c, "give", Header(name, t))
    BY <1>9 DEF SendNewer
  <2>2. PICK t \in EntryTime(c, i) :
          Packet(c).mtime \in 0..(t-1) /\ Announce(c, "give", Header(name, t))
    BY <2>1
  <2>3. Named(c) /\ Consume(c)
    BY <1>9 DEF SendNewer
  <2>4. ClientEnd(c) => pc[c] = "ackSync" /\ t > cur[c].mtime
    BY <1>2, <1>3, <2>2, <2>3 DEF Deleted
  <2>5. "give" \in Giving
    BY DEF Giving
  <2> QED
    BY <1>2, <1>3, <2>2, <2>3, <2>4, <2>5, AnnounceInStep
<1>11. ASSUME AlreadyInSync(c) PROVE InStep'
  <2>1. PICK i \in Slot : \E t \in EntryTime(c, i) :
          Packet(c).mtime = t /\ Respond(c, Header(name, t))
    BY <1>11 DEF AlreadyInSync
  <2>2. PICK t \in EntryTime(c, i) :
          Packet(c).mtime = t /\ Respond(c, Header(name, t))
    BY <2>1
  <2>3. /\ Named(c)
        /\ Consume(c)
        /\ UNCHANGED <<phase, upload, clientVars>>
    BY <1>11 DEF AlreadyInSync
  <2>4. ClientEnd(c) => pc[c] = "ackSync" /\ t = cur[c].mtime
    BY <1>2, <1>3, <2>2, <2>3
  <2>5. ClientEnd(c) => Replied(c)'
    BY <1>1, <1>2, <1>3, <2>2, <2>3, <2>4, HeaderReplied
  <2> QED
    BY <1>4, <2>2, <2>3, <2>5 DEF Respond, Sent, TypeOK
<1> QED
  BY <1>5, <1>6, <1>7, <1>8, <1>9, <1>11

\* While a file is about to be given, its announcement is on the way or read.
LEMMA GivingIsAnnounced ==
  ASSUME TypeOK, NEW c \in Client, InStepAt(c), phase[c] \in Giving
  PROVE  /\ ServerEnd(c) /\ ~ Uploading(c)
         /\ upload[c].name \in EntryName
         /\ ~ ClientEnd(c) => toClient[c] = <<>>
         /\ ClientEnd(c) =>
              /\ toServer[c] = <<>>
              /\ \/ /\ pc[c] \in {"ackSync", "ackNew"}
                    /\ Replied(c)
                    /\ Head(toClient[c]).filename = upload[c].name
                    /\ Tail(toClient[c]) = <<>>
                 \/ /\ pc[c] \in {"recv", "recvNew"}
                    /\ toClient[c] = <<>>
                    /\ cur[c].name = upload[c].name
<1>1. /\ ServerEnd(c) /\ ~ Uploading(c)
      /\ upload[c].name \in EntryName
  BY DEF InStepAt, Remembers, ServerEnd, Uploading, Giving, EntryName
<1>2. CASE ~ ClientEnd(c)
  BY <1>1, <1>2 DEF InStepAt, ClientLeft
<1>3. CASE ClientEnd(c)
  <2>1. Connected(c)
    BY <1>1, <1>3 DEF InStepAt
  <2>2. pc[c] \notin {"off", "scan", "walk", "ackDel"}
    BY <1>3, <2>1 DEF Connected, Ahead, ClientEnd, Giving
  <2>3. CASE pc[c] = "ackSync"
    BY <1>1, <1>3, <2>1, <2>3
       DEF Connected, Asked, Ahead, Replied, Announces, Giving
  <2>4. CASE pc[c] = "ackNew"
    BY <1>1, <1>3, <2>1, <2>4
       DEF Connected, Asked, Ahead, Replied, Announces, Giving
  <2>5. CASE pc[c] \in {"recv", "recvNew"}
    BY <1>1, <1>3, <2>1, <2>5 DEF Connected, Awaits, Giving
  <2>6. pc[c] \in Position
    BY DEF TypeOK
  <2> QED
    BY <1>1, <2>2, <2>3, <2>4, <2>5, <2>6 DEF Position
<1> QED
  BY <1>1, <1>2, <1>3

\* What a client finds behind the announcement, or in its place.
LEMMA ContentSent ==
  ASSUME TypeOK, KeepsName(disk), NEW c \in Client, NEW name \in FileName,
         Exists(disk, name), ClientEnd(c), Respond(c, Body(disk[name].data))
  PROVE  /\ toClient[c] = <<>> => OneBody(toClient'[c], name)
         /\ toClient[c] # <<>> /\ Tail(toClient[c]) = <<>> =>
              /\ toClient'[c] # <<>>
              /\ Head(toClient'[c]) = Head(toClient[c])
              /\ OneBody(Tail(toClient'[c]), name)
<1> DEFINE body == Body(disk[name].data)
<1>1. body \in Message /\ IsBody(body, name)
  BY FileInFolder, BodyIsMessage DEF TypeOK, KeepsName, Exists
<1>2. toClient[c] \in Seq(Message) /\ toClient'[c] = Append(toClient[c], body)
  BY DEF Respond, Sent, TypeOK
<1> HIDE DEF body
<1>3. OneBody(<<body>>, name)
  BY <1>1, OneMessage DEF OneBody
<1>4. CASE toClient[c] = <<>>
  BY <1>1, <1>2, <1>3, <1>4, OneMessage
<1>5. CASE toClient[c] # <<>> /\ Tail(toClient[c]) = <<>>
  <2>1. /\ toClient'[c] # <<>>
        /\ Head(toClient'[c]) = Head(toClient[c])
        /\ Tail(toClient'[c]) = Append(<<>>, body)
    BY <1>1, <1>2, <1>5, Appended
  <2> QED
    BY <1>1, <1>3, <1>5, <2>1, OneMessage
<1> QED
  BY <1>4, <1>5

\* The end of a request.
LEMMA GiveInStep ==
  ASSUME TypeOK, InStep, ContentKeepsName, NEW c \in Client,
         UNCHANGED <<envVars, clientVars, local>>
  PROVE  GiveFile(c) \/ GiveNothing(c) => InStep'
<1> USE DEF clientVars
<1> DEFINE name == upload[c].name
<1>1. InStepAt(c) /\ KeepsName(disk)
  BY DEF InStep, ContentKeepsName
<1>2. ASSUME GiveNothing(c) PROVE InStep'
  BY <1>2, ServerDiesInStep DEF GiveNothing
<1>3. ASSUME GiveFile(c) PROVE InStep'
  <2>1. /\ phase[c] \in Giving
        /\ Exists(disk, name)
        /\ IF name \in FileName THEN Respond(c, Body(disk[name].data))
           ELSE UNCHANGED toClient
        /\ phase' = [phase EXCEPT ![c] = "sync"]
        /\ upload' = [upload EXCEPT ![c] = NoTransfer]
        /\ UNCHANGED toServer
    BY <1>3 DEF GiveFile
  <2>2. phase'[c] = "sync" /\ upload'[c] = NoTransfer
    BY <2>1 DEF TypeOK
  <2>3. Remembers(c)' /\ ServerEnd(c)' /\ ~ Uploading(c)'
    BY <1>1, <2>2 DEF InStepAt, Remembers, ServerEnd, Uploading, NoTransfer
  <2>4. \A d \in Client \ {c} : SameEnds(d)
    BY <2>1 DEF Respond, Sent, SameEnds, TypeOK
  <2>5. CASE ~ ClientEnd(c)
    <3>1. toClient'[c] = <<>> /\ ~ Uploading(c) /\ ServerEnd(c)
      BY <1>1, <2>1, <2>5, GivingIsAnnounced DEF Respond, Sent
    <3>2. ClientLeft(c)'
      BY <1>1, <2>1, <2>3, <2>5, <3>1 DEF InStepAt, ClientLeft
    <3>3. InStepAt(c)'
      BY <2>3, <2>5, <3>2 DEF InStepAt, ClientEnd
    <3> QED
      BY <2>4, <3>3, OneConnection
  <2>6. CASE ClientEnd(c) /\ pc[c] \in {"recv", "recvNew"}
    <3>1. /\ toServer[c] = <<>> /\ toClient[c] = <<>>
          /\ cur[c].name = name
          /\ cur[c].name \in FileName
      BY <1>1, <2>1, <2>6, GivingIsAnnounced DEF InStepAt, Remembers
    <3>2. OneBody(toClient'[c], cur[c].name)
      BY <1>1, <2>1, <2>6, <3>1, ContentSent
    <3>3. Connected(c)'
      BY <2>1, <2>2, <2>6, <3>1, <3>2 DEF Connected, Awaits
    <3>4. InStepAt(c)'
      BY <2>3, <2>6, <3>3 DEF InStepAt, ClientEnd
    <3> QED
      BY <2>4, <3>4, OneConnection
  <2>7. CASE ClientEnd(c) /\ pc[c] \notin {"recv", "recvNew"}
    <3>1. /\ pc[c] \in {"ackSync", "ackNew"}
          /\ toServer[c] = <<>>
          /\ Replied(c)
          /\ Head(toClient[c]).filename = name
          /\ Tail(toClient[c]) = <<>>
      BY <1>1, <2>1, <2>7, GivingIsAnnounced
    <3>2. toClient[c] # <<>>
      BY <3>1 DEF Replied
    <3>3. /\ toClient'[c] # <<>>
          /\ Head(toClient'[c]) = Head(toClient[c])
          /\ IF name \in FileName THEN OneBody(Tail(toClient'[c]), name)
             ELSE Tail(toClient'[c]) = <<>>
      BY <1>1, <2>1, <2>7, <3>1, <3>2, ContentSent
    <3>4. Replied(c)'
      <4>1. CASE pc[c] = "ackSync"
        <5>1. /\ IsHeader(Head(toClient[c]))
              /\ Head(toClient[c]).mtime > cur[c].mtime
              /\ Head(toClient[c]).filename = cur[c].name
          BY <2>1, <3>1, <4>1 DEF Replied, Giving
        <5> QED
          BY <2>1, <2>2, <3>1, <3>3, <4>1, <5>1 DEF Replied, Announces
      <4>2. CASE pc[c] = "ackNew"
        BY <2>1, <2>2, <3>1, <3>3, <4>2 DEF Replied, Announces
      <4> QED
        BY <3>1, <4>1, <4>2
    <3>5. Connected(c)'
      BY <3>1, <3>4 DEF Connected, Awaits
    <3>6. InStepAt(c)'
      BY <2>3, <2>7, <3>5 DEF InStepAt, ClientEnd
    <3> QED
      BY <2>4, <3>6, OneConnection
  <2> QED
    BY <2>5, <2>6, <2>7
<1> QED
  BY <1>2, <1>3

\* Opening the file of an upload changes how that file is linked, and nothing
\* else of any upload.
LEMMA OpenKeeps ==
  ASSUME TypeOK, NEW c \in Client, GetOpen(c)
  PROVE  \A d \in Client :
           /\ upload'[d].name = upload[d].name
           /\ upload'[d].mtime = upload[d].mtime
           /\ upload[d] = NoTransfer => upload'[d] = NoTransfer
<1>1. PICK link \in {"own", "shared"} : \A d \in Client :
        \/ upload'[d] = upload[d] /\ d # c
        \/ /\ upload'[d] = [upload[d] EXCEPT !.link = link]
           /\ upload[d].name = upload[c].name
  BY DEF GetOpen
<1>2. NoTransfer.name \notin FileName /\ upload[c].name \in FileName
  BY FileTableAssumption DEF NoTransfer, EntryName, GetOpen
<1>3. \A d \in Client : upload[d] \in Transfer
  BY DEF TypeOK
<1> TAKE d \in Client
<1>4. CASE upload'[d] = upload[d]
  BY <1>4
<1>5. CASE /\ upload'[d] = [upload[d] EXCEPT !.link = link]
           /\ upload[d].name = upload[c].name
  <2>1. upload[d] # NoTransfer
    BY <1>2, <1>5
  <2> QED
    BY <1>3, <1>5, <2>1, LinkKeeps
<1> QED
  BY <1>1, <1>4, <1>5

\* State GETFILE.
LEMMA UploadInStep ==
  ASSUME TypeOK, InStep, NEW c \in Client,
         UNCHANGED <<envVars, clientVars, local>>
  PROVE  /\ GetOpen(c) => InStep'
         /\ GetDirectory(c) \/ GetEof(c) => InStep'
         /\ GetData(c) => InStep'
         /\ GetStamp(c) => InStep'
<1> USE DEF clientVars, wireVars
<1>1. InStepAt(c) /\ Remembers(c)
  BY DEF InStep, InStepAt
<1>2. ASSUME GetOpen(c) PROVE InStep'
  <2>1. /\ phase[c] = "getfile"
        /\ phase' = [phase EXCEPT ![c] = "writing"]
        /\ upload[c].name \in FileName
        /\ UNCHANGED <<toServer, toClient>>
    BY <1>2 DEF GetOpen
  <2>3. \A d \in Client :
          /\ upload'[d].name = upload[d].name
          /\ upload'[d].mtime = upload[d].mtime
          /\ upload[d] = NoTransfer => upload'[d] = NoTransfer
    BY <1>2, OpenKeeps
  <2>4. phase'[c] = "writing"
    BY <2>1 DEF TypeOK
  <2>5. Uploading(c) /\ Uploading(c)'
    BY <2>1, <2>3, <2>4 DEF Uploading
  <2>6. Remembers(c)'
    BY <1>1, <2>1, <2>3, <2>4 DEF Remembers
  <2>7. ServerEnd(c) /\ ServerEnd(c)' /\ ClientEnd(c)' = ClientEnd(c)
    BY <2>1, <2>4 DEF ServerEnd, ClientEnd
  <2>8. ASSUME Connected(c) PROVE Connected(c)'
    <3>1. Asked(c) => Asked(c)'
      BY <2>1, <2>3, <2>5 DEF Asked, Ahead, Giving
    <3>2. Replied(c) => Replied(c)'
      BY <2>1, <2>3, <2>4 DEF Replied, Announces
    <3>3. Ahead(c, <<>>) => Ahead(c, <<>>)'
      BY <2>1, <2>3, <2>5 DEF Ahead, Giving
    <3> QED
      BY <2>1, <2>8, <3>1, <3>2, <3>3 DEF Connected, Awaits
  <2>9. ClientLeft(c) => ClientLeft(c)'
    BY <2>1, <2>3, <2>5 DEF ClientLeft
  <2>10. InStepAt(c)'
    BY <1>1, <2>6, <2>7, <2>8, <2>9 DEF InStepAt
  <2>11. \A d \in Client \ {c} : SameEnds(d)
    BY <2>1, <2>3 DEF SameEnds, TypeOK
  <2> QED
    BY <2>10, <2>11, OneConnection
<1>3. ASSUME GetDirectory(c) \/ GetEof(c) PROVE InStep'
  BY <1>3, ServerDiesInStep DEF GetDirectory, GetEof
<1>4. ASSUME GetData(c) PROVE InStep'
  <2>1. /\ phase[c] = "writing"
        /\ toServer[c] # <<>>
        /\ UNCHANGED <<upload, toClient>>
        /\ phase' = [phase EXCEPT ![c] = "stamp"]
        /\ Consume(c)
    BY <1>4 DEF GetData
  <2>2. phase'[c] = "stamp" /\ toServer'[c] = Tail(toServer[c])
    BY <2>1 DEF Consume, TypeOK
  <2>3. Uploading(c) /\ ~ Uploading(c)'
    BY <1>1, <2>1, <2>2 DEF Uploading, Remembers
  <2>4. Remembers(c)'
    BY <1>1, <2>1, <2>2 DEF Remembers
  <2>5. ServerEnd(c) /\ ServerEnd(c)' /\ ClientEnd(c)' = ClientEnd(c)
    BY <2>1, <2>2 DEF ServerEnd, ClientEnd
  <2>6. ASSUME Connected(c) PROVE Connected(c)'
    <3>1. Asked(c) => Asked(c)'
      BY <2>1, <2>2, <2>3 DEF Asked, Ahead, Giving
    <3>2. ~ Replied(c)
      BY <2>1 DEF Replied
    <3>3. Ahead(c, <<>>) => Ahead(c, <<>>)'
      BY <2>2, <2>3 DEF Ahead, Giving
    <3> QED
      BY <2>1, <2>6, <3>1, <3>2, <3>3 DEF Connected, Awaits
  <2>7. ClientLeft(c) => ClientLeft(c)'
    BY <2>1, <2>2, <2>3 DEF ClientLeft
  <2>8. InStepAt(c)'
    BY <1>1, <2>4, <2>5, <2>6, <2>7 DEF InStepAt
  <2>9. \A d \in Client \ {c} : SameEnds(d)
    BY <2>1 DEF SameEnds, Consume, TypeOK
  <2> QED
    BY <2>8, <2>9, OneConnection
<1>5. ASSUME GetStamp(c) PROVE InStep'
  <2>1. CASE ServerDies
    BY <2>1, ServerDiesInStep
  <2>2. CASE ~ ServerDies
    <3>1. /\ phase[c] = "stamp"
          /\ phase' = [phase EXCEPT ![c] = "sync"]
          /\ upload' = [upload EXCEPT ![c] = NoTransfer]
          /\ UNCHANGED <<toServer, toClient>>
      BY <1>5, <2>2 DEF GetStamp
    <3>2. phase'[c] = "sync" /\ upload'[c] = NoTransfer
      BY <3>1 DEF TypeOK
    <3>3. ~ Uploading(c) /\ ~ Uploading(c)'
      BY <3>1, <3>2 DEF Uploading
    <3>4. Remembers(c)'
      BY <1>1, <3>1, <3>2 DEF Remembers, NoTransfer
    <3>5. ServerEnd(c) /\ ServerEnd(c)' /\ ClientEnd(c)' = ClientEnd(c)
      BY <3>1, <3>2 DEF ServerEnd, ClientEnd
    <3>6. ASSUME Connected(c) PROVE Connected(c)'
      <4>1. Asked(c) => Asked(c)'
        BY <3>1, <3>3 DEF Asked, Ahead, Giving
      <4>2. pc[c] \in Waiting => ~ Replied(c)
        BY <3>1 DEF Replied, Announces, Waiting
      <4>3. Ahead(c, <<>>) => Ahead(c, <<>>)'
        BY <3>1, <3>3 DEF Ahead, Giving
      <4> QED
        BY <3>1, <3>2, <3>6, <4>1, <4>2, <4>3 DEF Connected, Waiting, Awaits
    <3>7. ClientLeft(c) => ClientLeft(c)'
      BY <3>1, <3>3 DEF ClientLeft
    <3>8. InStepAt(c)'
      BY <1>1, <3>4, <3>5, <3>6, <3>7 DEF InStepAt
    <3>9. \A d \in Client \ {c} : SameEnds(d)
      BY <3>1 DEF SameEnds, TypeOK
    <3> QED
      BY <3>8, <3>9, OneConnection
  <2> QED
    BY <2>1, <2>2
<1> QED
  BY <1>2, <1>3, <1>4, <1>5

-----------------------------------------------------------------------------
(* The steps of a client. *)

\* A client ends, with all or all but a body of what it was sending.
LEMMA ExitInStep ==
  ASSUME TypeOK, InStep, NEW c \in Client, ClientEnd(c), Exit(c),
         NEW channel \in {toServer[c], Trim(toServer[c])},
         toServer' = [toServer EXCEPT ![c] = channel],
         UNCHANGED <<phase, upload>>
  PROVE  InStep'
<1>1. InStepAt(c)
  BY DEF InStep
<1>2. /\ pc'[c] = "off"
      /\ cur'[c] = NoTransfer
      /\ toClient'[c] = <<>>
      /\ toServer'[c] = channel
  BY DEF Exit, TypeOK
<1>3. Remembers(c)'
  BY <1>1, <1>2 DEF InStepAt, Remembers
<1>4. ~ ClientEnd(c)' /\ ServerEnd(c)' = ServerEnd(c)
  BY <1>2 DEF ClientEnd, ServerEnd
<1>5. toServer[c] \in Seq(Message)
  BY DEF TypeOK
<1>6. AtMostOneRequest(<<>>)
  BY DEF AtMostOneRequest
<1>7. ASSUME ~ ServerEnd(c) PROVE InStepAt(c)'
  <2>1. toServer[c] = <<>>
    BY <1>1, <1>7 DEF InStepAt, ServerLeft
  <2>2. toServer'[c] = <<>>
    BY <1>2, <1>5, <2>1, TrimShapes
  <2> QED
    BY <1>2, <1>3, <1>4, <1>7, <2>2 DEF InStepAt
<1>8. ASSUME ServerEnd(c), Uploading(c) PROVE InStepAt(c)'
  <2>1. toServer[c] # <<>> => /\ IsBody(Head(toServer[c]), upload[c].name)
                              /\ AtMostOneRequest(Tail(toServer[c]))
    BY <1>1, <1>8, ClientLeaves
  <2>2. channel # <<>> => /\ IsBody(Head(channel), upload[c].name)
                          /\ AtMostOneRequest(Tail(channel))
    <3>1. CASE toServer[c] = <<>>
      BY <1>5, <3>1, TrimShapes
    <3>2. CASE toServer[c] # <<>> /\ Tail(toServer[c]) = <<>>
      BY <1>5, <2>1, <3>2, TrimShapes
    <3>3. CASE toServer[c] # <<>> /\ Tail(toServer[c]) # <<>>
      <4>1. channel = toServer[c]
        BY <1>5, <2>1, <3>3, TrimShapes DEF AtMostOneRequest
      <4> QED
        BY <2>1, <4>1
    <3> QED
      BY <3>1, <3>2, <3>3
  <2>3. ClientLeft(c)'
    BY <1>2, <1>8, <2>2 DEF ClientLeft, Uploading
  <2> QED
    BY <1>3, <1>4, <1>8, <2>3 DEF InStepAt
<1>9. ASSUME ServerEnd(c), ~ Uploading(c) PROVE InStepAt(c)'
  <2>1. AtMostOneRequest(toServer[c])
    BY <1>1, <1>9, ClientLeaves
  <2>2. AtMostOneRequest(channel)
    <3>1. channel \in {toServer[c], <<>>}
      BY <1>5, <2>1, TrimShapes DEF AtMostOneRequest
    <3> QED
      BY <1>6, <2>1, <3>1
  <2>3. ClientLeft(c)'
    BY <1>2, <1>9, <2>2 DEF ClientLeft, Uploading
  <2> QED
    BY <1>3, <1>4, <1>9, <2>3 DEF InStepAt
<1>10. InStepAt(c)'
  BY <1>7, <1>8, <1>9
<1>11. \A d \in Client \ {c} : SameEnds(d)
  BY DEF Exit, SameEnds, TypeOK
<1> QED
  BY <1>10, <1>11, OneConnection

\* A client sends a request behind whatever it has sent before.
LEMMA AskInStep ==
  ASSUME TypeOK, NEW c \in Client, InStepAt(c), UNCHANGED <<phase, upload>>,
         ClientEnd(c), pc'[c] \in Waiting, toClient'[c] = <<>>, Remembers(c)',
         pc'[c] = "ackDel" => pc[c] = "scan",
         ServerEnd(c) => Ahead(c, <<>>),
         Send(c, Header(cur'[c].name, cur'[c].mtime)),
         cur'[c].name \in EntryName \cup {NoName}, cur'[c].mtime \in MTimes
  PROVE  InStepAt(c)'
<1> DEFINE header == Header(cur'[c].name, cur'[c].mtime)
<1>1. /\ ServerEnd(c)' = ServerEnd(c)
      /\ ClientEnd(c)'
      /\ Uploading(c)' = Uploading(c)
  BY DEF ServerEnd, ClientEnd, Uploading, Waiting
<1>2. header \in Message /\ IsHeader(header)
  BY HeaderIsMessage
<1>3. CASE ServerEnd(c)
  <2>1. toServer'[c] = Append(toServer[c], header)
    BY <1>3 DEF Send, TypeOK
  <2>2. toServer[c] \in Seq(Message)
    BY DEF TypeOK
  <2> HIDE DEF header
  <2>3. IF Uploading(c)
        THEN /\ toServer'[c] # <<>>
             /\ IsBody(Head(toServer'[c]), upload[c].name)
             /\ Tail(toServer'[c]) = <<header>>
        ELSE toServer'[c] = <<header>>
    <3>1. CASE Uploading(c)
      <4>1. /\ toServer[c] # <<>>
            /\ IsBody(Head(toServer[c]), upload[c].name)
            /\ Tail(toServer[c]) = <<>>
        BY <1>3, <3>1 DEF Ahead, Giving
      <4>2. /\ toServer'[c] # <<>>
            /\ Head(toServer'[c]) = Head(toServer[c])
            /\ Tail(toServer'[c]) = Append(<<>>, header)
        BY <1>2, <2>1, <2>2, <4>1, Appended
      <4> QED
        BY <1>2, <3>1, <4>1, <4>2, OneMessage
    <3>2. CASE ~ Uploading(c)
      BY <1>2, <1>3, <2>1, <3>2, OneMessage DEF Ahead, Giving
    <3> QED
      BY <3>1, <3>2
  <2>4. Asked(c)'
    BY <1>1, <1>3, <2>3 DEF Asked, Ahead, header, Giving
  <2>5. pc'[c] = "ackDel" => phase'[c] = "sync"
    BY <1>3 DEF InStepAt, ClientEnd, Connected, Awaits
  <2>6. Connected(c)'
    BY <2>4, <2>5 DEF Connected, Waiting, Awaits
  <2> QED
    BY <1>1, <1>3, <2>6 DEF InStepAt
<1>4. CASE ~ ServerEnd(c)
  <2>1. toServer'[c] = <<>>
    BY <1>4 DEF InStepAt, ServerLeft, Send
  <2>2. ServerLeft(c)'
    BY <2>1 DEF ServerLeft, Leftover, Waiting
  <2> QED
    BY <1>1, <1>4, <2>2 DEF InStepAt
<1> QED
  BY <1>3, <1>4

\* Reading the response to the last request, or a file, leads to the position
\* in front of the next request.
LEMMA ReadInStep ==
  ASSUME TypeOK, NEW c \in Client, InStepAt(c), UNCHANGED <<phase, upload>>,
         ClientEnd(c), Remembers(c)', pc'[c] \in {"scan", "walk"},
         toClient'[c] = <<>>,
         ServerEnd(c) => /\ Ahead(c, <<>>)'
                         /\ pc'[c] = "scan" => phase[c] = "sync",
         ~ ServerEnd(c) => toServer'[c] = toServer[c]
  PROVE  InStepAt(c)'
<1>1. ServerEnd(c)' = ServerEnd(c) /\ ClientEnd(c)'
  BY DEF ServerEnd, ClientEnd
<1>2. CASE ServerEnd(c)
  <2>1. pc'[c] = "scan" => toServer'[c] = <<>> /\ phase'[c] = "sync"
    BY <1>2 DEF Ahead, Uploading, Giving
  <2>2. Connected(c)'
    BY <1>2, <2>1 DEF Connected, Awaits
  <2> QED
    BY <1>1, <1>2, <2>2 DEF InStepAt
<1>3. CASE ~ ServerEnd(c)
  <2>1. ServerLeft(c)'
    BY <1>3 DEF InStepAt, ServerLeft, Leftover
  <2> QED
    BY <1>1, <1>3, <2>1 DEF InStepAt
<1> QED
  BY <1>2, <1>3

\* Before it asks, a client has nothing to read, and has asked for nothing.
LEMMA Quiet ==
  ASSUME NEW c \in Client, InStepAt(c), pc[c] \in {"scan", "walk"}
  PROVE  /\ ClientEnd(c)
         /\ toClient[c] = <<>>
         /\ ServerEnd(c) => Ahead(c, <<>>)
         /\ ServerEnd(c) /\ pc[c] = "scan" => phase[c] = "sync"
         /\ cur[c] = NoTransfer
  BY DEF InStepAt, Remembers, Connected, ServerLeft, Leftover, Ahead, Uploading,
         ClientEnd, Giving, Awaits

\* After it has read a file, likewise.
LEMMA FileRead ==
  ASSUME NEW c \in Client, InStepAt(c), pc[c] \in {"recv", "recvNew"},
         toClient[c] # <<>>
  PROVE  /\ ClientEnd(c)
         /\ IsBody(Head(toClient[c]), cur[c].name)
         /\ Tail(toClient[c]) = <<>>
         /\ ServerEnd(c) => toServer[c] = <<>> /\ phase[c] = "sync"
         /\ cur[c].name \in FileName
         /\ cur[c].mtime \in Nat
  BY DEF InStepAt, Remembers, Connected, ServerLeft, Leftover, OneBody,
         ClientEnd, Awaits

\* The cycle up to the requests, and what ends it.
LEMMA CycleInStep ==
  ASSUME TypeOK, InStep, NEW c \in Client,
         UNCHANGED <<envVars, serverUp, disk, slotVars>>
  PROVE  /\ ExitOnly(c) /\ ClientEnd(c) => InStep'
         /\ ReportDeleted(c) => InStep'
         /\ StartWalk(c) => InStep'
         /\ AckDeletion(c) => InStep'
         /\ \A name \in EntryName : Walk(c, name) => InStep'
         /\ WalkDone(c) => InStep'
<1> USE DEF slotVars, wireVars
<1>1. InStepAt(c)
  BY DEF InStep
<1>2. /\ NoTransfer.name = NoName /\ NoTransfer.mtime = 0
      /\ 0 \in MTimes /\ Deleted \in MTimes
      /\ NoName \in EntryName \cup {NoName}
  BY DEF NoTransfer, MTimes
<1>3. ASSUME ExitOnly(c), ClientEnd(c) PROVE InStep'
  <2>1. toServer' = [toServer EXCEPT ![c] = toServer[c]]
    BY <1>3 DEF ExitOnly, TypeOK
  <2> QED
    BY <1>3, <2>1, ExitInStep DEF ExitOnly
<1>4. ASSUME ReportDeleted(c) PROVE InStep'
  <2>1. PICK name \in FileName :
          /\ Gone(c, name)
          /\ Send(c, Header(name, Deleted))
          /\ cur' = [cur EXCEPT ![c] = [name |-> name, mtime |-> Deleted,
                                        link |-> "gone"]]
    BY <1>4 DEF ReportDeleted
  <2>2. /\ pc[c] = "scan"
        /\ pc'[c] = "ackDel"
        /\ cur'[c].name = name
        /\ cur'[c].mtime = Deleted
        /\ UNCHANGED <<known, toClient>>
    BY <1>4, <2>1 DEF ReportDeleted, TypeOK
  <2>3. Remembers(c)'
    BY <1>1, <2>1, <2>2 DEF InStepAt, Remembers, Gone
  <2>4. InStepAt(c)'
    BY <1>1, <1>2, <2>1, <2>2, <2>3, Quiet, AskInStep DEF Waiting, EntryName
  <2>5. \A d \in Client \ {c} : SameEnds(d)
    BY <1>4, <2>1 DEF ReportDeleted, Send, SameEnds, TypeOK
  <2> QED
    BY <2>4, <2>5, OneConnection
<1>5. ASSUME StartWalk(c) PROVE InStep'
  <2>1. /\ pc[c] = "scan"
        /\ pc'[c] = "walk"
        /\ UNCHANGED <<known, cur, wireVars>>
    BY <1>5 DEF StartWalk, TypeOK
  <2>2. Remembers(c)'
    BY <1>1, <2>1 DEF InStepAt, Remembers
  <2>3. Ahead(c, <<>>)' = Ahead(c, <<>>)
    BY <2>1 DEF Ahead, Uploading, Giving
  <2>4. InStepAt(c)'
    BY <1>1, <2>1, <2>2, <2>3, Quiet, ReadInStep
  <2>5. \A d \in Client \ {c} : SameEnds(d)
    BY <1>5 DEF StartWalk, SameEnds, TypeOK
  <2> QED
    BY <2>4, <2>5, OneConnection
\* the empty packet
<1>6. ASSUME AskNew(c), ClientEnd(c), toClient'[c] = <<>>,
             ServerEnd(c) => Ahead(c, <<>>)
      PROVE  InStepAt(c)'
  <2>1. pc'[c] = "ackNew" /\ cur'[c] = NoTransfer
    BY <1>6 DEF AskNew, TypeOK
  <2>2. Remembers(c)'
    BY <1>1, <2>1 DEF InStepAt, Remembers
  <2> QED
    BY <1>1, <1>2, <1>6, <2>1, <2>2, AskInStep DEF AskNew, Waiting
<1>7. ASSUME AskNew(c), \A d \in Client \ {c} : /\ known'[d] = known[d]
                                                /\ toClient'[d] = toClient[d]
      PROVE  \A d \in Client \ {c} : SameEnds(d)
  BY <1>7 DEF AskNew, Send, SameEnds, TypeOK
<1>8. ASSUME AckDeletion(c) PROVE InStep'
  <2>1. /\ pc[c] = "ackDel"
        /\ Acked(c)
        /\ toClient'[c] = Tail(toClient[c])
        /\ AskNew(c)
        /\ \A d \in Client \ {c} : /\ known'[d] = known[d]
                                   /\ toClient'[d] = toClient[d]
    BY <1>8 DEF AckDeletion, Receive, TypeOK
  <2>2. ClientEnd(c)
    BY <2>1 DEF ClientEnd
  <2>3. /\ Tail(toClient[c]) = <<>>
        /\ ServerEnd(c) => toServer[c] = <<>> /\ phase[c] = "sync"
    BY <1>1, <2>1, ResponseIsReply
       DEF Waiting, Replied, ServerLeft, Leftover, Acked
  <2>4. ServerEnd(c) => Ahead(c, <<>>)
    BY <2>3 DEF Ahead, Uploading, Giving
  <2> QED
    BY <1>6, <1>7, <2>1, <2>2, <2>3, <2>4, OneConnection
<1>9. ASSUME NEW name \in EntryName, Walk(c, name) PROVE InStep'
  <2>1. PICK t \in DirTime :
          /\ Send(c, Header(name, MTime(local[c], name, t)))
          /\ cur' = [cur EXCEPT ![c] =
                       [name |-> name, mtime |-> MTime(local[c], name, t),
                        link |-> "gone"]]
    BY <1>9 DEF Walk
  <2>2. MTime(local[c], name, t) \in Nat
    BY <1>9, DirTimeIsTime, FileInFolder DEF Walk, MTime, EntryName, TypeOK
  <2>3. /\ pc[c] = "walk"
        /\ pc'[c] = "ackSync"
        /\ cur'[c].name = name
        /\ cur'[c].mtime = MTime(local[c], name, t)
        /\ UNCHANGED toClient
    BY <1>9, <2>1 DEF Walk, TypeOK
  <2>4. Remembers(c)'
    BY <1>1, <2>2, <2>3 DEF InStepAt, Remembers
  <2>5. InStepAt(c)'
    BY <1>1, <2>1, <2>2, <2>3, <2>4, Quiet, AskInStep DEF Waiting, MTimes
  <2>6. \A d \in Client \ {c} : SameEnds(d)
    BY <1>9, <2>1 DEF Walk, Send, SameEnds, TypeOK
  <2> QED
    BY <2>5, <2>6, OneConnection
<1>10. ASSUME WalkDone(c) PROVE InStep'
  <2>1. /\ pc[c] = "walk"
        /\ AskNew(c)
        /\ UNCHANGED <<known, toClient>>
    BY <1>10 DEF WalkDone
  <2> QED
    BY <1>1, <1>6, <1>7, <2>1, Quiet, OneConnection
<1> QED
  BY <1>3, <1>4, <1>5, <1>8, <1>9, <1>10

\* Nothing follows the answer that ends a cycle.
LEMMA EndOfCycle ==
  ASSUME TypeOK, NEW c \in Client, InStepAt(c), CycleDone(c)
  PROVE  /\ Tail(toClient[c]) = <<>>
         /\ ServerEnd(c) => toServer[c] = <<>> /\ phase[c] = "sync"
<1> DEFINE rest == Tail(toClient[c])
<1>1. /\ pc[c] = "ackNew" /\ Acked(c)
      /\ Head(toClient[c]).filename = NoName
  BY DEF CycleDone, Response
<1>2. /\ rest = <<>> \/ OneBody(rest, NoName)
      /\ ServerEnd(c) => toServer[c] = <<>> /\ phase[c] = "sync"
  BY <1>1, ResponseIsReply, FileTableAssumption
     DEF Waiting, Replied, Announces, ServerLeft, Leftover, Acked, EntryName,
         InStepAt, Remembers
<1>3. ASSUME rest # <<>>, Head(rest).kind = "body"
      PROVE  Head(rest).data.of \in FileName
  <2>1. rest \in Seq(Message)
    BY <1>1, ResponseIsMessage DEF Acked
  <2>2. Head(rest) \in Message
    BY <1>3, <2>1, Consumed
  <2> QED
    BY <1>3, <2>2, MessageFields DEF Content
<1> QED
  BY <1>2, <1>3, FileTableAssumption DEF OneBody, IsBody, EntryName

\* Reading the responses.
LEMMA ResponseInStep ==
  ASSUME TypeOK, InStep, ContentKeepsName, NEW c \in Client,
         UNCHANGED <<envVars, serverUp, disk, slotVars>>
  PROVE  /\ RemoveFile(c) => InStep'
         /\ SendFile(c) => InStep'
         /\ SameTime(c) => InStep'
         /\ GetNewer(c) => InStep'
         /\ GetNew(c) => InStep'
         /\ CycleDone(c) => InStep'
         /\ GetDone(c) => InStep'
         /\ GetNewDone(c) => InStep'
<1> USE DEF slotVars
<1> DEFINE header == Head(toClient[c])
           rest == Tail(toClient[c])
<1>1. InStepAt(c) /\ Response(c) = header
  BY DEF InStep, Response
<1>2. ASSUME SyncAcked(c) PROVE cur[c].mtime \in Nat /\ cur[c].mtime # Deleted
  BY <1>1, <1>2 DEF SyncAcked, InStepAt, Remembers, Deleted
\* back to the readdir loop, or to sleep
<1>3. ASSUME ClientEnd(c), Receive(c), rest = <<>>,
             pc' \in {[pc EXCEPT ![c] = "walk"], [pc EXCEPT ![c] = "scan"]},
             cur'[c] = NoTransfer,
             \A d \in Client \ {c} : /\ cur'[d] = cur[d]
                                     /\ known'[d] = known[d]
                                     /\ toServer'[d] = toServer[d],
             ServerEnd(c) => /\ Ahead(c, <<>>)'
                             /\ pc'[c] = "scan" => phase[c] = "sync",
             ~ ServerEnd(c) => toServer'[c] = toServer[c]
      PROVE  InStep'
  <2>1. pc'[c] \in {"scan", "walk"} /\ toClient'[c] = <<>>
    BY <1>3 DEF Receive, TypeOK
  <2>2. Remembers(c)'
    BY <1>1, <1>3, <2>1 DEF InStepAt, Remembers
  <2>3. InStepAt(c)'
    BY <1>1, <1>3, <2>1, <2>2, ReadInStep
  <2>4. \A d \in Client \ {c} : SameEnds(d)
    BY <1>3 DEF Receive, SameEnds, TypeOK
  <2> QED
    BY <2>3, <2>4, OneConnection
<1>4. ASSUME RemoveFile(c) PROVE InStep'
  <2>1. /\ pc[c] = "ackSync" /\ Acked(c) /\ ClientEnd(c)
        /\ header.mtime = Deleted
        /\ Receive(c)
        /\ pc' = [pc EXCEPT ![c] = "walk"]
        /\ cur' = [cur EXCEPT ![c] = NoTransfer]
        /\ toServer' = toServer
        /\ \A d \in Client \ {c} : known'[d] = known[d]
    BY <1>1, <1>4 DEF RemoveFile, SyncAcked, ClientEnd, TypeOK
  <2>2. /\ rest = <<>>
        /\ ServerEnd(c) => toServer[c] = <<>> /\ phase[c] = "sync"
    BY <1>1, <1>2, <1>4, <2>1, ResponseIsReply
       DEF RemoveFile, Waiting, Replied, ServerLeft, Leftover, Acked, Deleted
  <2> QED
    BY <1>3, <2>1, <2>2 DEF Ahead, Uploading, TypeOK, Giving
<1>5. ASSUME SendFile(c) PROVE InStep'
  <2> DEFINE body == Body(local[c][cur[c].name].data)
  <2>1. /\ pc[c] = "ackSync" /\ Acked(c) /\ ClientEnd(c)
        /\ header.mtime # Deleted
        /\ header.mtime < cur[c].mtime
        /\ Exists(local[c], cur[c].name)
        /\ IF cur[c].name \in FileName THEN Send(c, body) ELSE UNCHANGED toServer
        /\ Receive(c)
        /\ pc' = [pc EXCEPT ![c] = "walk"]
        /\ cur' = [cur EXCEPT ![c] = NoTransfer]
        /\ known' = known
    BY <1>1, <1>5 DEF SendFile, SyncAcked, ClientEnd
  <2>2. header.mtime \in Nat
    BY <1>1, <2>1, ResponseIsMessage DEF Acked, MTimes
  <2>3. /\ rest = <<>>
        /\ ServerEnd(c) => /\ toServer[c] = <<>>
                           /\ phase[c] \in {"getfile", "writing"}
                           /\ upload[c].name = cur[c].name
    BY <1>1, <1>2, <1>5, <2>1, <2>2, ResponseIsReply
       DEF SendFile, Waiting, Replied, ServerLeft, Leftover, Acked
  <2>4. ASSUME ServerEnd(c), cur[c].name \in FileName PROVE Ahead(c, <<>>)'
    <3>1. /\ body \in Message
          /\ IsBody(body, cur[c].name)
      <4>1. local[c] \in Folder /\ KeepsName(local[c])
        BY DEF TypeOK, ContentKeepsName
      <4>2. /\ local[c][cur[c].name].data \in Content
            /\ local[c][cur[c].name].data.of = cur[c].name
        BY <2>1, <2>4, <4>1, FileInFolder DEF KeepsName, Exists
      <4> QED
        BY <4>2, BodyIsMessage
    <3>2. toServer'[c] = Append(toServer[c], body)
      BY <2>1, <2>4 DEF Send, TypeOK
    <3> HIDE DEF body
    <3>3. toServer'[c] = <<body>>
      BY <2>3, <2>4, <3>1, <3>2, OneMessage
    <3> QED
      BY <2>3, <2>4, <3>1, <3>3, OneMessage DEF Ahead, Uploading, Giving
  <2>5. ASSUME ServerEnd(c), cur[c].name \notin FileName PROVE Ahead(c, <<>>)'
    BY <2>1, <2>3, <2>5 DEF Ahead, Uploading, Giving
  <2>6. /\ \A d \in Client \ {c} : toServer'[d] = toServer[d]
        /\ ~ ServerEnd(c) => toServer'[c] = toServer[c]
        /\ pc'[c] = "walk" /\ cur'[c] = NoTransfer
        /\ \A d \in Client \ {c} : cur'[d] = cur[d]
    BY <2>1 DEF Send, TypeOK
  <2> QED
    BY <1>3, <2>1, <2>3, <2>4, <2>5, <2>6
<1>6. ASSUME SameTime(c) PROVE InStep'
  <2>1. /\ pc[c] = "ackSync" /\ Acked(c) /\ ClientEnd(c)
        /\ header.mtime = cur[c].mtime
        /\ Receive(c)
        /\ pc' = [pc EXCEPT ![c] = "walk"]
        /\ cur' = [cur EXCEPT ![c] = NoTransfer]
        /\ toServer' = toServer
        /\ known' = known
    BY <1>1, <1>6 DEF SameTime, SyncAcked, ClientEnd
  <2>2. /\ rest = <<>>
        /\ ServerEnd(c) => toServer[c] = <<>> /\ phase[c] = "sync"
    BY <1>1, <1>2, <1>6, <2>1, ResponseIsReply
       DEF SameTime, Waiting, Replied, ServerLeft, Leftover, Acked, Deleted
  <2> QED
    BY <1>3, <2>1, <2>2 DEF Ahead, Uploading, TypeOK, Giving
\* get_file
<1>7. ASSUME NEW position \in {"recv", "recvNew"}, GetOpenLocal(c, position),
             Acked(c), pc[c] \in Waiting, header.mtime \in Nat,
             rest = <<>> \/ OneBody(rest, header.filename),
             ServerEnd(c) =>
               /\ toServer[c] = <<>>
               /\ \/ phase[c] = "sync" /\ OneBody(rest, header.filename)
                  \/ /\ phase[c] = IF position = "recv" THEN "give" ELSE "giveNew"
                     /\ upload[c].name = header.filename
                     /\ rest = <<>>
      PROVE  InStep'
  <2>1. /\ header.filename \in FileName
        /\ pc'[c] = position
        /\ cur'[c].name = header.filename
        /\ cur'[c].mtime = header.mtime
        /\ toClient'[c] = rest
        /\ toServer' = toServer
    BY <1>1, <1>7 DEF GetOpenLocal, Receive, TypeOK
  <2>2. Remembers(c)'
    BY <1>1, <1>7, <2>1 DEF InStepAt, Remembers
  <2>3. /\ ServerEnd(c)' = ServerEnd(c)
        /\ ClientEnd(c)'
    BY <1>7, <2>1 DEF ServerEnd, ClientEnd
  <2>4. ASSUME ServerEnd(c) PROVE Connected(c)'
    BY <1>7, <2>1, <2>4 DEF Connected, OneBody, Awaits
  <2>5. ASSUME ~ ServerEnd(c) PROVE ServerLeft(c)'
    <3>1. toServer[c] = <<>>
      BY <1>1, <1>7, <2>5, ResponseIsReply DEF ServerLeft
    <3> QED
      BY <1>7, <2>1, <3>1 DEF ServerLeft, Leftover, OneBody
  <2>6. InStepAt(c)'
    BY <2>2, <2>3, <2>4, <2>5 DEF InStepAt
  <2>7. \A d \in Client \ {c} : SameEnds(d)
    BY <1>7 DEF GetOpenLocal, Receive, SameEnds, TypeOK
  <2> QED
    BY <2>6, <2>7, OneConnection
<1>8. ASSUME GetNewer(c) PROVE InStep'
  <2>1. /\ pc[c] = "ackSync" /\ Acked(c)
        /\ header.mtime > cur[c].mtime
        /\ header.filename \in FileName
        /\ GetOpenLocal(c, "recv")
    BY <1>1, <1>8 DEF GetNewer, SyncAcked, GetOpenLocal
  <2>2. header.mtime \in Nat /\ cur[c].mtime \in Nat
    BY <1>1, <1>2, <1>8, <2>1, ResponseIsMessage
       DEF GetNewer, Acked, MTimes, Deleted
  <2>3. /\ rest = <<>> \/ OneBody(rest, header.filename)
        /\ ServerEnd(c) =>
             /\ toServer[c] = <<>>
             /\ \/ phase[c] = "sync" /\ OneBody(rest, header.filename)
                \/ /\ phase[c] = "give"
                   /\ upload[c].name = header.filename
                   /\ rest = <<>>
    BY <1>1, <2>1, <2>2, ResponseIsReply
       DEF Waiting, Replied, Announces, ServerLeft, Leftover, Acked, Deleted
  <2> QED
    BY <1>7, <2>1, <2>2, <2>3 DEF Waiting
<1>9. ASSUME GetNew(c) PROVE InStep'
  <2>1. /\ pc[c] = "ackNew" /\ Acked(c)
        /\ header.filename \in FileName
        /\ GetOpenLocal(c, "recvNew")
    BY <1>1, <1>9 DEF GetNew, GetOpenLocal
  <2>2. /\ header.mtime # Deleted
        /\ rest = <<>> \/ OneBody(rest, header.filename)
        /\ ServerEnd(c) =>
             /\ toServer[c] = <<>>
             /\ \/ phase[c] = "sync" /\ OneBody(rest, header.filename)
                \/ /\ phase[c] = "giveNew"
                   /\ upload[c].name = header.filename
                   /\ rest = <<>>
    BY <1>1, <2>1, ResponseIsReply
       DEF Waiting, Replied, Announces, ServerLeft, Leftover, Acked
  <2>3. header.mtime \in Nat
    BY <1>1, <2>1, <2>2, ResponseIsMessage DEF Acked, MTimes
  <2> QED
    BY <1>7, <2>1, <2>2, <2>3 DEF Waiting
<1>10. ASSUME CycleDone(c) PROVE InStep'
  <2>1. /\ pc[c] = "ackNew" /\ Acked(c) /\ ClientEnd(c)
        /\ header.filename = NoName
        /\ Receive(c)
        /\ pc' = [pc EXCEPT ![c] = "scan"]
        /\ UNCHANGED <<known, cur, toServer>>
    BY <1>1, <1>10 DEF CycleDone, ClientEnd
  <2>2. /\ rest = <<>>
        /\ ServerEnd(c) => toServer[c] = <<>> /\ phase[c] = "sync"
    BY <1>1, <1>10, EndOfCycle
  <2>3. cur[c] = NoTransfer
    BY <1>1, <2>1 DEF InStepAt, Remembers
  <2> QED
    BY <1>3, <2>1, <2>2, <2>3 DEF Ahead, Uploading, Giving
<1>11. ASSUME GetDone(c) PROVE InStep'
  <2>1. /\ pc[c] = "recv"
        /\ toClient[c] # <<>>
        /\ Receive(c)
        /\ pc' = [pc EXCEPT ![c] = "walk"]
        /\ cur' = [cur EXCEPT ![c] = NoTransfer]
        /\ UNCHANGED <<known, toServer>>
    BY <1>11 DEF GetDone, Received
  <2>2. /\ ClientEnd(c)
        /\ rest = <<>>
        /\ ServerEnd(c) => toServer[c] = <<>> /\ phase[c] = "sync"
    BY <1>1, <2>1, FileRead
  <2> QED
    BY <1>3, <2>1, <2>2 DEF Ahead, Uploading, TypeOK, Giving
<1>12. ASSUME GetNewDone(c) PROVE InStep'
  <2>1. /\ pc[c] = "recvNew"
        /\ toClient[c] # <<>>
        /\ Receive(c)
        /\ AskNew(c)
        /\ UNCHANGED known
    BY <1>12 DEF GetNewDone, Received
  <2>2. /\ ClientEnd(c)
        /\ rest = <<>>
        /\ ServerEnd(c) => toServer[c] = <<>> /\ phase[c] = "sync"
    BY <1>1, <2>1, FileRead
  <2>3. /\ pc'[c] = "ackNew"
        /\ cur'[c] = NoTransfer
        /\ toClient'[c] = <<>>
    BY <2>1, <2>2 DEF AskNew, Receive, TypeOK
  <2>4. Remembers(c)'
    BY <1>1, <2>3 DEF InStepAt, Remembers
  <2>5. /\ NoTransfer.name = NoName /\ NoTransfer.mtime = 0
        /\ 0 \in MTimes
    BY DEF NoTransfer, MTimes
  <2>6. ServerEnd(c) => Ahead(c, <<>>)
    BY <2>2 DEF Ahead, Uploading, Giving
  <2>7. InStepAt(c)'
    BY <1>1, <2>1, <2>2, <2>3, <2>4, <2>5, <2>6, AskInStep DEF AskNew, Waiting
  <2>8. \A d \in Client \ {c} : SameEnds(d)
    BY <2>1 DEF AskNew, Send, Receive, SameEnds, TypeOK
  <2> QED
    BY <2>7, <2>8, OneConnection
<1> QED
  BY <1>4, <1>5, <1>6, <1>8, <1>9, <1>10, <1>11, <1>12

-----------------------------------------------------------------------------
(* Connecting and the environment. *)

\* At the start no connection is open and nothing is under way.
LEMMA InitInStep == Init => InStep
<1> SUFFICES ASSUME Init, NEW c \in Client PROVE InStepAt(c)
  BY DEF InStep
<1>1. /\ phase[c] = "dead" /\ upload[c] = NoTransfer
      /\ pc[c] = "off" /\ cur[c] = NoTransfer
      /\ toServer[c] = <<>> /\ toClient[c] = <<>>
  BY DEF Init, SlotsInit, ClientInit, Everywhere
<1>2. Remembers(c)
  BY <1>1 DEF Remembers, NoTransfer
<1> QED
  BY <1>1, <1>2 DEF InStepAt, ClientEnd, ServerEnd

\* Logging in opens a connection with nothing under way.
LEMMA LoginInStep ==
  ASSUME TypeOK, InStep, NEW c \in Client, Login(c)
  PROVE  InStep'
<1>1. /\ phase[c] = "dead" /\ pc[c] = "off"
      /\ phase' = [phase EXCEPT ![c] = "sync"]
      /\ pc' = [pc EXCEPT ![c] = "scan"]
      /\ UNCHANGED <<upload, cur, toServer, toClient>>
      /\ \A d \in Client \ {c} : known'[d] = known[d]
  BY DEF Login, ServerLogin, ClientStart, wireVars, TypeOK
<1>2. phase'[c] = "sync" /\ pc'[c] = "scan"
  BY <1>1 DEF TypeOK
<1>3. /\ Remembers(c)
      /\ toServer[c] = <<>> /\ toClient[c] = <<>>
  BY <1>1 DEF InStep, InStepAt, ServerEnd, ClientEnd
<1>4. Remembers(c)'
  BY <1>1, <1>2, <1>3 DEF Remembers
<1>5. Connected(c)'
  BY <1>1, <1>2, <1>3 DEF Connected, Awaits
<1>6. InStepAt(c)'
  BY <1>2, <1>4, <1>5 DEF InStepAt, ServerEnd, ClientEnd
<1>7. \A d \in Client \ {c} : SameEnds(d)
  BY <1>1 DEF SameEnds, TypeOK
<1> QED
  BY <1>6, <1>7, OneConnection

\* Edits leave the connections alone, a crash leaves them cut.
LEMMA EnvInStep ==
  ASSUME TypeOK, InStep, EnvNext
  PROVE  InStep'
<1> USE DEF envVars, slotVars, wireVars
<1>1. CASE Tick
  <2>1. \A d \in Client : SameEnds(d)
    BY <1>1 DEF Tick, SameEnds, clientVars
  <2> QED
    BY <2>1, Frame DEF InStep
<1>2. ASSUME NEW c \in Client, NEW name \in FileName,
             UserWrite(c, name) \/ UserDelete(c, name)
      PROVE  InStep'
  <2>1. /\ cur' = [cur EXCEPT ![c] = Unlink(@, name)]
        /\ UNCHANGED <<phase, upload, toServer, toClient, pc, known>>
    BY <1>2 DEF UserWrite, UserDelete
  <2>2. \A d \in Client : SameEnds(d)
    BY <2>1, UnlinkKeeps DEF SameEnds, TypeOK
  <2> QED
    BY <2>2, Frame DEF InStep
<1>3. ASSUME NEW name \in FileName, AdminWrite(name) \/ AdminDelete(name)
      PROVE  InStep'
  <2>1. /\ upload' = [c \in Client |-> Unlink(upload[c], name)]
        /\ UNCHANGED <<phase, toServer, toClient, clientVars>>
    BY <1>3 DEF AdminWrite, AdminDelete
  <2>2. \A d \in Client : SameEnds(d)
    BY <2>1, UnlinkKeeps DEF SameEnds, clientVars, TypeOK
  <2> QED
    BY <2>2, Frame DEF InStep
<1>6. ASSUME NEW c \in Client, NEW name \in FileName,
             AdminDeleteFailsStat(c, name)
      PROVE  InStep'
  BY <1>6, ServerDiesInStep DEF AdminDeleteFailsStat
<1>4. ASSUME NEW c \in Client, ClientCrash(c) PROVE InStep'
  BY <1>4, ExitInStep DEF ClientCrash, ClientEnd
<1>5. CASE ServerCrash
  BY <1>5, ServerDiesInStep DEF ServerCrash
<1> QED
  BY <1>1, <1>2, <1>3, <1>4, <1>5, <1>6 DEF EnvNext

-----------------------------------------------------------------------------
\* Every step keeps the connections in step.
LEMMA InStepKept ==
  ASSUME TypeOK, InStep, ContentKeepsName, [Next]_vars
  PROVE  InStep'
<1>1. CASE UNCHANGED vars
  <2>1. \A d \in Client : SameEnds(d)
    BY <1>1 DEF vars, slotVars, wireVars, clientVars, SameEnds
  <2> QED
    BY <2>1, Frame DEF InStep
<1>2. ASSUME NEW c \in Client, LoginFails(c) PROVE InStep'
  BY <1>2, ServerDiesInStep DEF LoginFails, LoginRefused
<1>3. CASE Boot
  <2>1. \A d \in Client : SameEnds(d)
    BY <1>3 DEF Boot, ServerBoots, slotVars, wireVars, clientVars, SameEnds
  <2> QED
    BY <2>1, Frame DEF InStep
<1>4. ASSUME NEW c \in Client, ServerNext(c) PROVE InStep'
  <2>1. /\ UNCHANGED <<envVars, clientVars, local>>
        /\ ServerStep(c)
    BY <1>4 DEF ServerNext
  <2> QED
    BY <2>1, IdleInStep, PacketInStep, GiveInStep, UploadInStep DEF ServerStep
<1>5. ASSUME NEW c \in Client, ClientNext(c) PROVE InStep'
  <2>1. /\ UNCHANGED <<envVars, serverUp, disk, slotVars>>
        /\ ClientStep(c)
    BY <1>5 DEF ClientNext
  <2>2. CASE ExitOnly(c) /\ ClientEnd(c)
    BY <2>1, <2>2, CycleInStep
  <2>3. CASE ~ (ExitOnly(c) /\ ClientEnd(c))
    <3>1. ~ (\/ Unanswered(c) \/ NullName(c) \/ WalkVanished(c)
             \/ SendVanished(c) \/ GetNewerDirectory(c) \/ GetVanished(c))
      BY <2>3 DEF Unanswered, NullName, WalkVanished, SendVanished, SyncAcked,
                  GetNewerDirectory, GetVanished, ClientEnd
    <3> QED
      BY <2>1, <3>1, CycleInStep, ResponseInStep DEF ClientStep
  <2> QED
    BY <2>2, <2>3
<1> QED
  BY <1>1, <1>2, <1>3, <1>4, <1>5, LoginInStep, EnvInStep DEF Next

-----------------------------------------------------------------------------
(* The content of a file keeps its name. *)

\* A file that is written under its own name keeps the folder as it should be.
LEMMA WriteKeepsName ==
  ASSUME NEW folder \in Folder, KeepsName(folder), NEW name \in FileName,
         NEW file, file # Absent => file.data.of = name
  PROVE  KeepsName([folder EXCEPT ![name] = file])
  BY DEF KeepsName, Folder

\* The body that the server reads belongs to the file it has open.
LEMMA UploadsItsFile ==
  ASSUME TypeOK, NEW c \in Client, InStepAt(c), phase[c] = "writing",
         toServer[c] # <<>>
  PROVE  IsBody(Head(toServer[c]), upload[c].name)
<1>1. ServerEnd(c) /\ Uploading(c)
  BY DEF InStepAt, Remembers, ServerEnd, Uploading
<1>2. CASE ~ ClientEnd(c)
  BY <1>1, <1>2 DEF InStepAt, ClientLeft
<1>3. CASE ClientEnd(c)
  BY <1>1, <1>3 DEF InStepAt, Connected, Asked, Replied, Ahead, ClientEnd,
                    TypeOK, Position, Giving, Awaits
<1> QED
  BY <1>2, <1>3

\* A session writes what it received under the name it has asked for.
LEMMA ServerKeepsName ==
  ASSUME TypeOK, InStep, KeepsName(disk), NEW c \in Client, ServerStep(c)
  PROVE  KeepsName(disk')
<1> DEFINE name == upload[c].name
<1>1. InStepAt(c) /\ Remembers(c) /\ disk \in Folder
  BY DEF InStep, InStepAt, TypeOK
<1>2. \A n \in FileName : Torn(n).of = n
  BY DEF Torn
<1>3. CASE AcceptDeletion(c)
  <2>1. CASE Packet(c).filename \in FileName
    BY <1>1, <1>3, <2>1, WriteKeepsName DEF AcceptDeletion
  <2>2. CASE Packet(c).filename \notin FileName
    BY <1>3, <2>2 DEF AcceptDeletion
  <2> QED
    BY <2>1, <2>2
<1>4. CASE GetOpen(c)
  BY <1>1, <1>2, <1>4, WriteKeepsName DEF GetOpen
<1>5. CASE GetData(c)
  <2>1. PICK data \in {Packet(c).data, Torn(name)} :
          disk' = IF upload[c].link = "gone" THEN disk
                  ELSE [disk EXCEPT ![name] = [mtime |-> now, data |-> data]]
    BY <1>5 DEF GetData
  <2>2. name \in FileName
    BY <1>1, <1>5 DEF GetData, Remembers
  <2>3. Packet(c).data.of = name
    BY <1>1, <1>5, UploadsItsFile DEF GetData, Packet, IsBody
  <2>4. data.of = name
    BY <1>2, <2>1, <2>2, <2>3
  <2> QED
    BY <1>1, <2>1, <2>2, <2>4, WriteKeepsName
<1>6. CASE GetStamp(c)
  <2>1. CASE Exists(disk, name)
    <3>1. /\ name \in FileName
          /\ disk' = [disk EXCEPT ![name].mtime = upload[c].mtime]
      BY <1>1, <1>6, <2>1 DEF GetStamp, Remembers
    <3>2. disk[name] \in File /\ disk[name].data.of = name
      BY <1>1, <2>1, <3>1, FileInFolder DEF KeepsName, Exists
    <3> DEFINE file == [disk[name] EXCEPT !.mtime = upload[c].mtime]
    <3>3. file.data.of = name
      BY <3>2 DEF File
    <3>4. disk' = [disk EXCEPT ![name] = file]
      BY <3>1
    <3> HIDE DEF file
    <3>5. KeepsName([disk EXCEPT ![name] = file])
      BY <1>1, <3>1, <3>3, WriteKeepsName
    <3> QED
      BY <3>4, <3>5
  <2>2. CASE ~ Exists(disk, name)
    BY <1>6, <2>2 DEF GetStamp
  <2> QED
    BY <2>1, <2>2
<1>7. CASE UNCHANGED disk
  BY <1>7
<1> QED
  BY <1>3, <1>4, <1>5, <1>6, <1>7
     DEF ServerStep, RefreshFinds, RefreshSkips, RefreshTakes, RefreshFails,
         RefreshDone, ClientGone, BrokenPipe, SendNewFile,
         NewFileOverflow, NoNewFile, AddSharedOverflow, RefuseFile,
         NotifyDeleted, AskForFile, SendNewer, AlreadyInSync,
         GiveFile, GiveNothing, GetDirectory, GetEof

\* A client writes what it received under the name that was announced.
LEMMA ClientKeepsName ==
  ASSUME TypeOK, InStep, \A d \in Client : KeepsName(local[d]),
         NEW c \in Client, ClientStep(c)
  PROVE  \A d \in Client : KeepsName(local'[d])
<1>1. InStepAt(c) /\ local[c] \in Folder
  BY DEF InStep, TypeOK
\* a file of the folder of c is written
<1>2. ASSUME NEW name \in FileName, NEW file,
             file # Absent => file.data.of = name,
             local' = [local EXCEPT ![c][name] = file]
      PROVE  \A d \in Client : KeepsName(local'[d])
  <2>1. local'[c] = [local[c] EXCEPT ![name] = file]
    BY <1>2 DEF TypeOK
  <2>2. \A d \in Client \ {c} : local'[d] = local[d]
    BY <1>2 DEF TypeOK
  <2> QED
    BY <1>1, <1>2, <2>1, <2>2, WriteKeepsName
<1>3. CASE RemoveFile(c)
  <2>1. CASE Response(c).filename \in FileName
    BY <1>2, <1>3, <2>1 DEF RemoveFile
  <2>2. CASE Response(c).filename \notin FileName
    BY <1>3, <2>2 DEF RemoveFile
  <2> QED
    BY <2>1, <2>2
<1>4. CASE GetNewer(c) \/ GetNew(c)
  <2> DEFINE name == Response(c).filename
             file == [mtime |-> now, data |-> Torn(name)]
  <2>1. name \in FileName /\ local' = [local EXCEPT ![c][name] = file]
    BY <1>4 DEF GetNewer, GetNew, GetOpenLocal
  <2>2. file.data.of = name
    BY DEF Torn
  <2> QED
    BY <1>2, <2>1, <2>2
<1>5. CASE GetDone(c) \/ GetNewDone(c)
  <2> DEFINE name == cur[c].name
             data == IF cur[c].link = "gone" THEN local[c][name].data
                     ELSE Response(c).data
             file == [mtime |-> cur[c].mtime, data |-> data]
  <2>1. /\ pc[c] \in {"recv", "recvNew"}
        /\ toClient[c] # <<>>
        /\ Exists(local[c], name)
        /\ local' = [local EXCEPT ![c][name] = file]
    BY <1>5 DEF GetDone, GetNewDone, Received
  <2>2. name \in FileName /\ Response(c).data.of = name
    BY <1>1, <2>1, FileRead DEF Response, IsBody
  <2>3. data.of = name
    BY <2>1, <2>2 DEF KeepsName, Exists
  <2> QED
    BY <1>2, <2>1, <2>2, <2>3
<1>6. CASE UNCHANGED local
  BY <1>6
<1> QED
  BY <1>3, <1>4, <1>5, <1>6
     DEF ClientStep, Unanswered, ReportDeleted, StartWalk, NullName,
         AckDeletion, Walk, WalkVanished, WalkDone, SendFile, SendVanished,
         SameTime, GetNewerDirectory, CycleDone, GetVanished, ExitOnly

\* Users and the operator write content under its own name.
LEMMA EnvKeepsName ==
  ASSUME TypeOK, ContentKeepsName, EnvNext
  PROVE  ContentKeepsName'
<1>1. disk \in Folder /\ \A c \in Client : local[c] \in Folder
  BY DEF TypeOK
<1>2. ASSUME NEW c \in Client, NEW name \in FileName,
             UserWrite(c, name) \/ UserDelete(c, name)
      PROVE  ContentKeepsName'
  <2>1. PICK file :
          /\ file # Absent => file.data.of = name
          /\ local' = [local EXCEPT ![c][name] = file]
    BY <1>2, NewFileIsFile DEF UserWrite, UserDelete, Event
  <2>2. KeepsName([local[c] EXCEPT ![name] = file])
    BY <1>1, <2>1, WriteKeepsName DEF ContentKeepsName
  <2>3. \A d \in Client : KeepsName(local'[d])
    BY <2>1, <2>2 DEF ContentKeepsName, TypeOK
  <2> QED
    BY <1>2, <2>3 DEF ContentKeepsName, UserWrite, UserDelete
<1>3. ASSUME NEW name \in FileName,
             \/ AdminWrite(name) \/ AdminDelete(name)
             \/ \E c \in Client : AdminDeleteFailsStat(c, name)
      PROVE  ContentKeepsName'
  <2>1. PICK file :
          /\ file # Absent => file.data.of = name
          /\ disk' = [disk EXCEPT ![name] = file]
    BY <1>3, NewFileIsFile
       DEF AdminWrite, AdminDelete, AdminDeleteFailsStat, Event
  <2>2. KeepsName(disk')
    BY <1>1, <2>1, WriteKeepsName DEF ContentKeepsName
  <2> QED
    BY <1>3, <2>2
       DEF ContentKeepsName, AdminWrite, AdminDelete, AdminDeleteFailsStat
<1>4. CASE UNCHANGED <<disk, local>>
  BY <1>4 DEF ContentKeepsName
<1> QED
  BY <1>2, <1>3, <1>4 DEF EnvNext, Tick, ClientCrash, ServerCrash

\* Every step keeps the names.
LEMMA NamesKept ==
  ASSUME TypeOK, InStep, ContentKeepsName, [Next]_vars
  PROVE  ContentKeepsName'
<1>1. CASE UNCHANGED <<disk, local>>
  BY <1>1 DEF ContentKeepsName
<1>2. ASSUME NEW c \in Client, Login(c) \/ LoginFails(c)
      PROVE  UNCHANGED <<disk, local>>
  BY <1>2 DEF Login, ServerLogin, ClientStart, LoginFails, LoginRefused
<1>3. Boot => UNCHANGED <<disk, local>>
  BY DEF Boot, ServerBoots
<1>4. ASSUME NEW c \in Client, ServerNext(c) PROVE ContentKeepsName'
  BY <1>4, ServerKeepsName DEF ServerNext, ContentKeepsName
<1>5. ASSUME NEW c \in Client, ClientNext(c) PROVE ContentKeepsName'
  BY <1>5, ClientKeepsName DEF ClientNext, ContentKeepsName
<1>6. UNCHANGED vars => UNCHANGED <<disk, local>>
  BY DEF vars
<1> QED
  BY <1>1, <1>2, <1>3, <1>4, <1>5, <1>6, EnvKeepsName DEF Next

-----------------------------------------------------------------------------
(* The invariant. *)

\* The invariant holds at the start.
LEMMA InitIsInvariant == Init => IInv
<1>1. Init => ContentKeepsName
  BY DEF Init, ContentKeepsName, KeepsName
<1> QED
  BY <1>1, InitTypes, InitInStep DEF IInv

\* The invariant is inductive.
LEMMA StepKeepsInvariant == IInv /\ [Next]_vars => IInv'
  BY TypesKept, InStepKept, NamesKept DEF IInv

\* In every reachable state the invariant holds.
THEOREM Invariance == Spec => []IInv
  BY InitIsInvariant, StepKeepsInvariant, PTL DEF Spec

\* Every variable keeps its type: in particular the file_info arrays hold only
\* names and times, fileLength and the counts of currentFileNames never drop
\* below zero, and what utime sets is never the mark of a deletion.
THEOREM TypeCorrect == Spec => []TypeOK
<1>1. IInv => TypeOK
  BY DEF IInv
<1> QED
  BY <1>1, Invariance, PTL

\* What is under way on a connection is what its reader is going to read,
\* although nothing in a message says what it is (Readn and Writen of both
\* programs).
THEOREM LockStep == Spec => []InStep
<1>1. IInv => InStep
  BY DEF IInv
<1> QED
  BY <1>1, Invariance, PTL

\* Neither program ever takes content for a sync_message or a sync_message for
\* content.
THEOREM Framing == Spec => []FramingOK
<1>1. ASSUME TypeOK, InStep, NEW c \in Client
      PROVE  /\ phase[c] = "sync" /\ toServer[c] # <<>> =>
                  IsHeader(Head(toServer[c]))
             /\ phase[c] = "writing" /\ toServer[c] # <<>> =>
                  ~ IsHeader(Head(toServer[c]))
             /\ pc[c] \in Waiting /\ toClient[c] # <<>> =>
                  IsHeader(Head(toClient[c]))
             /\ pc[c] \in {"recv", "recvNew"} /\ toClient[c] # <<>> =>
                  ~ IsHeader(Head(toClient[c]))
  <2>1. InStepAt(c)
    BY <1>1 DEF InStep
  <2>2. ASSUME phase[c] = "sync", toServer[c] # <<>>
        PROVE  IsHeader(Head(toServer[c]))
    <3>1. CASE ~ ClientEnd(c)
      BY <2>1, <2>2, <3>1 DEF InStepAt, ServerEnd, ClientLeft, Uploading,
                              AtMostOneRequest
    <3>2. CASE ClientEnd(c)
      <4>1. /\ Connected(c)
            /\ toServer[c] # <<>>
            /\ ~ Uploading(c)
        BY <2>1, <2>2, <3>2 DEF InStepAt, ServerEnd, Uploading
      <4>2. Asked(c)
        BY <1>1, <3>2, <4>1 DEF Connected, Ahead, Replied, ClientEnd, TypeOK,
                                Position, Giving, Awaits
      <4>3. /\ cur[c].name \in EntryName \cup {NoName}
            /\ cur[c].mtime \in MTimes
        BY <1>1 DEF TypeOK, Transfer
      <4>4. /\ Header(cur[c].name, cur[c].mtime) \in Message
            /\ IsHeader(Header(cur[c].name, cur[c].mtime))
        BY <4>3, HeaderIsMessage
      <4>5. toServer[c] = <<Header(cur[c].name, cur[c].mtime)>>
        BY <4>1, <4>2 DEF Asked, Ahead, Giving
      <4> QED
        BY <4>4, <4>5, OneMessage
    <3> QED
      BY <3>1, <3>2
  <2>3. ASSUME phase[c] = "writing", toServer[c] # <<>>
        PROVE  ~ IsHeader(Head(toServer[c]))
    BY <1>1, <2>1, <2>3, UploadsItsFile DEF IsBody, IsHeader
  <2>4. ASSUME pc[c] \in Waiting, toClient[c] # <<>>
        PROVE  IsHeader(Head(toClient[c]))
    <3>1. Leftover(c, toClient[c])
      BY <1>1, <2>1, <2>4, LeftoverNow DEF ClientEnd, Waiting
    <3> QED
      BY <2>4, <3>1 DEF Leftover, Waiting
  <2>5. ASSUME pc[c] \in {"recv", "recvNew"}, toClient[c] # <<>>
        PROVE  ~ IsHeader(Head(toClient[c]))
    BY <2>1, <2>5, FileRead DEF IsBody, IsHeader
  <2> QED
    BY <2>2, <2>3, <2>4, <2>5
<1>2. IInv => FramingOK
  BY <1>1 DEF IInv, FramingOK, Waiting
<1> QED
  BY <1>2, Invariance, PTL

\* Client and server never wait for each other.
THEOREM WaitingFree == Spec => []NoMutualWait
<1>1. ASSUME InStep, NEW c \in Client,
             pc[c] \in {"ackDel", "ackSync", "ackNew", "recv", "recvNew"},
             toClient[c] = <<>>, phase[c] \in {"sync", "writing"},
             toServer[c] = <<>>
      PROVE  FALSE
  <2>1. Connected(c) /\ Remembers(c)
    BY <1>1 DEF InStep, InStepAt, ClientEnd, ServerEnd
  <2>2. pc[c] \in Waiting => Asked(c)
    BY <1>1, <2>1 DEF Connected, Replied, Waiting, Awaits
  <2> QED
    BY <1>1, <2>1, <2>2 DEF Connected, Asked, Ahead, OneBody, Waiting,
                            Giving, Awaits
<1>2. IInv => NoMutualWait
  BY <1>1 DEF IInv, NoMutualWait
<1> QED
  BY <1>2, Invariance, PTL

\* The content of every file was written under the name the file has.
THEOREM NamesKeep == Spec => []ContentKeepsName
<1>1. IInv => ContentKeepsName
  BY DEF IInv
<1> QED
  BY <1>1, Invariance, PTL

-----------------------------------------------------------------------------
(***************************************************************************)
(* The synchronization implements the conversation of Conversation.  The   *)
(* lock step says what is under way, the refinement mapping of Talk what   *)
(* that amounts to: each step is shown to be the step of the conversation  *)
(* that its name suggests, and leaves the other connections alone; only    *)
(* the death of the server ends many conversations at once.                *)
(***************************************************************************)

(* What is under way on a channel, as Conversation counts it. *)

\* The headers and the contents of a channel, one message after the other.
LEMMA Listing ==
  ASSUME NEW s \in Seq(Message), s # <<>>
  PROVE  /\ Headers(s) = Headers(Tail(s)) \cup
              (IF IsHeader(Head(s)) THEN {Head(s)} ELSE {})
         /\ Contents(s) = Contents(Tail(s)) \cup
              (IF IsHeader(Head(s)) THEN {} ELSE {Head(s).data.of})
<1> DEFINE t == Tail(s)
<1>1. /\ Len(s) \in Nat \ {0} /\ Head(s) = s[1]
      /\ Len(t) = Len(s) - 1
      /\ \A i \in 1..Len(t) : t[i] = s[i + 1]
  BY HeadTailProperties, LenProperties, SMT
<1>2. \A i \in 1..Len(s) : i = 1 \/ (i - 1 \in 1..Len(t) /\ s[i] = t[i - 1])
  BY <1>1, SMT
<1>3. /\ 1 \in 1..Len(s)
      /\ \A i \in 1..Len(t) : i + 1 \in 1..Len(s) /\ t[i] = s[i + 1]
  BY <1>1, SMT
<1> HIDE DEF t
<1>4. /\ Headers(t) \subseteq Headers(s)
      /\ Contents(t) \subseteq Contents(s)
  BY <1>3, Zenon DEF Headers, Contents
<1>5. /\ IsHeader(s[1]) => s[1] \in Headers(s)
      /\ ~ IsHeader(s[1]) => s[1].data.of \in Contents(s)
  BY <1>3, Zenon DEF Headers, Contents
<1>6. ASSUME NEW m \in Headers(s)
      PROVE  m \in Headers(t) \/ (IsHeader(s[1]) /\ m = s[1])
  <2>1. PICK i \in 1..Len(s) : IsHeader(s[i]) /\ m = s[i]
    BY <1>6, Zenon DEF Headers
  <2> QED
    BY <1>2, <2>1, Zenon DEF Headers
<1>7. ASSUME NEW x \in Contents(s)
      PROVE  x \in Contents(t) \/ (~ IsHeader(s[1]) /\ x = s[1].data.of)
  <2>1. PICK i \in 1..Len(s) : ~ IsHeader(s[i]) /\ x = s[i].data.of
    BY <1>7, Zenon DEF Contents
  <2> QED
    BY <1>2, <2>1, Zenon DEF Contents
<1> QED
  BY <1>1, <1>4, <1>5, <1>6, <1>7 DEF t

\* Nothing is under way on an empty channel.
LEMMA NothingListed == Headers(<<>>) = {} /\ Contents(<<>>) = {}
  BY DEF Headers, Contents

\* One message.
LEMMA OneListed ==
  ASSUME NEW m \in Message
  PROVE  /\ IsHeader(m) => Headers(<<m>>) = {m} /\ Contents(<<m>>) = {}
         /\ ~ IsHeader(m) => Headers(<<m>>) = {} /\ Contents(<<m>>) = {m.data.of}
  BY OneMessage, Listing, NothingListed

\* What writing adds.
LEMMA AppendListed ==
  ASSUME NEW s \in Seq(Message), NEW m \in Message
  PROVE  /\ Headers(Append(s, m)) =
              Headers(s) \cup (IF IsHeader(m) THEN {m} ELSE {})
         /\ Contents(Append(s, m)) =
              Contents(s) \cup (IF IsHeader(m) THEN {} ELSE {m.data.of})
<1> DEFINE t == Append(s, m)
<1>1. /\ Len(s) \in Nat /\ Len(t) = Len(s) + 1
      /\ t[Len(s) + 1] = m
      /\ \A i \in 1..Len(s) : t[i] = s[i]
  BY AppendProperties, LenProperties, SMT
<1>2. \A i \in 1..Len(t) : i = Len(s) + 1 \/ (i \in 1..Len(s) /\ t[i] = s[i])
  BY <1>1, SMT
<1>3. /\ Len(s) + 1 \in 1..Len(t)
      /\ \A i \in 1..Len(s) : i \in 1..Len(t) /\ t[i] = s[i]
  BY <1>1, SMT
<1> HIDE DEF t
<1>4. ASSUME NEW h
      PROVE  h \in Headers(t) <=> h \in Headers(s) \/ (IsHeader(m) /\ h = m)
  BY <1>1, <1>2, <1>3, Zenon DEF Headers
<1>5. ASSUME NEW x
      PROVE  x \in Contents(t) <=>
               x \in Contents(s) \/ (~ IsHeader(m) /\ x = m.data.of)
  BY <1>1, <1>2, <1>3, Zenon DEF Contents
<1> QED
  BY <1>4, <1>5 DEF t

\* A channel without its last message.
LEMMA Shortened ==
  ASSUME NEW s \in Seq(Message), Len(s) \in Nat \ {0}
  PROVE  /\ Len(SubSeq(s, 1, Len(s) - 1)) = Len(s) - 1
         /\ \A i \in 1..(Len(s) - 1) : SubSeq(s, 1, Len(s) - 1)[i] = s[i]
<1> DEFINE n == Len(s) - 1
           r == SubSeq(s, 1, n)
<1>1. n \in Int /\ n >= 0
  BY SMT
<1>2. \A i \in 1..n : s[i] \in Message
  BY ElementOfSeq, SMT
<1> HIDE DEF n, r
<1>3. /\ Len(r) = (IF 1 <= n THEN n - 1 + 1 ELSE 0)
      /\ \A i \in 1..(n - 1 + 1) : r[i] = s[1 + i - 1]
  BY <1>1, <1>2, SubSeqProperties, SMT DEF r
<1>4. /\ (IF 1 <= n THEN n - 1 + 1 ELSE 0) = n
      /\ n - 1 + 1 = n
      /\ \A i \in 1..n : 1 + i - 1 = i
  BY <1>1, SMT
<1>5. Len(r) = n /\ \A i \in 1..n : r[i] = s[i]
  BY <1>3, <1>4
<1> QED
  BY <1>5, Zenon DEF n, r

\* What cutting a body leaves: every header, and no content that was not there.
LEMMA TrimListed ==
  ASSUME NEW s \in Seq(Message)
  PROVE  /\ Headers(Trim(s)) = Headers(s)
         /\ Contents(Trim(s)) \subseteq Contents(s)
<1>1. CASE Trim(s) = s
  BY <1>1
<1>2. CASE s # <<>> /\ s[Len(s)].kind = "body" /\ Trim(s) = SubSeq(s, 1, Len(s) - 1)
  <2> DEFINE t == Trim(s)
  <2>1. /\ Len(s) \in Nat \ {0}
        /\ Len(t) = Len(s) - 1
        /\ \A i \in 1..Len(t) : t[i] = s[i]
    <3>1. Len(s) \in Nat \ {0}
      BY <1>2, LenProperties, SMT
    <3> QED
      BY <1>2, <3>1, Shortened
  <2>2. /\ \A i \in 1..Len(t) : i \in 1..Len(s) /\ t[i] = s[i]
        /\ \A i \in 1..Len(s) : i = Len(s) \/ i \in 1..Len(t)
    BY <2>1, SMT
  <2>3. ~ IsHeader(s[Len(s)])
    BY <1>2 DEF IsHeader
  <2> HIDE DEF t
  <2>4. ASSUME NEW m
        PROVE  m \in Headers(t) <=> m \in Headers(s)
    BY <2>2, <2>3, Zenon DEF Headers
  <2>5. ASSUME NEW x \in Contents(t)
        PROVE  x \in Contents(s)
    BY <2>2, <2>5, Zenon DEF Contents
  <2> QED
    BY <2>4, <2>5 DEF t
<1> QED
  BY <1>1, <1>2 DEF Trim

-----------------------------------------------------------------------------
(* What is under way on a connection in step. *)

\* A step that touches neither the channels nor the roles, and what they are
\* about, is nothing that Conversation sees.
LEMMA StaysPut ==
  ASSUME NEW d \in Client,
         ServerRole(d)' = ServerRole(d), ContentOf(d)' = ContentOf(d),
         toServer'[d] = toServer[d], toClient'[d] = toClient[d],
         pc'[d] = pc[d],
         cur'[d].name = cur[d].name, cur'[d].mtime = cur[d].mtime
  PROVE  Talk!Stays(d)
<1>1. ClientRole(d)' = ClientRole(d)
  BY DEF ClientRole
<1>2. QuestionsOf(d)' = QuestionsOf(d)
  BY DEF QuestionsOf
<1>3. AnswersOf(d)' = AnswersOf(d)
  BY DEF AnswersOf, Meaning
<1> QED
  BY <1>1, <1>2, <1>3
     DEF Talk!Stays, Talk!ClientStays, Talk!ServerStays, Talk!ToServerStays,
         Talk!ToClientStays

\* In particular the steps that leave the connection alone.
LEMMA SameEndsStays ==
  ASSUME NEW d \in Client, SameEnds(d)
  PROVE  Talk!Stays(d)
<1>1. ServerRole(d)' = ServerRole(d) /\ ContentOf(d)' = ContentOf(d)
  BY DEF SameEnds, ServerRole, ContentOf
<1> QED
  BY <1>1, StaysPut DEF SameEnds

\* The two ends as Conversation names them.
LEMMA Roles ==
  ASSUME NEW c \in Client
  PROVE  /\ ClientRole(c) = "closed" <=> ~ ClientEnd(c)
         /\ ServerRole(c) = "closed" <=> ~ ServerEnd(c)
         /\ pc[c] \in Waiting => ClientRole(c) = "waiting"
         /\ pc[c] \in {"scan", "walk"} => ClientRole(c) = "idle"
         /\ pc[c] \in {"recv", "recvNew"} => ClientRole(c) = "receiving"
         /\ phase[c] \in {"sync", "stamp"} => ServerRole(c) = "ready"
         /\ phase[c] \in {"getfile", "writing"} => ServerRole(c) = "receiving"
         /\ phase[c] \in Giving => ServerRole(c) = "giving"
         /\ ServerRole(c) \notin {"receiving", "giving"} => ContentOf(c) = NoName
         /\ ServerRole(c) \in {"receiving", "giving"} =>
              ContentOf(c) = upload[c].name
  BY DEF ClientRole, ServerRole, ClientEnd, ServerEnd, Waiting, ContentOf, Giving

\* The answers under way mean what they meant, while the client stays put.
LEMMA AnswersAre ==
  ASSUME NEW c \in Client, pc'[c] = pc[c], cur'[c].mtime = cur[c].mtime
  PROVE  AnswersOf(c)' = {Meaning(c, m) : m \in Headers(toClient'[c])}
  BY DEF AnswersOf, Meaning

\* A step of one connection is a step of the conversations.
LEMMA OneTalks ==
  ASSUME NEW c \in Client, Talk!Step(c) \/ Talk!Stays(c),
         \A d \in Client \ {c} : SameEnds(d)
  PROVE  Talk!Next
  BY SameEndsStays DEF Talk!Next

-----------------------------------------------------------------------------
(* The answers of the server. *)

\* What is under way while a request waits to be handled: that, and no more.
LEMMA OneQuestion ==
  ASSUME TypeOK, NEW c \in Client, InStepAt(c), Request(c)
  PROVE  /\ ServerRole(c) = "ready"
         /\ Packet(c).filename \in EntryName \cup {NoName}
         /\ QuestionsOf(c) = {Packet(c).filename}
         /\ Contents(toServer[c]) = {}
         /\ AnswersOf(c) = {}
         /\ Contents(toClient[c]) = {}
<1>1. /\ toClient[c] = <<>>
      /\ Tail(toServer[c]) = <<>>
      /\ phase[c] = "sync"
  BY RequestIsCurrent
<1>2. /\ toServer[c] \in Seq(Message)
      /\ toServer[c] # <<>>
      /\ IsHeader(Head(toServer[c]))
      /\ Head(toServer[c]) = Packet(c)
  BY DEF TypeOK, Request, IsHeader, Packet
<1>3. /\ Headers(toServer[c]) = {Packet(c)}
      /\ Contents(toServer[c]) = {}
  BY <1>1, <1>2, Listing, NothingListed
<1>4. Packet(c).filename \in EntryName \cup {NoName}
  BY <1>2, RequestIsMessage
<1> QED
  BY <1>1, <1>3, <1>4, NothingListed, Roles DEF QuestionsOf, AnswersOf

\* Handling it is an answer, of which a client that is gone gets nothing.
LEMMA AnswerIsAnswer ==
  ASSUME TypeOK, NEW c \in Client, InStepAt(c), Request(c), Consume(c),
         UNCHANGED clientVars, NEW answer,
         ClientEnd(c) => /\ AnswersOf(c)' = {answer}
                         /\ Contents(toClient'[c]) = {},
         ~ ClientEnd(c) => toClient' = toClient
  PROVE  Talk!Answer(c, answer)
<1>1. toServer'[c] = <<>>
  BY RequestIsCurrent DEF Consume, TypeOK
<1>2. QuestionsOf(c)' = {} /\ Contents(toServer'[c]) = {}
  BY <1>1, NothingListed DEF QuestionsOf
<1>3. ClientRole(c)' = ClientRole(c) /\ cur'[c].name = cur[c].name
  BY DEF clientVars, ClientRole
<1>4. ~ ClientEnd(c) => AnswersOf(c)' = {} /\ Contents(toClient'[c]) = {}
  BY RequestIsCurrent, NothingListed DEF AnswersOf
<1> QED
  BY <1>2, <1>3, <1>4, OneQuestion, Roles
     DEF Talk!Answer, Talk!ToClient, Talk!ClientStays

\* What a response without content adds.
LEMMA HeaderAnswers ==
  ASSUME TypeOK, NEW c \in Client, InStepAt(c), Request(c),
         UNCHANGED clientVars, NEW name \in EntryName \cup {NoName},
         NEW mtime \in MTimes, Respond(c, Header(name, mtime)), ClientEnd(c)
  PROVE  /\ AnswersOf(c)' = {Meaning(c, Header(name, mtime))}
         /\ Contents(toClient'[c]) = {}
<1> DEFINE header == Header(name, mtime)
<1>1. header \in Message /\ IsHeader(header)
  BY HeaderIsMessage
<1>2. toClient[c] = <<>>
  BY RequestIsCurrent
<1>3. toClient'[c] = Append(<<>>, header)
  BY <1>2 DEF Respond, Sent, TypeOK
<1> HIDE DEF header
<1>4. toClient'[c] = <<header>>
  BY <1>1, <1>3, OneMessage
<1>5. Headers(toClient'[c]) = {header} /\ Contents(toClient'[c]) = {}
  BY <1>1, <1>4, OneListed
<1> QED
  BY <1>5, AnswersAre DEF clientVars, header

\* An answer that gives content is sent before the content.
LEMMA AnnounceTalks ==
  ASSUME TypeOK, InStep, NEW c \in Client, Request(c), Consume(c),
         UNCHANGED clientVars, NEW name \in EntryName, NEW mtime \in MTimes,
         NEW position \in Giving, Announce(c, position, Header(name, mtime)),
         Packet(c).filename \in {name, NoName},
         ClientEnd(c) => Meaning(c, Header(name, mtime)) = "give"
  PROVE  Talk!Next
<1>1. InStepAt(c) /\ name \in EntryName \cup {NoName}
  BY DEF InStep
<1>2. /\ Respond(c, Header(name, mtime))
      /\ phase'[c] \in Giving
      /\ upload'[c].name = name
      /\ \A d \in Client \ {c} : /\ phase'[d] = phase[d]
                                 /\ upload'[d] = upload[d]
                                 /\ toClient'[d] = toClient[d]
      /\ ~ ClientEnd(c) => toClient' = toClient
  BY Announced
<1>3. ClientEnd(c) => AnswersOf(c)' = {"give"} /\ Contents(toClient'[c]) = {}
  BY <1>1, <1>2, HeaderAnswers
<1>4. Talk!Answer(c, "give")
  BY <1>1, <1>2, <1>3, AnswerIsAnswer
<1>5. ServerRole(c)' = "giving" /\ ContentOf(c)' = name
  BY <1>2 DEF ServerRole, ContentOf, Giving
<1>6. Talk!AnswerGive(c)
  BY <1>1, <1>4, <1>5, OneQuestion DEF Talk!AnswerGive
<1>7. \A d \in Client \ {c} : SameEnds(d)
  BY <1>2 DEF Consume, SameEnds, TypeOK, clientVars
<1> QED
  BY <1>6, <1>7, OneTalks DEF Talk!Step

-----------------------------------------------------------------------------
(* The end of the server. *)

\* A client has at most one content to read, and a client that is gone none.
LEMMA OneContent ==
  ASSUME TypeOK, NEW c \in Client, InStepAt(c)
  PROVE  \E x : Contents(toClient[c]) \subseteq {x}
<1>1. toClient[c] \in Seq(Message)
  BY DEF TypeOK
<1>2. CASE toClient[c] = <<>>
  BY <1>2, NothingListed
<1>3. CASE toClient[c] # <<>>
  <2>1. ClientEnd(c)
    BY <1>3 DEF InStepAt, ClientLeft
  <2>2. Leftover(c, toClient[c])
    BY <2>1, LeftoverNow
  <2> DEFINE rest == Tail(toClient[c])
  <2>3. rest \in Seq(Message)
    BY <1>1, <1>3, Consumed
  <2>4. \/ rest = <<>>
        \/ IsHeader(Head(toClient[c])) /\ rest # <<>> /\ Tail(rest) = <<>>
    BY <1>3, <2>1, <2>2
       DEF Leftover, OneBody, ClientEnd, TypeOK, Position
  <2>5. /\ rest # <<>> => Contents(rest) \subseteq
             Contents(Tail(rest)) \cup {Head(rest).data.of}
        /\ Contents(toClient[c]) \subseteq
             Contents(rest) \cup {Head(toClient[c]).data.of}
        /\ IsHeader(Head(toClient[c])) => Contents(toClient[c]) = Contents(rest)
    BY <1>1, <1>3, <2>3, Listing
  <2> HIDE DEF rest
  <2> QED
    BY <2>4, <2>5, NothingListed
<1> QED
  BY <1>2, <1>3

\* A part of a set with one element at most is all of it, or nothing.
LEMMA PartOfOne ==
  ASSUME NEW A, NEW B, NEW x, A \subseteq B, B \subseteq {x}
  PROVE  A \in {B, {}}
<1>1. CASE x \in A
  BY <1>1
<1>2. CASE x \notin A
  BY <1>2
<1> QED
  BY <1>1, <1>2

\* Every connection that the server had open is closed, and content that it was
\* sending may be cut.  sent differs from what was under way by the header of
\* one answer at most.
LEMMA DeathTalks ==
  ASSUME TypeOK, InStep, NEW sent \in [Client -> Seq(Message)],
         DiesHavingSent(sent), UNCHANGED clientVars,
         \A d \in Client :
           \/ sent[d] = toClient[d]
           \/ /\ ServerRole(d) = "ready" /\ QuestionsOf(d) # {}
              /\ AnswersOf(d) = {} /\ Contents(toClient[d]) = {}
              /\ ClientEnd(d)
              /\ {Meaning(d, m) : m \in Headers(sent[d])} = {"give"}
              /\ Contents(sent[d]) = {}
  PROVE  Talk!Next
<1> SUFFICES ASSUME NEW d \in Client
             PROVE  Talk!Step(d) \/ Talk!Stays(d)
  BY DEF Talk!Next
<1>1. /\ phase'[d] = "dead"
      /\ toServer'[d] = <<>>
      /\ pc'[d] = pc[d] /\ cur'[d] = cur[d]
  BY DEF DiesHavingSent, SlotsReset, Everywhere, clientVars
<1>2. /\ toClient'[d] \in {sent[d], Trim(sent[d])}
      /\ ~ ServerEnd(d) => toClient'[d] = sent[d]
  BY DEF DiesHavingSent
<1>3. /\ ServerRole(d)' = "closed" /\ ContentOf(d)' = NoName
      /\ ClientRole(d)' = ClientRole(d)
  BY <1>1 DEF ServerRole, ContentOf, ClientRole
<1>4. CASE ~ ServerEnd(d)
  <2>1. toServer[d] = <<>>
    BY <1>4 DEF InStep, InStepAt, ServerLeft
  <2>2. ServerRole(d) = "closed" /\ ContentOf(d) = NoName
    BY <1>4, Roles
  <2>3. toClient'[d] = toClient[d]
    BY <1>2, <1>4, <2>2
  <2> QED
    BY <1>1, <1>3, <2>1, <2>2, <2>3, StaysPut
<1>5. CASE ServerEnd(d)
  <2>1. QuestionsOf(d)' = {} /\ Contents(toServer'[d]) = {}
    BY <1>1, NothingListed DEF QuestionsOf
  <2>2. /\ Headers(toClient'[d]) = Headers(sent[d])
        /\ Contents(toClient'[d]) \subseteq Contents(sent[d])
    BY <1>2, TrimListed
  <2>3. AnswersOf(d)' = {Meaning(d, m) : m \in Headers(sent[d])}
    BY <1>1, <2>2, AnswersAre
  <2>4. \/ /\ AnswersOf(d)' = AnswersOf(d)
           /\ Contents(toClient'[d]) \in {Contents(toClient[d]), {}}
        \/ /\ ServerRole(d) = "ready" /\ QuestionsOf(d) # {}
           /\ AnswersOf(d) = {} /\ Contents(toClient[d]) = {}
           /\ ClientEnd(d)
           /\ AnswersOf(d)' = {"give"}
           /\ Contents(toClient'[d]) = {}
    <3>1. CASE sent[d] = toClient[d]
      <4>1. AnswersOf(d)' = AnswersOf(d)
        BY <2>3, <3>1 DEF AnswersOf
      <4>2. \E x : Contents(toClient[d]) \subseteq {x}
        BY OneContent DEF InStep
      <4>3. Contents(toClient'[d]) \in {Contents(toClient[d]), {}}
        BY <2>2, <3>1, <4>2, PartOfOne, Zenon
      <4> QED
        BY <4>1, <4>3, Zenon
    <3>2. CASE sent[d] # toClient[d]
      BY <2>2, <2>3, <3>2
    <3> QED
      BY <3>1, <3>2
  <2>5. Talk!CloseServer(d)
    BY <1>1, <1>3, <1>5, <2>1, <2>4, Roles
       DEF Talk!CloseServer, Talk!ToClient, Talk!ClientStays
  <2> QED
    BY <2>5 DEF Talk!Step
<1> QED
  BY <1>4, <1>5

\* It dies between two messages, or while it sends one.
LEMMA ServerDiesTalks ==
  ASSUME TypeOK, InStep, ServerDies, UNCHANGED clientVars
  PROVE  Talk!Next
<1>1. toClient \in [Client -> Seq(Message)]
  BY DEF TypeOK
<1> QED
  BY <1>1, DeathTalks DEF ServerDies

\* It dies after the header of an answer that gives content was written.
LEMMA DeathOnRequestTalks ==
  ASSUME TypeOK, InStep, NEW c \in Client, Request(c),
         NEW name \in EntryName \cup {NoName}, NEW mtime \in Nat,
         DiesHavingSent(Sent(c, Header(name, mtime))), UNCHANGED clientVars,
         ClientEnd(c) => Meaning(c, Header(name, mtime)) = "give"
  PROVE  Talk!Next
<1> DEFINE header == Header(name, mtime)
           sent == Sent(c, header)
<1>1. sent \in [Client -> Seq(Message)]
  BY SentIsChannel DEF MTimes
<1>2. ASSUME NEW d \in Client, d # c \/ ~ ClientEnd(c)
      PROVE  sent[d] = toClient[d]
  BY <1>2 DEF Sent, TypeOK
<1>3. ASSUME ClientEnd(c)
      PROVE  /\ {Meaning(c, m) : m \in Headers(sent[c])} = {"give"}
             /\ Contents(sent[c]) = {}
  <2>1. toClient[c] = <<>>
    BY RequestIsCurrent DEF InStep
  <2>2. header \in Message /\ IsHeader(header)
    BY HeaderIsMessage DEF MTimes
  <2>3. sent[c] = <<header>>
    BY <1>3, <2>1, <2>2, OneMessage DEF Sent, TypeOK
  <2>4. Headers(sent[c]) = {header} /\ Contents(sent[c]) = {}
    BY <2>2, <2>3, OneListed
  <2> QED
    BY <1>3, <2>4
<1>4. /\ ServerRole(c) = "ready" /\ QuestionsOf(c) # {}
      /\ AnswersOf(c) = {} /\ Contents(toClient[c]) = {}
  BY OneQuestion DEF InStep
<1> HIDE DEF sent
<1>5. DiesHavingSent(sent)
  BY DEF sent
<1> QED
  BY <1>1, <1>2, <1>3, <1>4, <1>5, DeathTalks

\* Its end of a connection is closed.
LEMMA CloseTalks ==
  ASSUME TypeOK, NEW c \in Client, ServerEnd(c), CloseConnection(c),
         UNCHANGED <<toClient, clientVars>>
  PROVE  Talk!Step(c)
<1>1. phase'[c] = "dead" /\ toServer'[c] = <<>>
  BY DEF CloseConnection, TypeOK
<1>2. /\ ServerRole(c)' = "closed" /\ ContentOf(c)' = NoName
      /\ ClientRole(c)' = ClientRole(c) /\ cur'[c].name = cur[c].name
  BY <1>1 DEF ServerRole, ContentOf, ClientRole, clientVars
<1>3. QuestionsOf(c)' = {} /\ Contents(toServer'[c]) = {}
  BY <1>1, NothingListed DEF QuestionsOf
<1>4. AnswersOf(c)' = AnswersOf(c)
  BY DEF AnswersOf, Meaning, clientVars
<1>5. Talk!CloseServer(c)
  BY <1>2, <1>3, <1>4, Roles DEF Talk!CloseServer, Talk!ClientStays
<1> QED
  BY <1>5 DEF Talk!Step

-----------------------------------------------------------------------------
(* The steps of the server. *)

\* State SYNC, without a request or with the empty one.
LEMMA IdleTalks ==
  ASSUME TypeOK, InStep, ContentKeepsName, NEW c \in Client,
         UNCHANGED <<envVars, clientVars, local>>
  PROVE  /\ RefreshFinds(c) \/ RefreshSkips(c) \/ RefreshTakes(c) => Talk!Next
         /\ RefreshDone(c) \/ RefreshFails(c) => Talk!Next
         /\ ClientGone(c) => Talk!Next
         /\ BrokenPipe(c) \/ AddSharedOverflow(c) => Talk!Next
         /\ SendNewFile(c) => Talk!Next
         /\ NewFileOverflow(c) => Talk!Next
         /\ NoNewFile(c) => Talk!Next
<1>1. InStepAt(c) /\ KeepsName(disk)
  BY DEF InStep, ContentKeepsName
\* the client that asks for something new
<1>2. ASSUME Request(c), Packet(c).filename = NoName
      PROVE  /\ ServerRole(c) = "ready"
             /\ QuestionsOf(c) = {NoName}
             /\ ClientEnd(c) => pc[c] = "ackNew"
  <2>1. ClientEnd(c) => pc[c] = "ackNew"
    BY <1>1, <1>2, RequestIsCurrent, FileTableAssumption
       DEF InStepAt, Remembers, Waiting, EntryName
  <2> QED
    BY <1>1, <1>2, <2>1, OneQuestion
<1>3. ASSUME \/ RefreshFinds(c) \/ RefreshSkips(c) \/ RefreshTakes(c)
             \/ RefreshDone(c)
      PROVE  Talk!Next
  <2>1. \A d \in Client : SameEnds(d)
    BY <1>3 DEF RefreshFinds, RefreshSkips, RefreshTakes, RefreshDone, SameEnds,
                wireVars, clientVars
  <2> QED
    BY <2>1, SameEndsStays DEF Talk!Next
<1>4. ASSUME ClientGone(c) PROVE Talk!Next
  <2>1. Talk!Step(c)
    BY <1>4, CloseTalks DEF ClientGone, ServerEnd
  <2>2. \A d \in Client \ {c} : SameEnds(d)
    BY <1>4 DEF ClientGone, CloseConnection, SameEnds, TypeOK, clientVars
  <2> QED
    BY <2>1, <2>2, OneTalks
<1>5. ASSUME BrokenPipe(c) \/ AddSharedOverflow(c) \/ RefreshFails(c)
      PROVE  Talk!Next
  BY <1>5, ServerDiesTalks DEF BrokenPipe, AddSharedOverflow, RefreshFails
<1>6. ASSUME SendNewFile(c) PROVE Talk!Next
  <2>1. PICK name \in FileName :
          /\ Unknown(c, name)
          /\ Announce(c, "giveNew", Header(name, disk[name].mtime))
    BY <1>6 DEF SendNewFile
  <2>2. /\ name \in EntryName /\ name # NoName
        /\ disk[name].mtime \in MTimes
    BY <2>1, FileInFolder, FileTableAssumption
       DEF Unknown, EntryName, TypeOK, MTimes
  <2>3. /\ Request(c)
        /\ Consume(c)
        /\ Packet(c).filename = NoName
        /\ UNCHANGED clientVars
    BY <1>6 DEF SendNewFile
  <2>4. Header(name, disk[name].mtime).filename = name
    BY <2>2, HeaderIsMessage
  <2>5. ClientEnd(c) => Meaning(c, Header(name, disk[name].mtime)) = "give"
    BY <1>2, <2>2, <2>3, <2>4 DEF Meaning
  <2> QED
    BY <2>1, <2>2, <2>3, <2>5, AnnounceTalks DEF Giving
<1>7. ASSUME NewFileOverflow(c) PROVE Talk!Next
  <2>1. PICK name \in FileName :
          /\ Unknown(c, name)
          /\ DiesHavingSent(Sent(c, Header(name, disk[name].mtime)))
    BY <1>7 DEF NewFileOverflow
  <2>2. /\ name \in EntryName \cup {NoName} /\ name # NoName
        /\ disk[name].mtime \in Nat
    BY <2>1, FileInFolder, FileTableAssumption DEF Unknown, EntryName, TypeOK
  <2>3. Header(name, disk[name].mtime).filename = name
    BY <2>2, HeaderIsMessage DEF MTimes
  <2>4. ClientEnd(c) => Meaning(c, Header(name, disk[name].mtime)) = "give"
    BY <1>2, <1>7, <2>2, <2>3 DEF NewFileOverflow, Meaning
  <2> QED
    BY <1>7, <2>1, <2>2, <2>4, DeathOnRequestTalks DEF NewFileOverflow
<1>8. ASSUME NoNewFile(c) PROVE Talk!Next
  <2>1. /\ Request(c)
        /\ Consume(c)
        /\ Packet(c).filename = NoName
        /\ Respond(c, Header(NoName, 0))
        /\ UNCHANGED <<phase, upload, clientVars>>
    BY <1>8 DEF NoNewFile
  <2>2. 0 \in MTimes /\ Header(NoName, 0).filename = NoName
    BY HeaderIsMessage DEF MTimes
  <2>3. ClientEnd(c) => /\ AnswersOf(c)' = {"ack"}
                        /\ Contents(toClient'[c]) = {}
    BY <1>1, <1>2, <2>1, <2>2, HeaderAnswers DEF Meaning
  <2>4. ~ ClientEnd(c) => toClient' = toClient
    BY <2>1 DEF Respond, Sent
  <2>5. Talk!Answer(c, "ack")
    BY <1>1, <2>1, <2>3, <2>4, AnswerIsAnswer
  <2>6. ServerRole(c)' = ServerRole(c) /\ ContentOf(c)' = ContentOf(c)
    BY <2>1 DEF ServerRole, ContentOf
  <2>7. Talk!AnswerAck(c)
    BY <1>2, <2>1, <2>5, <2>6 DEF Talk!AnswerAck, Talk!ServerStays
  <2>8. \A d \in Client \ {c} : SameEnds(d)
    BY <2>1 DEF Respond, Sent, Consume, SameEnds, TypeOK, clientVars
  <2> QED
    BY <2>7, <2>8, OneTalks DEF Talk!Step
<1> QED
  BY <1>3, <1>4, <1>5, <1>6, <1>7, <1>8

\* A regular packet.
LEMMA PacketTalks ==
  ASSUME TypeOK, InStep, ContentKeepsName, NEW c \in Client,
         UNCHANGED <<envVars, clientVars, local>>
  PROVE  /\ RefuseFile(c) => Talk!Next
         /\ NotifyDeleted(c) => Talk!Next
         /\ AcceptDeletion(c) => Talk!Next
         /\ AskForFile(c) => Talk!Next
         /\ SendNewer(c) => Talk!Next
         /\ AlreadyInSync(c) => Talk!Next
<1> DEFINE name == Packet(c).filename
<1>1. InStepAt(c) /\ KeepsName(disk)
  BY DEF InStep, ContentKeepsName
<1>2. ASSUME Named(c)
      PROVE  /\ Request(c)
             /\ phase[c] = "sync"
             /\ name \in EntryName
             /\ Packet(c).mtime \in MTimes
             /\ ClientEnd(c) => /\ name = cur[c].name
                                /\ Packet(c).mtime = cur[c].mtime
                                /\ pc[c] \in {"ackDel", "ackSync"}
                                /\ pc[c] = "ackDel" => cur[c].mtime = Deleted
                                /\ pc[c] = "ackSync" => cur[c].mtime \in Nat
  BY <1>1, <1>2, NamedIsCurrent
<1>3. ASSUME Named(c), NEW i \in Slot, NEW t \in EntryTime(c, i)
      PROVE  /\ t \in Nat /\ t \in MTimes /\ t # Deleted
             /\ Header(name, t).mtime = t
  BY <1>2, <1>3, EntryTimeIsTime, HeaderIsMessage DEF MTimes, Deleted
<1>4. ASSUME Named(c)
      PROVE  ServerRole(c) = "ready" /\ QuestionsOf(c) = {name}
  BY <1>1, <1>2, <1>4, OneQuestion
\* an answer without content
<1>5. ASSUME Named(c), Consume(c), UNCHANGED phase,
             \A d \in Client : upload'[d] = Unlink(upload[d], name)
                               \/ upload'[d] = upload[d],
             NEW about \in EntryName \cup {NoName}, NEW t \in MTimes,
             Respond(c, Header(about, t)),
             ClientEnd(c) => Meaning(c, Header(about, t)) = "ack"
      PROVE  Talk!Next
  <2>1. ClientEnd(c) => AnswersOf(c)' = {"ack"} /\ Contents(toClient'[c]) = {}
    BY <1>1, <1>2, <1>5, HeaderAnswers
  <2>2. ~ ClientEnd(c) => toClient' = toClient
    BY <1>5 DEF Respond, Sent
  <2>3. Talk!Answer(c, "ack")
    BY <1>1, <1>2, <1>5, <2>1, <2>2, AnswerIsAnswer
  <2>4. \A d \in Client : upload[d] \in Transfer
    BY DEF TypeOK
  <2>5. ServerRole(c)' = ServerRole(c) /\ ContentOf(c)' = ContentOf(c)
    BY <1>5, <2>4, UnlinkKeeps DEF ServerRole, ContentOf
  <2>6. Talk!AnswerAck(c)
    BY <1>2, <1>4, <1>5, <2>3, <2>5 DEF Talk!AnswerAck, Talk!ServerStays
  <2>7. \A d \in Client \ {c} : /\ toServer'[d] = toServer[d]
                                /\ toClient'[d] = toClient[d]
    BY <1>5 DEF Respond, Sent, Consume, TypeOK
  <2>8. \A d \in Client \ {c} : SameEnds(d)
    BY <1>5, <2>4, <2>7, UnlinkKeeps DEF SameEnds, clientVars
  <2> QED
    BY <2>6, <2>8, OneTalks DEF Talk!Step
<1>6. ASSUME RefuseFile(c) PROVE Talk!Next
  <2>1. Talk!Step(c)
    BY <1>2, <1>6, CloseTalks DEF RefuseFile, ServerEnd
  <2>2. \A d \in Client \ {c} : SameEnds(d)
    BY <1>6 DEF RefuseFile, CloseConnection, SameEnds, TypeOK, clientVars
  <2> QED
    BY <2>1, <2>2, OneTalks
<1>7. ASSUME NotifyDeleted(c) PROVE Talk!Next
  <2>1. PICK i \in Slot : \E t \in EntryTime(c, i), j \in 1..fileLength[c] :
          Respond(c, Header(At(Table(c, i, t), j).filename, Deleted))
    BY <1>7 DEF NotifyDeleted
  <2>2. PICK t \in EntryTime(c, i), j \in 1..fileLength[c] :
          Respond(c, Header(At(Table(c, i, t), j).filename, Deleted))
    BY <2>1
  <2>3. /\ Named(c)
        /\ Consume(c)
        /\ UNCHANGED <<phase, upload>>
    BY <1>7 DEF NotifyDeleted
  <2> DEFINE about == At(Table(c, i, t), j).filename
  <2>4. about \in EntryName \cup {NoName}
    <3>1. Table(c, i, t) \in FileArray
      BY <1>2, <1>3, <2>3, RecordIsTable DEF Table, TypeOK
    <3> QED
      BY <3>1, AtIsEntry DEF FileInfo
  <2> HIDE DEF about
  <2>5. Deleted \in MTimes /\ Header(about, Deleted).mtime = Deleted
    BY <2>4, HeaderIsMessage DEF MTimes
  <2>6. ClientEnd(c) => Meaning(c, Header(about, Deleted)) = "ack"
    BY <1>2, <2>3, <2>5 DEF Meaning, Deleted
  <2> QED
    BY <1>5, <2>2, <2>3, <2>4, <2>5, <2>6 DEF about
<1>8. ASSUME AcceptDeletion(c) PROVE Talk!Next
  <2>1. PICK i \in Slot : \E t \in EntryTime(c, i) : Respond(c, Header(name, t))
    BY <1>8 DEF AcceptDeletion
  <2>2. PICK t \in EntryTime(c, i) : Respond(c, Header(name, t))
    BY <2>1
  <2>3. /\ Named(c)
        /\ Consume(c)
        /\ Packet(c).mtime = Deleted
        /\ UNCHANGED phase
        /\ \A d \in Client : upload'[d] = Unlink(upload[d], name)
    BY <1>8 DEF AcceptDeletion
  <2>4. ClientEnd(c) => pc[c] = "ackDel"
    BY <1>2, <2>3 DEF Deleted
  <2>5. ClientEnd(c) => Meaning(c, Header(name, t)) = "ack"
    BY <2>4 DEF Meaning
  <2> QED
    BY <1>2, <1>3, <1>5, <2>2, <2>3, <2>5
<1>9. ASSUME AskForFile(c) PROVE Talk!Next
  <2>1. PICK i \in Slot : \E t \in EntryTime(c, i) :
          Packet(c).mtime > t /\ Respond(c, Header(name, t))
    BY <1>9 DEF AskForFile
  <2>2. PICK t \in EntryTime(c, i) :
          Packet(c).mtime > t /\ Respond(c, Header(name, t))
    BY <2>1
  <2>3. /\ Named(c)
        /\ Consume(c)
        /\ phase' = [phase EXCEPT ![c] = "getfile"]
        /\ upload' = [upload EXCEPT ![c] = [name |-> name,
                                            mtime |-> Packet(c).mtime,
                                            link |-> "gone"]]
    BY <1>9 DEF AskForFile
  <2>4. phase'[c] = "getfile" /\ upload'[c].name = name
    BY <2>3 DEF TypeOK
  <2>5. Packet(c).mtime \in Nat
    BY <1>2, <1>3, <2>2, <2>3 DEF MTimes, Deleted
  <2>6. ClientEnd(c) => pc[c] = "ackSync" /\ t \in 0..(cur[c].mtime - 1)
    BY <1>2, <1>3, <2>2, <2>3, <2>5 DEF Deleted
  <2>7. ClientEnd(c) => Meaning(c, Header(name, t)) = "want"
    BY <1>3, <2>3, <2>6 DEF Meaning
  <2>8. ClientEnd(c) => AnswersOf(c)' = {"want"} /\ Contents(toClient'[c]) = {}
    BY <1>1, <1>2, <1>3, <2>2, <2>3, <2>7, HeaderAnswers
  <2>9. ~ ClientEnd(c) => toClient' = toClient
    BY <2>2 DEF Respond, Sent
  <2>10. Talk!Answer(c, "want")
    BY <1>1, <1>2, <2>3, <2>8, <2>9, AnswerIsAnswer
  <2>11. ServerRole(c)' = "receiving" /\ ContentOf(c)' = name
    BY <2>4 DEF ServerRole, ContentOf
  <2>12. Talk!AnswerWant(c)
    BY <1>2, <1>4, <2>3, <2>10, <2>11 DEF Talk!AnswerWant
  <2>13. \A d \in Client \ {c} : SameEnds(d)
    BY <2>2, <2>3 DEF Respond, Sent, Consume, SameEnds, TypeOK, clientVars
  <2> QED
    BY <2>12, <2>13, OneTalks DEF Talk!Step
<1>10. ASSUME SendNewer(c) PROVE Talk!Next
  <2>1. PICK i \in Slot : \E t \in EntryTime(c, i) :
          Packet(c).mtime \in 0..(t-1) /\ Announce(c, "give", Header(name, t))
    BY <1>10 DEF SendNewer
  <2>2. PICK t \in EntryTime(c, i) :
          Packet(c).mtime \in 0..(t-1) /\ Announce(c, "give", Header(name, t))
    BY <2>1
  <2>3. Named(c) /\ Consume(c)
    BY <1>10 DEF SendNewer
  <2>4. ClientEnd(c) => pc[c] = "ackSync" /\ t > cur[c].mtime
    BY <1>2, <1>3, <2>2, <2>3 DEF Deleted
  <2>5. ClientEnd(c) => Meaning(c, Header(name, t)) = "give"
    BY <1>2, <1>3, <2>3, <2>4 DEF Meaning
  <2> QED
    BY <1>2, <1>3, <2>2, <2>3, <2>5, AnnounceTalks DEF Giving
<1>11. ASSUME AlreadyInSync(c) PROVE Talk!Next
  <2>1. PICK i \in Slot : \E t \in EntryTime(c, i) :
          Packet(c).mtime = t /\ Respond(c, Header(name, t))
    BY <1>11 DEF AlreadyInSync
  <2>2. PICK t \in EntryTime(c, i) :
          Packet(c).mtime = t /\ Respond(c, Header(name, t))
    BY <2>1
  <2>3. /\ Named(c)
        /\ Consume(c)
        /\ UNCHANGED <<phase, upload>>
    BY <1>11 DEF AlreadyInSync
  <2>4. ClientEnd(c) => Meaning(c, Header(name, t)) = "ack"
    BY <1>2, <1>3, <2>2, <2>3 DEF Meaning
  <2> QED
    BY <1>2, <1>3, <1>5, <2>2, <2>3, <2>4
<1> QED
  BY <1>6, <1>7, <1>8, <1>9, <1>10, <1>11

\* The content that was announced, or the end of the server.
LEMMA GiveTalks ==
  ASSUME TypeOK, InStep, ContentKeepsName, NEW c \in Client,
         UNCHANGED <<envVars, clientVars, local>>
  PROVE  GiveFile(c) \/ GiveNothing(c) => Talk!Next
<1> DEFINE name == upload[c].name
<1>1. ASSUME GiveNothing(c) PROVE Talk!Next
  BY <1>1, ServerDiesTalks DEF GiveNothing
<1>2. ASSUME GiveFile(c) PROVE Talk!Next
  <2>1. /\ phase[c] \in Giving
        /\ Exists(disk, name)
        /\ IF name \in FileName THEN Respond(c, Body(disk[name].data))
           ELSE UNCHANGED toClient
        /\ phase' = [phase EXCEPT ![c] = "sync"]
        /\ upload' = [upload EXCEPT ![c] = NoTransfer]
        /\ UNCHANGED <<toServer, clientVars>>
    BY <1>2 DEF GiveFile
  <2>2. toClient[c] \in Seq(Message)
    BY DEF TypeOK
  <2>3. Contents(toClient[c]) = {}
    <3>1. CASE toClient[c] = <<>>
      BY <3>1, NothingListed
    <3>2. CASE toClient[c] # <<>>
      <4>1. IsHeader(Head(toClient[c])) /\ Tail(toClient[c]) = <<>>
        BY <2>1, <3>2, GivingIsAnnounced DEF InStep, Replied
      <4> QED
        BY <2>2, <3>2, <4>1, Listing, NothingListed
    <3> QED
      BY <3>1, <3>2
  <2>4. /\ Headers(toClient'[c]) = Headers(toClient[c])
        /\ Contents(toClient'[c]) =
             IF ClientEnd(c) THEN {name} \cap FileName ELSE {}
    <3>1. CASE name \in FileName /\ ClientEnd(c)
      <4>1. /\ Body(disk[name].data) \in Message
            /\ ~ IsHeader(Body(disk[name].data))
            /\ Body(disk[name].data).data.of = name
        BY <2>1, <3>1, FileInFolder, BodyIsMessage
           DEF TypeOK, ContentKeepsName, KeepsName, Exists
      <4>2. toClient'[c] = Append(toClient[c], Body(disk[name].data))
        BY <2>1, <3>1 DEF Respond, Sent, TypeOK
      <4> HIDE DEF name
      <4>3. /\ Headers(toClient'[c]) = Headers(toClient[c])
            /\ Contents(toClient'[c]) = {name}
        BY <2>2, <2>3, <4>1, <4>2, AppendListed
      <4> QED
        BY <3>1, <4>3
    <3>2. CASE ~ (name \in FileName /\ ClientEnd(c))
      <4>1. toClient'[c] = toClient[c]
        BY <2>1, <3>2 DEF Respond, Sent
      <4> QED
        BY <2>3, <3>2, <4>1
    <3> QED
      BY <3>1, <3>2
  <2>5. AnswersOf(c)' = AnswersOf(c)
    BY <2>1, <2>4 DEF AnswersOf, Meaning, clientVars
  <2>6. /\ ClientRole(c)' = ClientRole(c) /\ cur'[c].name = cur[c].name
        /\ QuestionsOf(c)' = QuestionsOf(c)
    BY <2>1 DEF ClientRole, QuestionsOf, clientVars
  <2>7. ServerRole(c) = "giving" /\ ContentOf(c) = name
    BY <2>1, Roles
  <2>8. ServerRole(c)' = "ready" /\ ContentOf(c)' = NoName
    BY <2>1 DEF ServerRole, ContentOf, Giving, TypeOK
  <2>9. Talk!Give(c)
    BY <2>1, <2>3, <2>4, <2>5, <2>6, <2>7, <2>8, Roles
       DEF Talk!Give, Talk!ToClient, Talk!ClientStays, Talk!ToServerStays
  <2>10. \A d \in Client \ {c} : SameEnds(d)
    BY <2>1 DEF Respond, Sent, SameEnds, TypeOK, clientVars
  <2> QED
    BY <2>9, <2>10, OneTalks DEF Talk!Step
<1> QED
  BY <1>1, <1>2

\* Behind the content that the server waits for, or has read, there is one
\* request at most.
LEMMA OneRequestAhead ==
  ASSUME TypeOK, NEW c \in Client, InStepAt(c), ServerEnd(c)
  PROVE  IF Uploading(c)
         THEN toServer[c] # <<>> => /\ IsBody(Head(toServer[c]), upload[c].name)
                                   /\ AtMostOneRequest(Tail(toServer[c]))
         ELSE AtMostOneRequest(toServer[c])
  BY ClientLeaves DEF InStepAt, ClientLeft

\* A channel with one request at most carries no content.
LEMMA NoContent ==
  ASSUME NEW s \in Seq(Message), AtMostOneRequest(s)
  PROVE  Contents(s) = {}
<1>1. CASE s = <<>>
  BY <1>1, NothingListed
<1>2. CASE s # <<>>
  BY <1>2, Listing, NothingListed DEF AtMostOneRequest
<1> QED
  BY <1>1, <1>2

\* State GETFILE.
LEMMA UploadTalks ==
  ASSUME TypeOK, InStep, NEW c \in Client,
         UNCHANGED <<envVars, clientVars, local>>
  PROVE  /\ GetOpen(c) => Talk!Next
         /\ GetDirectory(c) \/ GetEof(c) => Talk!Next
         /\ GetData(c) => Talk!Next
         /\ GetStamp(c) => Talk!Next
<1> USE DEF clientVars, wireVars
<1>1. InStepAt(c) /\ Remembers(c)
  BY DEF InStep, InStepAt
<1>2. ASSUME GetOpen(c) PROVE Talk!Next
  <2>1. /\ phase[c] = "getfile"
        /\ phase' = [phase EXCEPT ![c] = "writing"]
        /\ UNCHANGED <<toServer, toClient>>
    BY <1>2 DEF GetOpen
  <2>2. \A d \in Client :
          /\ upload'[d].name = upload[d].name
          /\ upload'[d].mtime = upload[d].mtime
          /\ upload[d] = NoTransfer => upload'[d] = NoTransfer
    BY <1>2, OpenKeeps
  <2>3. phase'[c] = "writing"
    BY <2>1 DEF TypeOK
  <2>4. ServerRole(c)' = ServerRole(c) /\ ContentOf(c)' = ContentOf(c)
    BY <2>1, <2>2, <2>3 DEF ServerRole, ContentOf
  <2>5. Talk!Stays(c)
    BY <2>1, <2>4, StaysPut
  <2>6. \A d \in Client \ {c} : SameEnds(d)
    BY <2>1, <2>2 DEF SameEnds, TypeOK
  <2> QED
    BY <2>5, <2>6, OneTalks
<1>3. ASSUME GetDirectory(c) \/ GetEof(c) PROVE Talk!Next
  BY <1>3, ServerDiesTalks DEF GetDirectory, GetEof
<1>4. ASSUME GetData(c) PROVE Talk!Next
  <2>1. /\ phase[c] = "writing"
        /\ toServer[c] # <<>>
        /\ UNCHANGED <<upload, toClient>>
        /\ phase' = [phase EXCEPT ![c] = "stamp"]
        /\ Consume(c)
    BY <1>4 DEF GetData
  <2>2. phase'[c] = "stamp" /\ toServer'[c] = Tail(toServer[c])
    BY <2>1 DEF Consume, TypeOK
  <2>3. Uploading(c) /\ ServerEnd(c)
    BY <1>1, <2>1 DEF Uploading, Remembers, ServerEnd
  <2>4. /\ toServer[c] \in Seq(Message)
        /\ Tail(toServer[c]) \in Seq(Message)
        /\ ~ IsHeader(Head(toServer[c]))
        /\ Head(toServer[c]).data.of = upload[c].name
        /\ AtMostOneRequest(Tail(toServer[c]))
    BY <1>1, <2>1, <2>3, OneRequestAhead, Consumed DEF IsBody, IsHeader, TypeOK
  <2>5. /\ Headers(toServer'[c]) = Headers(toServer[c])
        /\ Contents(toServer'[c]) = {}
        /\ Contents(toServer[c]) = {upload[c].name}
    BY <2>1, <2>2, <2>4, Listing, NoContent
  <2>6. /\ ServerRole(c) = "receiving" /\ ContentOf(c) = upload[c].name
        /\ ServerRole(c)' = "ready" /\ ContentOf(c)' = NoName
        /\ ClientRole(c)' = ClientRole(c)
    BY <2>1, <2>2 DEF ServerRole, ContentOf, ClientRole, Giving
  <2>7. QuestionsOf(c)' = QuestionsOf(c) /\ AnswersOf(c)' = AnswersOf(c)
    BY <2>1, <2>5 DEF QuestionsOf, AnswersOf, Meaning
  <2>8. Talk!TakeUp(c)
    BY <2>1, <2>5, <2>6, <2>7
       DEF Talk!TakeUp, Talk!ClientStays, Talk!ToClientStays
  <2>9. \A d \in Client \ {c} : SameEnds(d)
    BY <2>1 DEF SameEnds, Consume, TypeOK
  <2> QED
    BY <2>8, <2>9, OneTalks DEF Talk!Step
<1>5. ASSUME GetStamp(c) PROVE Talk!Next
  <2>1. CASE ServerDies
    BY <2>1, ServerDiesTalks
  <2>2. CASE ~ ServerDies
    <3>1. /\ phase[c] = "stamp"
          /\ phase' = [phase EXCEPT ![c] = "sync"]
          /\ upload' = [upload EXCEPT ![c] = NoTransfer]
          /\ UNCHANGED <<toServer, toClient>>
      BY <1>5, <2>2 DEF GetStamp
    <3>2. phase'[c] = "sync"
      BY <3>1 DEF TypeOK
    <3>3. ServerRole(c)' = ServerRole(c) /\ ContentOf(c)' = ContentOf(c)
      BY <3>1, <3>2 DEF ServerRole, ContentOf, Giving
    <3>4. Talk!Stays(c)
      BY <3>1, <3>3, StaysPut
    <3>5. \A d \in Client \ {c} : SameEnds(d)
      BY <3>1 DEF SameEnds, TypeOK
    <3> QED
      BY <3>4, <3>5, OneTalks
  <2> QED
    BY <2>1, <2>2
<1> QED
  BY <1>2, <1>3, <1>4, <1>5

-----------------------------------------------------------------------------
(* The steps of a client. *)

\* A client ends, with all or all but a body of what it was sending.
LEMMA ExitTalks ==
  ASSUME TypeOK, InStep, NEW c \in Client, ClientEnd(c), Exit(c),
         NEW channel \in {toServer[c], Trim(toServer[c])},
         toServer' = [toServer EXCEPT ![c] = channel],
         UNCHANGED <<phase, upload>>
  PROVE  Talk!Next
<1>1. /\ InStepAt(c)
      /\ toServer[c] \in Seq(Message)
  BY DEF InStep, TypeOK
<1>2. /\ pc'[c] = "off"
      /\ cur'[c] = NoTransfer
      /\ toClient'[c] = <<>>
      /\ toServer'[c] = channel
  BY DEF Exit, TypeOK
<1>3. /\ ClientRole(c)' = "closed" /\ cur'[c].name = NoName
      /\ ServerRole(c)' = ServerRole(c) /\ ContentOf(c)' = ContentOf(c)
  BY <1>2 DEF ClientRole, ServerRole, ContentOf, NoTransfer
<1>4. AnswersOf(c)' = {} /\ Contents(toClient'[c]) = {}
  BY <1>2, NothingListed DEF AnswersOf
<1>5. Headers(channel) = Headers(toServer[c])
  BY <1>1, TrimListed
<1>6. QuestionsOf(c)' = QuestionsOf(c)
  BY <1>2, <1>5 DEF QuestionsOf
<1>7. \/ Contents(channel) = Contents(toServer[c])
      \/ QuestionsOf(c) = {} /\ Contents(channel) = {}
  <2>1. CASE toServer[c] = <<>>
    BY <1>1, <2>1, TrimShapes
  <2>2. CASE AtMostOneRequest(toServer[c])
    <3>1. Contents(channel) \subseteq Contents(toServer[c])
      BY <1>1, TrimListed
    <3> QED
      BY <1>1, <2>2, <3>1, NoContent
  <2>3. CASE /\ toServer[c] # <<>>
             /\ IsBody(Head(toServer[c]), upload[c].name)
             /\ AtMostOneRequest(Tail(toServer[c]))
    <3>1. CASE Tail(toServer[c]) # <<>>
      BY <1>1, <2>3, <3>1, TrimShapes DEF AtMostOneRequest
    <3>2. CASE Tail(toServer[c]) = <<>>
      <4>1. Headers(toServer[c]) = {}
        BY <1>1, <2>3, <3>2, Listing, NothingListed DEF IsBody, IsHeader
      <4>2. channel \in {toServer[c], <<>>}
        BY <1>1, <2>3, <3>2, TrimShapes
      <4> QED
        BY <4>1, <4>2, NothingListed DEF QuestionsOf
    <3> QED
      BY <3>1, <3>2
  <2>4. ~ ServerEnd(c) => toServer[c] = <<>>
    BY <1>1 DEF InStepAt, ServerLeft
  <2> QED
    BY <1>1, <2>1, <2>2, <2>3, <2>4, OneRequestAhead
<1>8. Talk!CloseClient(c)
  BY <1>2, <1>3, <1>4, <1>6, <1>7, Roles
     DEF Talk!CloseClient, Talk!ServerStays
<1>9. \A d \in Client \ {c} : SameEnds(d)
  BY DEF Exit, SameEnds, TypeOK
<1> QED
  BY <1>8, <1>9, OneTalks DEF Talk!Step

\* A client sends a request, when none of its own is under way.
LEMMA AskTalks ==
  ASSUME TypeOK, NEW c \in Client, InStepAt(c), UNCHANGED <<phase, upload>>,
         ClientEnd(c), pc'[c] \in Waiting, ServerEnd(c) => Ahead(c, <<>>),
         NEW name \in EntryName \cup {NoName}, NEW mtime \in MTimes,
         Send(c, Header(name, mtime)), cur'[c].name = name
  PROVE  Talk!Asks(c, name) /\ Talk!ServerStays(c)
<1> DEFINE header == Header(name, mtime)
<1>1. toServer[c] \in Seq(Message)
  BY DEF TypeOK
<1>2. header \in Message /\ IsHeader(header) /\ header.filename = name
  BY HeaderIsMessage
<1>3. Headers(toServer[c]) = {}
  <2>1. CASE toServer[c] = <<>>
    BY <2>1, NothingListed
  <2>2. CASE toServer[c] # <<>>
    <3>1. ServerEnd(c) /\ Uploading(c)
      BY <2>2 DEF InStepAt, ServerLeft, Ahead, Giving
    <3>2. /\ IsBody(Head(toServer[c]), upload[c].name)
          /\ Tail(toServer[c]) = <<>>
      BY <3>1 DEF Ahead, Giving
    <3> QED
      BY <1>1, <2>2, <3>2, Listing, NothingListed DEF IsBody, IsHeader
  <2> QED
    BY <2>1, <2>2
<1>4. toServer'[c] = IF ServerEnd(c) THEN Append(toServer[c], header)
                     ELSE toServer[c]
  BY DEF Send, TypeOK
<1> HIDE DEF header
<1>5. /\ Headers(toServer'[c]) = IF ServerEnd(c) THEN {header} ELSE {}
      /\ Contents(toServer'[c]) = Contents(toServer[c])
  BY <1>1, <1>2, <1>3, <1>4, AppendListed
<1>6. /\ QuestionsOf(c) = {}
      /\ QuestionsOf(c)' = IF ServerEnd(c) THEN {name} ELSE {}
  BY <1>2, <1>3, <1>5 DEF QuestionsOf
<1>7. /\ ClientRole(c)' = "waiting"
      /\ ServerRole(c)' = ServerRole(c) /\ ContentOf(c)' = ContentOf(c)
  BY DEF ClientRole, ServerRole, ContentOf, Waiting
<1> QED
  BY <1>5, <1>6, <1>7, Roles DEF Talk!Asks, Talk!ToServer, Talk!ServerStays

\* So does one that asks for something new.
LEMMA AskNewTalks ==
  ASSUME TypeOK, NEW c \in Client, InStepAt(c), UNCHANGED <<phase, upload>>,
         ClientEnd(c), AskNew(c), ServerEnd(c) => Ahead(c, <<>>)
  PROVE  Talk!Asks(c, NoName) /\ Talk!ServerStays(c)
<1>1. pc'[c] \in Waiting /\ cur'[c].name = NoName
  BY DEF AskNew, TypeOK, Waiting, NoTransfer
<1>2. 0 \in MTimes /\ NoName \in EntryName \cup {NoName}
  BY DEF MTimes
<1> QED
  BY <1>1, <1>2, AskTalks DEF AskNew

\* Nothing is under way to a client that has not asked.
LEMMA QuietTalks ==
  ASSUME NEW c \in Client, InStepAt(c), pc[c] \in {"scan", "walk"},
         toClient'[c] = toClient[c]
  PROVE  /\ ClientRole(c) = "idle"
         /\ Talk!ToClientStays(c)
<1>1. toClient[c] = <<>>
  BY Quiet
<1>2. AnswersOf(c) = {} /\ AnswersOf(c)' = {}
  BY <1>1, NothingListed DEF AnswersOf
<1> QED
  BY <1>1, <1>2, Roles DEF Talk!ToClientStays

\* A response that is read.
LEMMA ReadTalks ==
  ASSUME TypeOK, NEW c \in Client, Acked(c), Receive(c)
  PROVE  /\ AnswersOf(c) = {Meaning(c, Response(c))} \cup
              {Meaning(c, m) : m \in Headers(Tail(toClient[c]))}
         /\ Contents(toClient[c]) = Contents(Tail(toClient[c]))
         /\ toClient'[c] = Tail(toClient[c])
         /\ Tail(toClient[c]) = <<>> =>
              /\ AnswersOf(c) = {Meaning(c, Response(c))}
              /\ Contents(toClient[c]) = {}
              /\ AnswersOf(c)' = {}
              /\ Contents(toClient'[c]) = {}
<1>1. /\ toClient[c] \in Seq(Message) /\ toClient[c] # <<>>
      /\ IsHeader(Head(toClient[c]))
      /\ toClient'[c] = Tail(toClient[c])
  BY DEF TypeOK, Acked, IsHeader, Receive, Response
<1>2. /\ Headers(toClient[c]) = Headers(Tail(toClient[c])) \cup {Response(c)}
      /\ Contents(toClient[c]) = Contents(Tail(toClient[c]))
  BY <1>1, Listing DEF Response
<1> QED
  BY <1>1, <1>2, NothingListed DEF AnswersOf

\* The acknowledgement of what it asked makes a client go on.
LEMMA AckTalks ==
  ASSUME TypeOK, NEW c \in Client, Acked(c), Receive(c), pc[c] \in Waiting,
         Tail(toClient[c]) = <<>>, Meaning(c, Response(c)) = "ack",
         UNCHANGED <<phase, upload>>,
         \/ /\ pc'[c] \in {"scan", "walk"} /\ cur'[c].name = NoName
            /\ toServer'[c] = toServer[c]
         \/ \E name \in EntryName \cup {NoName} : Talk!Asks(c, name)
  PROVE  Talk!Step(c)
<1>1. ServerRole(c)' = ServerRole(c) /\ ContentOf(c)' = ContentOf(c)
  BY DEF ServerRole, ContentOf
<1>2. Talk!GoesOn(c)
  <2>1. CASE \E name \in EntryName \cup {NoName} : Talk!Asks(c, name)
    BY <2>1 DEF Talk!GoesOn
  <2>2. CASE /\ pc'[c] \in {"scan", "walk"} /\ cur'[c].name = NoName
             /\ toServer'[c] = toServer[c]
    <3>1. ClientRole(c)' = "idle"
      BY <2>2 DEF ClientRole
    <3>2. QuestionsOf(c)' = QuestionsOf(c)
      BY <2>2 DEF QuestionsOf
    <3> QED
      BY <2>2, <3>1, <3>2 DEF Talk!GoesOn, Talk!ToServerStays
  <2> QED
    BY <2>1, <2>2
<1>3. Talk!ReadAck(c)
  BY <1>1, <1>2, ReadTalks, Roles DEF Talk!ReadAck, Talk!ServerStays
<1> QED
  BY <1>3 DEF Talk!Step

\* The cycle up to the requests, and what ends it.
LEMMA CycleTalks ==
  ASSUME TypeOK, InStep, NEW c \in Client,
         UNCHANGED <<envVars, serverUp, disk, slotVars>>
  PROVE  /\ ExitOnly(c) /\ ClientEnd(c) => Talk!Next
         /\ ReportDeleted(c) => Talk!Next
         /\ StartWalk(c) => Talk!Next
         /\ AckDeletion(c) => Talk!Next
         /\ \A name \in EntryName : Walk(c, name) => Talk!Next
         /\ WalkDone(c) => Talk!Next
<1> USE DEF slotVars, wireVars
<1>1. InStepAt(c)
  BY DEF InStep
<1>2. ASSUME ExitOnly(c), ClientEnd(c) PROVE Talk!Next
  <2>1. toServer' = [toServer EXCEPT ![c] = toServer[c]]
    BY <1>2 DEF ExitOnly, TypeOK
  <2> QED
    BY <1>2, <2>1, ExitTalks DEF ExitOnly
\* a question of a client that has been at rest
<1>3. ASSUME pc[c] \in {"scan", "walk"}, NEW name \in EntryName \cup {NoName},
             Talk!Asks(c, name), Talk!ServerStays(c),
             toClient'[c] = toClient[c]
      PROVE  Talk!Step(c)
  BY <1>1, <1>3, QuietTalks DEF Talk!Step, Talk!Ask
<1>4. ASSUME ReportDeleted(c) PROVE Talk!Next
  <2>1. PICK name \in FileName :
          /\ Send(c, Header(name, Deleted))
          /\ cur' = [cur EXCEPT ![c] = [name |-> name, mtime |-> Deleted,
                                        link |-> "gone"]]
    BY <1>4 DEF ReportDeleted
  <2>2. /\ pc[c] = "scan"
        /\ pc'[c] \in Waiting
        /\ cur'[c].name = name
        /\ toClient' = toClient
        /\ name \in EntryName \cup {NoName} /\ Deleted \in MTimes
    BY <1>4, <2>1 DEF ReportDeleted, TypeOK, Waiting, EntryName, MTimes
  <2>3. Talk!Asks(c, name) /\ Talk!ServerStays(c)
    BY <1>1, <2>1, <2>2, Quiet, AskTalks
  <2>4. Talk!Step(c)
    BY <1>3, <2>2, <2>3
  <2>5. \A d \in Client \ {c} : SameEnds(d)
    BY <1>4, <2>1 DEF ReportDeleted, Send, SameEnds, TypeOK
  <2> QED
    BY <2>4, <2>5, OneTalks
<1>5. ASSUME StartWalk(c) PROVE Talk!Next
  <2>1. /\ pc[c] = "scan"
        /\ pc'[c] = "walk"
        /\ UNCHANGED <<cur, wireVars>>
    BY <1>5 DEF StartWalk, TypeOK
  <2>2. /\ ClientRole(c)' = ClientRole(c) /\ QuestionsOf(c)' = QuestionsOf(c)
        /\ ServerRole(c)' = ServerRole(c) /\ ContentOf(c)' = ContentOf(c)
    BY <2>1 DEF ClientRole, QuestionsOf, ServerRole, ContentOf
  <2>3. Talk!Stays(c)
    BY <1>1, <2>1, <2>2, QuietTalks
       DEF Talk!Stays, Talk!ClientStays, Talk!ServerStays, Talk!ToServerStays
  <2>4. \A d \in Client \ {c} : SameEnds(d)
    BY <1>5 DEF StartWalk, SameEnds, TypeOK
  <2> QED
    BY <2>3, <2>4, OneTalks
<1>6. ASSUME AskNew(c), \A d \in Client \ {c} : /\ known'[d] = known[d]
                                                /\ toClient'[d] = toClient[d]
      PROVE  \A d \in Client \ {c} : SameEnds(d)
  BY <1>6 DEF AskNew, Send, SameEnds, TypeOK
<1>7. ASSUME AckDeletion(c) PROVE Talk!Next
  <2>1. /\ pc[c] = "ackDel"
        /\ Acked(c)
        /\ Receive(c)
        /\ AskNew(c)
        /\ \A d \in Client \ {c} : /\ known'[d] = known[d]
                                   /\ toClient'[d] = toClient[d]
    BY <1>7 DEF AckDeletion, Receive, TypeOK
  <2>2. ClientEnd(c) /\ pc[c] \in Waiting
    BY <2>1 DEF ClientEnd, Waiting
  <2>3. /\ Tail(toClient[c]) = <<>>
        /\ ServerEnd(c) => toServer[c] = <<>> /\ phase[c] = "sync"
    BY <1>1, <2>1, ResponseIsReply
       DEF Waiting, Replied, ServerLeft, Leftover, Acked
  <2>4. ServerEnd(c) => Ahead(c, <<>>)
    BY <2>3 DEF Ahead, Uploading, Giving
  <2>5. Talk!Asks(c, NoName)
    BY <1>1, <2>1, <2>2, <2>4, AskNewTalks
  <2>6. Meaning(c, Response(c)) = "ack"
    BY <2>1 DEF Meaning
  <2>7. Talk!Step(c)
    BY <2>1, <2>2, <2>3, <2>5, <2>6, AckTalks
  <2> QED
    BY <1>6, <2>1, <2>7, OneTalks
<1>8. ASSUME NEW name \in EntryName, Walk(c, name) PROVE Talk!Next
  <2>1. PICK t \in DirTime :
          /\ Send(c, Header(name, MTime(local[c], name, t)))
          /\ cur' = [cur EXCEPT ![c] =
                       [name |-> name, mtime |-> MTime(local[c], name, t),
                        link |-> "gone"]]
    BY <1>8 DEF Walk
  <2>2. MTime(local[c], name, t) \in MTimes
    BY <1>8, DirTimeIsTime, FileInFolder
       DEF Walk, MTime, EntryName, TypeOK, MTimes
  <2>3. /\ pc[c] = "walk"
        /\ pc'[c] \in Waiting
        /\ cur'[c].name = name
        /\ toClient' = toClient
        /\ name \in EntryName \cup {NoName}
    BY <1>8, <2>1 DEF Walk, TypeOK, Waiting
  <2>4. Talk!Asks(c, name) /\ Talk!ServerStays(c)
    BY <1>1, <2>1, <2>2, <2>3, Quiet, AskTalks
  <2>5. Talk!Step(c)
    BY <1>3, <2>3, <2>4
  <2>6. \A d \in Client \ {c} : SameEnds(d)
    BY <1>8, <2>1 DEF Walk, Send, SameEnds, TypeOK
  <2> QED
    BY <2>5, <2>6, OneTalks
<1>9. ASSUME WalkDone(c) PROVE Talk!Next
  <2>1. /\ pc[c] = "walk"
        /\ AskNew(c)
        /\ UNCHANGED <<known, toClient>>
    BY <1>9 DEF WalkDone
  <2>2. Talk!Asks(c, NoName) /\ Talk!ServerStays(c)
    BY <1>1, <2>1, Quiet, AskNewTalks
  <2>3. Talk!Step(c)
    BY <1>3, <2>1, <2>2
  <2> QED
    BY <1>6, <2>1, <2>3, OneTalks
<1> QED
  BY <1>2, <1>4, <1>5, <1>7, <1>8, <1>9

\* Reading the responses.
LEMMA ResponseTalks ==
  ASSUME TypeOK, InStep, ContentKeepsName, NEW c \in Client,
         UNCHANGED <<envVars, serverUp, disk, slotVars>>
  PROVE  /\ RemoveFile(c) => Talk!Next
         /\ SendFile(c) => Talk!Next
         /\ SameTime(c) => Talk!Next
         /\ GetNewer(c) => Talk!Next
         /\ GetNew(c) => Talk!Next
         /\ CycleDone(c) => Talk!Next
         /\ GetDone(c) => Talk!Next
         /\ GetNewDone(c) => Talk!Next
<1> USE DEF slotVars
<1> DEFINE header == Head(toClient[c])
           rest == Tail(toClient[c])
<1>1. InStepAt(c) /\ Response(c) = header /\ NoTransfer.name = NoName
  BY DEF InStep, Response, NoTransfer
<1>2. ASSUME SyncAcked(c) PROVE cur[c].mtime \in Nat /\ cur[c].mtime # Deleted
  BY <1>1, <1>2 DEF SyncAcked, InStepAt, Remembers, Deleted
<1>3. ServerRole(c)' = ServerRole(c) /\ ContentOf(c)' = ContentOf(c)
  BY DEF ServerRole, ContentOf
\* an acknowledgement, after which the client is at rest
<1>4. ASSUME Acked(c), Receive(c), pc[c] \in Waiting, rest = <<>>,
             Meaning(c, header) = "ack",
             pc' \in {[pc EXCEPT ![c] = "walk"], [pc EXCEPT ![c] = "scan"]},
             cur'[c] = NoTransfer,
             \A d \in Client \ {c} : cur'[d] = cur[d] /\ known'[d] = known[d],
             toServer' = toServer
      PROVE  Talk!Next
  <2>1. pc'[c] \in {"scan", "walk"} /\ cur'[c].name = NoName
    BY <1>1, <1>4 DEF TypeOK
  <2>2. Talk!Step(c)
    BY <1>1, <1>4, <2>1, AckTalks
  <2>3. \A d \in Client \ {c} : SameEnds(d)
    BY <1>4 DEF Receive, SameEnds, TypeOK
  <2> QED
    BY <2>2, <2>3, OneTalks
<1>5. ASSUME RemoveFile(c) PROVE Talk!Next
  <2>1. /\ pc[c] = "ackSync" /\ Acked(c) /\ pc[c] \in Waiting
        /\ header.mtime = Deleted
        /\ Receive(c)
        /\ pc' = [pc EXCEPT ![c] = "walk"]
        /\ cur'[c] = NoTransfer
        /\ toServer' = toServer
        /\ \A d \in Client \ {c} : cur'[d] = cur[d] /\ known'[d] = known[d]
    BY <1>1, <1>5 DEF RemoveFile, SyncAcked, Waiting, TypeOK
  <2>2. rest = <<>>
    BY <1>1, <1>2, <1>5, <2>1, ResponseIsReply
       DEF RemoveFile, Waiting, Replied, ServerLeft, Leftover, Acked, Deleted
  <2>3. Meaning(c, header) = "ack"
    BY <1>2, <1>5, <2>1 DEF RemoveFile, Meaning, Deleted
  <2> QED
    BY <1>4, <2>1, <2>2, <2>3
<1>6. ASSUME SameTime(c) PROVE Talk!Next
  <2>1. /\ pc[c] = "ackSync" /\ Acked(c) /\ pc[c] \in Waiting
        /\ header.mtime = cur[c].mtime
        /\ Receive(c)
        /\ pc' = [pc EXCEPT ![c] = "walk"]
        /\ cur'[c] = NoTransfer
        /\ toServer' = toServer
        /\ \A d \in Client \ {c} : cur'[d] = cur[d] /\ known'[d] = known[d]
    BY <1>1, <1>6 DEF SameTime, SyncAcked, Waiting, TypeOK
  <2>2. rest = <<>>
    BY <1>1, <1>2, <1>6, <2>1, ResponseIsReply
       DEF SameTime, Waiting, Replied, ServerLeft, Leftover, Acked, Deleted
  <2>3. Meaning(c, header) = "ack"
    BY <1>2, <1>6, <2>1 DEF SameTime, Meaning
  <2> QED
    BY <1>4, <2>1, <2>2, <2>3
<1>7. ASSUME CycleDone(c) PROVE Talk!Next
  <2>1. /\ pc[c] = "ackNew" /\ Acked(c) /\ pc[c] \in Waiting
        /\ header.filename = NoName
        /\ Receive(c)
        /\ pc' = [pc EXCEPT ![c] = "scan"]
        /\ UNCHANGED <<known, cur, toServer>>
    BY <1>1, <1>7 DEF CycleDone, Waiting
  <2>2. rest = <<>>
    BY <1>1, <1>7, EndOfCycle
  <2>3. cur[c] = NoTransfer
    BY <1>1, <2>1 DEF InStepAt, Remembers
  <2>4. Meaning(c, header) = "ack"
    BY <2>1 DEF Meaning
  <2> QED
    BY <1>4, <2>1, <2>2, <2>3, <2>4
\* the content that the server wants
<1>8. ASSUME SendFile(c) PROVE Talk!Next
  <2> DEFINE name == cur[c].name
             body == Body(local[c][name].data)
  <2>1. /\ pc[c] = "ackSync" /\ Acked(c) /\ pc[c] \in Waiting
        /\ header.mtime # Deleted
        /\ header.mtime < cur[c].mtime
        /\ Exists(local[c], name)
        /\ IF name \in FileName THEN Send(c, body) ELSE UNCHANGED toServer
        /\ Receive(c)
        /\ pc' = [pc EXCEPT ![c] = "walk"]
        /\ cur' = [cur EXCEPT ![c] = NoTransfer]
        /\ known' = known
    BY <1>1, <1>8 DEF SendFile, SyncAcked, Waiting
  <2>2. header.mtime \in Nat
    BY <1>1, <2>1, ResponseIsMessage DEF Acked, MTimes
  <2>3. /\ rest = <<>>
        /\ toServer[c] = <<>>
        /\ ServerEnd(c) => /\ phase[c] \in {"getfile", "writing"}
                           /\ upload[c].name = name
    BY <1>1, <1>2, <1>8, <2>1, <2>2, ResponseIsReply
       DEF SendFile, Waiting, Replied, ServerLeft, Leftover, Acked
  <2>4. Meaning(c, header) = "want"
    BY <1>2, <1>8, <2>1, <2>2 DEF SendFile, Meaning
  <2>5. /\ Headers(toServer'[c]) = {}
        /\ Contents(toServer'[c]) =
             IF ServerEnd(c) THEN {name} \cap FileName ELSE {}
    <3>1. CASE name \in FileName /\ ServerEnd(c)
      <4>1. local[c] \in Folder /\ KeepsName(local[c])
        BY DEF TypeOK, ContentKeepsName
      <4>2. /\ local[c][name].data \in Content
            /\ local[c][name].data.of = name
        BY <2>1, <3>1, <4>1, FileInFolder DEF KeepsName, Exists
      <4>3. body \in Message /\ ~ IsHeader(body) /\ body.data.of = name
        BY <4>2, BodyIsMessage
      <4>4. toServer'[c] = Append(<<>>, body)
        BY <2>1, <2>3, <3>1 DEF Send, TypeOK
      <4> HIDE DEF body
      <4>5. toServer'[c] = <<body>>
        BY <4>3, <4>4, OneMessage
      <4> QED
        BY <3>1, <4>3, <4>5, OneListed
    <3>2. CASE ~ (name \in FileName /\ ServerEnd(c))
      <4>1. toServer'[c] = <<>>
        BY <2>1, <2>3, <3>2 DEF Send
      <4> QED
        BY <3>2, <4>1, NothingListed
    <3> QED
      BY <3>1, <3>2
  <2>6. /\ QuestionsOf(c) = {} /\ QuestionsOf(c)' = {}
        /\ Contents(toServer[c]) = {}
    BY <2>3, <2>5, NothingListed DEF QuestionsOf
  <2>7. /\ ClientRole(c)' = "idle" /\ cur'[c].name = NoName
        /\ ServerEnd(c) => ContentOf(c) = name
    BY <1>1, <2>1, <2>3, Roles DEF ClientRole, TypeOK
  <2>8. /\ AnswersOf(c) = {"want"} /\ Contents(toClient[c]) = {}
        /\ AnswersOf(c)' = {} /\ Contents(toClient'[c]) = {}
    BY <1>1, <2>1, <2>3, <2>4, ReadTalks
  <2>9. Talk!ReadWant(c)
    BY <1>3, <2>1, <2>5, <2>6, <2>7, <2>8, Roles
       DEF Talk!ReadWant, Talk!ToServer, Talk!ServerStays
  <2>10. \A d \in Client \ {c} : SameEnds(d)
    BY <2>1 DEF Send, Receive, SameEnds, TypeOK
  <2> QED
    BY <2>9, <2>10, OneTalks DEF Talk!Step
\* get_file
<1>9. ASSUME NEW position \in {"recv", "recvNew"}, GetOpenLocal(c, position),
             Acked(c), pc[c] \in Waiting, Meaning(c, header) = "give",
             rest = <<>> \/ OneBody(rest, header.filename),
             ServerEnd(c) =>
               \/ OneBody(rest, header.filename)
               \/ phase[c] \in Giving /\ upload[c].name = header.filename
      PROVE  Talk!Next
  <2>1. /\ header.filename \in FileName
        /\ pc'[c] = position
        /\ cur'[c].name = header.filename
        /\ Receive(c)
        /\ toServer' = toServer
    BY <1>1, <1>9 DEF GetOpenLocal, TypeOK
  <2>2. /\ Headers(rest) = {}
        /\ Contents(rest) = {header.filename} \/ (rest = <<>> /\ Contents(rest) = {})
    <3>1. rest \in Seq(Message)
      BY <1>9, ResponseIsMessage DEF Acked
    <3> QED
      BY <1>9, <3>1, Listing, NothingListed DEF OneBody, IsBody, IsHeader
  <2>3. /\ AnswersOf(c) = {"give"}
        /\ Contents(toClient[c]) = Contents(rest)
        /\ toClient'[c] = rest
    BY <1>1, <1>9, <2>1, <2>2, ReadTalks
  <2>4. AnswersOf(c)' = {}
    BY <2>2, <2>3 DEF AnswersOf
  <2>5. /\ ClientRole(c)' = "receiving"
        /\ QuestionsOf(c)' = QuestionsOf(c)
    BY <1>9, <2>1 DEF ClientRole, QuestionsOf
  <2>6. /\ OneBody(rest, header.filename) => rest # <<>>
        /\ phase[c] \in Giving => /\ ServerRole(c) = "giving"
                                  /\ ContentOf(c) = upload[c].name
    BY Roles DEF OneBody
  <2>7. Talk!ReadGive(c)
    BY <1>3, <1>9, <2>1, <2>2, <2>3, <2>4, <2>5, <2>6, Roles
       DEF Talk!ReadGive, Talk!ServerStays, Talk!ToServerStays
  <2>8. \A d \in Client \ {c} : SameEnds(d)
    BY <1>9 DEF GetOpenLocal, Receive, SameEnds, TypeOK
  <2> QED
    BY <2>7, <2>8, OneTalks DEF Talk!Step
<1>10. ASSUME GetNewer(c) PROVE Talk!Next
  <2>1. /\ pc[c] = "ackSync" /\ Acked(c) /\ pc[c] \in Waiting
        /\ header.mtime > cur[c].mtime
        /\ header.filename \in FileName
        /\ GetOpenLocal(c, "recv")
    BY <1>1, <1>10 DEF GetNewer, SyncAcked, GetOpenLocal, Waiting
  <2>2. header.mtime \in Nat /\ cur[c].mtime \in Nat
    BY <1>1, <1>2, <1>10, <2>1, ResponseIsMessage
       DEF GetNewer, Acked, MTimes, Deleted
  <2>3. /\ rest = <<>> \/ OneBody(rest, header.filename)
        /\ ServerEnd(c) =>
             \/ OneBody(rest, header.filename)
             \/ phase[c] \in Giving /\ upload[c].name = header.filename
    BY <1>1, <2>1, <2>2, ResponseIsReply
       DEF Waiting, Replied, Announces, ServerLeft, Leftover, Acked, Deleted,
           Giving
  <2>4. Meaning(c, header) = "give"
    BY <2>1, <2>2 DEF Meaning
  <2> QED
    BY <1>9, <2>1, <2>3, <2>4
<1>11. ASSUME GetNew(c) PROVE Talk!Next
  <2>1. /\ pc[c] = "ackNew" /\ Acked(c) /\ pc[c] \in Waiting
        /\ header.filename \in FileName /\ header.filename # NoName
        /\ GetOpenLocal(c, "recvNew")
    BY <1>1, <1>11 DEF GetNew, GetOpenLocal, Waiting
  <2>2. /\ rest = <<>> \/ OneBody(rest, header.filename)
        /\ ServerEnd(c) =>
             \/ OneBody(rest, header.filename)
             \/ phase[c] \in Giving /\ upload[c].name = header.filename
    BY <1>1, <2>1, ResponseIsReply
       DEF Waiting, Replied, Announces, ServerLeft, Leftover, Acked, Giving
  <2>3. Meaning(c, header) = "give"
    BY <2>1 DEF Meaning
  <2> QED
    BY <1>9, <2>1, <2>2, <2>3
\* the content comes
<1>12. ASSUME pc[c] \in {"recv", "recvNew"}, toClient[c] # <<>>, Receive(c)
       PROVE  /\ ClientEnd(c)
              /\ ServerEnd(c) => Ahead(c, <<>>)
              /\ Talk!GoesOn(c) => Talk!Step(c)
  <2>1. /\ ClientEnd(c)
        /\ IsBody(header, cur[c].name)
        /\ rest = <<>>
        /\ ServerEnd(c) => toServer[c] = <<>> /\ phase[c] = "sync"
    BY <1>1, <1>12, FileRead
  <2>2. /\ toClient[c] \in Seq(Message)
        /\ ~ IsHeader(header)
        /\ toClient'[c] = <<>>
    BY <1>12, <2>1 DEF TypeOK, IsBody, IsHeader, Receive
  <2>3. /\ Headers(toClient[c]) = {}
        /\ Contents(toClient[c]) = {cur[c].name}
    BY <1>12, <2>1, <2>2, Listing, NothingListed DEF IsBody
  <2>4. /\ AnswersOf(c) = {} /\ AnswersOf(c)' = {}
        /\ Contents(toClient'[c]) = {}
    BY <2>2, <2>3, NothingListed DEF AnswersOf
  <2>5. Talk!GoesOn(c) => Talk!TakeDown(c)
    BY <1>3, <1>12, <2>3, <2>4, Roles DEF Talk!TakeDown, Talk!ServerStays
  <2>6. ServerEnd(c) => Ahead(c, <<>>)
    BY <2>1 DEF Ahead, Uploading, Giving
  <2> QED
    BY <2>1, <2>5, <2>6 DEF Talk!Step
<1>13. ASSUME GetDone(c) PROVE Talk!Next
  <2>1. /\ pc[c] = "recv"
        /\ toClient[c] # <<>>
        /\ Receive(c)
        /\ pc' = [pc EXCEPT ![c] = "walk"]
        /\ cur' = [cur EXCEPT ![c] = NoTransfer]
        /\ UNCHANGED <<known, toServer>>
    BY <1>13 DEF GetDone, Received
  <2>2. /\ ClientRole(c)' = "idle" /\ cur'[c].name = NoName
        /\ QuestionsOf(c)' = QuestionsOf(c)
    BY <1>1, <2>1 DEF ClientRole, QuestionsOf, TypeOK
  <2>3. Talk!Step(c)
    BY <1>12, <2>1, <2>2 DEF Talk!GoesOn, Talk!ToServerStays
  <2>4. \A d \in Client \ {c} : SameEnds(d)
    BY <2>1 DEF Receive, SameEnds, TypeOK
  <2> QED
    BY <2>3, <2>4, OneTalks
<1>14. ASSUME GetNewDone(c) PROVE Talk!Next
  <2>1. /\ pc[c] = "recvNew"
        /\ toClient[c] # <<>>
        /\ Receive(c)
        /\ AskNew(c)
        /\ UNCHANGED known
    BY <1>14 DEF GetNewDone, Received
  <2>2. Talk!Asks(c, NoName)
    BY <1>1, <1>12, <2>1, AskNewTalks
  <2>3. Talk!Step(c)
    BY <1>12, <2>1, <2>2 DEF Talk!GoesOn
  <2>4. \A d \in Client \ {c} : SameEnds(d)
    BY <2>1 DEF AskNew, Send, Receive, SameEnds, TypeOK
  <2> QED
    BY <2>3, <2>4, OneTalks
<1> QED
  BY <1>5, <1>6, <1>7, <1>8, <1>10, <1>11, <1>13, <1>14

-----------------------------------------------------------------------------
(* Connecting and the environment, and the theorem. *)

\* Logging in opens a conversation.
LEMMA LoginTalks ==
  ASSUME TypeOK, NEW c \in Client, Login(c)
  PROVE  Talk!Next
<1>1. /\ phase[c] = "dead" /\ pc[c] = "off"
      /\ phase' = [phase EXCEPT ![c] = "sync"]
      /\ pc' = [pc EXCEPT ![c] = "scan"]
      /\ UNCHANGED <<upload, cur, toServer, toClient>>
      /\ \A d \in Client \ {c} : known'[d] = known[d]
  BY DEF Login, ServerLogin, ClientStart, wireVars, TypeOK
<1>2. phase'[c] = "sync" /\ pc'[c] = "scan"
  BY <1>1 DEF TypeOK
<1>3. /\ ClientRole(c) = "closed" /\ ClientRole(c)' = "idle"
      /\ ServerRole(c) = "closed" /\ ServerRole(c)' = "ready"
      /\ ContentOf(c)' = ContentOf(c)
  BY <1>1, <1>2 DEF ClientRole, ServerRole, ContentOf, Giving
<1>4. QuestionsOf(c)' = QuestionsOf(c)
  BY <1>1 DEF QuestionsOf
<1>5. AnswersOf(c)' = AnswersOf(c)
  BY <1>1, <1>2 DEF AnswersOf, Meaning
<1>6. Talk!Open(c)
  BY <1>1, <1>3, <1>4, <1>5
     DEF Talk!Open, Talk!ToServerStays, Talk!ToClientStays
<1>7. \A d \in Client \ {c} : SameEnds(d)
  BY <1>1 DEF SameEnds, TypeOK
<1> QED
  BY <1>6, <1>7, OneTalks DEF Talk!Step

\* Edits are not seen in the conversations, a crash closes them.
LEMMA EnvTalks ==
  ASSUME TypeOK, InStep, EnvNext
  PROVE  Talk!Next
<1> USE DEF envVars, slotVars, wireVars
<1>1. (\A d \in Client : SameEnds(d)) => Talk!Next
  BY SameEndsStays DEF Talk!Next
<1>2. CASE Tick
  BY <1>1, <1>2 DEF Tick, SameEnds, clientVars
<1>3. ASSUME NEW c \in Client, NEW name \in FileName,
             UserWrite(c, name) \/ UserDelete(c, name)
      PROVE  Talk!Next
  <2>1. /\ cur' = [cur EXCEPT ![c] = Unlink(@, name)]
        /\ UNCHANGED <<phase, upload, toServer, toClient, pc, known>>
    BY <1>3 DEF UserWrite, UserDelete
  <2>2. \A d \in Client : SameEnds(d)
    BY <2>1, UnlinkKeeps DEF SameEnds, TypeOK
  <2> QED
    BY <1>1, <2>2
<1>4. ASSUME NEW name \in FileName, AdminWrite(name) \/ AdminDelete(name)
      PROVE  Talk!Next
  <2>1. /\ upload' = [c \in Client |-> Unlink(upload[c], name)]
        /\ UNCHANGED <<phase, toServer, toClient, clientVars>>
    BY <1>4 DEF AdminWrite, AdminDelete
  <2>2. \A d \in Client : SameEnds(d)
    BY <2>1, UnlinkKeeps DEF SameEnds, clientVars, TypeOK
  <2> QED
    BY <1>1, <2>2
<1>5. ASSUME NEW c \in Client, ClientCrash(c) PROVE Talk!Next
  BY <1>5, ExitTalks DEF ClientCrash, ClientEnd
<1>6. ASSUME ServerDies, UNCHANGED clientVars PROVE Talk!Next
  BY <1>6, ServerDiesTalks
<1>7. CASE ServerCrash
  BY <1>6, <1>7 DEF ServerCrash
<1>8. ASSUME NEW c \in Client, NEW name \in FileName,
             AdminDeleteFailsStat(c, name)
      PROVE  Talk!Next
  BY <1>6, <1>8 DEF AdminDeleteFailsStat
<1> QED
  BY <1>2, <1>3, <1>4, <1>5, <1>7, <1>8 DEF EnvNext

\* Every step of Sync is a step of the conversations.
LEMMA StepTalks ==
  ASSUME TypeOK, InStep, ContentKeepsName, [Next]_vars
  PROVE  Talk!Next
<1>1. (\A d \in Client : SameEnds(d)) => Talk!Next
  BY SameEndsStays DEF Talk!Next
<1>2. CASE UNCHANGED vars
  BY <1>1, <1>2 DEF vars, slotVars, wireVars, clientVars, SameEnds
<1>3. ASSUME NEW c \in Client, LoginFails(c) PROVE Talk!Next
  BY <1>3, ServerDiesTalks DEF LoginFails, LoginRefused
<1>4. CASE Boot
  BY <1>1, <1>4 DEF Boot, ServerBoots, slotVars, wireVars, clientVars, SameEnds
<1>5. ASSUME NEW c \in Client, ServerNext(c) PROVE Talk!Next
  <2>1. /\ UNCHANGED <<envVars, clientVars, local>>
        /\ ServerStep(c)
    BY <1>5 DEF ServerNext
  <2> QED
    BY <2>1, IdleTalks, PacketTalks, GiveTalks, UploadTalks DEF ServerStep
<1>6. ASSUME NEW c \in Client, ClientNext(c) PROVE Talk!Next
  <2>1. /\ UNCHANGED <<envVars, serverUp, disk, slotVars>>
        /\ ClientStep(c)
    BY <1>6 DEF ClientNext
  <2>2. CASE ExitOnly(c) /\ ClientEnd(c)
    BY <2>1, <2>2, CycleTalks
  <2>3. CASE ~ (ExitOnly(c) /\ ClientEnd(c))
    <3>1. ~ (\/ Unanswered(c) \/ NullName(c) \/ WalkVanished(c)
             \/ SendVanished(c) \/ GetNewerDirectory(c) \/ GetVanished(c))
      BY <2>3 DEF Unanswered, NullName, WalkVanished, SendVanished, SyncAcked,
                  GetNewerDirectory, GetVanished, ClientEnd
    <3> QED
      BY <2>1, <3>1, CycleTalks, ResponseTalks DEF ClientStep
  <2> QED
    BY <2>2, <2>3
<1> QED
  BY <1>2, <1>3, <1>4, <1>5, <1>6, LoginTalks, EnvTalks DEF Next

\* The channels of startConsThread and sync_files, whose messages carry neither
\* a number nor what they are, implement the conversation of Conversation: one
\* answer at most to every question, taken as it was meant, and content for
\* the end that waits for it, whatever the crashes cut off.
THEOREM KeepsConversation == Spec => ConversationKept
<1>1. Init => Talk!Init
  <2> SUFFICES ASSUME Init
               PROVE  Talk!Init
    OBVIOUS
  <2>1. ASSUME NEW c \in Client
        PROVE  /\ ClientRole(c) = "closed" /\ cur[c].name = NoName
               /\ ServerRole(c) = "closed" /\ ContentOf(c) = NoName
               /\ toServer[c] = <<>> /\ toClient[c] = <<>>
    BY DEF Init, SlotsInit, ClientInit, Everywhere, NoTransfer, ClientRole,
           ServerRole, ContentOf
  <2>2. ASSUME NEW c \in Client
        PROVE  /\ QuestionsOf(c) = {} /\ AnswersOf(c) = {}
               /\ Contents(toServer[c]) = {} /\ Contents(toClient[c]) = {}
    BY <2>1, NothingListed DEF QuestionsOf, AnswersOf
  <2> QED
    BY <2>1, <2>2 DEF Talk!Init
<1>2. IInv /\ [Next]_vars => [Talk!Next]_(Talk!conversationVars)
  BY StepTalks DEF IInv
<1> QED
  BY <1>1, <1>2, Invariance, PTL DEF Spec, ConversationKept, Talk!Spec

=============================================================================
